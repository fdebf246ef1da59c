--------------------------- MODULE UartCom2Proofs ---------------------------
(***************************************************************************)
(* Proofs about UartCom2, for every frame size, response size and FIFO.    *)
(*                                                                         *)
(* The bytes under way form one run: rx_buffer up to rx_index, the FIFO,   *)
(* the sender's next byte.  Place says where in the stream each of them    *)
(* is, counted from the start of the frame under assembly.  A drop needs a *)
(* full FIFO while a response is owed; then the run begins with a frame    *)
(* whose predecessor is unanswered, and the sender stops `ahead' bytes     *)
(* into it.                                                                *)
(*                                                                         *)
(* A sender that goes further loses bytes.  Then Shifted says of each byte *)
(* that came through where it stands, by counting the drops before it.     *)
(***************************************************************************)
EXTENDS UartCom2, FiniteSetTheorems, SequenceTheorems, TLAPS

(* The byte at distance x from the start of frame k.                       *)
Place(k, x) ==
  IF x < FRAME_SIZE THEN [frame |-> k, at |-> x]
                    ELSE [frame |-> k + 1, at |-> x - FRAME_SIZE]

InOrder ==
  /\ \A j \in Slots : j < rx_index => rx_buffer[j] = Place(Len(delivered), j)
  /\ \A i \in DOMAIN fifo : fifo[i] = Place(Len(delivered), rx_index + i - 1)
  /\ host = Place(Len(delivered), rx_index + Len(fifo))

(* One response is owed at most; its bytes are heard, under way or still   *)
(* to be written.                                                          *)
Owed ==
  /\ \/ /\ answered = Len(delivered)
        /\ part = 0 /\ sending = 0 /\ tx_left = 0
     \/ /\ answered = Len(delivered) - 1
        /\ part + sending + tx_left = RESP_SIZE
  /\ tx_left > 0 => pc = "respond"
  /\ pc = "respond" => rx_index = 0

HostHeld ==
  host.frame <= answered \/ (host.frame = answered + 1 /\ host.at <= ahead)

IInv == TypeOK /\ lost = {} /\ InOrder /\ Owed /\ HostHeld

-----------------------------------------------------------------------------
(* Types.                                                                  *)

LEMMA InitType == Init => TypeOK
  <1> SUFFICES ASSUME Init
               PROVE  TypeOK
    OBVIOUS
  <1> USE SizesAssumption DEF Init
  <1>1. rx_buffer \in [Slots -> Cells]
    BY DEF Cells
  <1>2. rx_index \in Slots /\ host \in Bytes
    BY DEF Slots, Bytes
  <1>3. delivered \in Seq([Slots -> Cells])
    BY EmptySeq
  <1>4. fifo \in Seq(Bytes) /\ Len(fifo) <= RX_FIFO
    BY EmptySeq
  <1>5. /\ tx_left \in 0 .. RESP_SIZE /\ part \in 0 .. (RESP_SIZE - 1)
        /\ sending \in 0 .. 2 /\ answered \in Nat /\ lost \subseteq Bytes
    OBVIOUS
  <1> HIDE DEF Init
  <1>6. /\ pc \in {"poll", "look", "drain", "respond", "ack", "serve"}
        /\ ntfn \in BOOLEAN /\ masked \in BOOLEAN /\ ahead \in Aheads
    BY DEF Init
  <1> QED
    BY <1>1, <1>2, <1>3, <1>4, <1>5, <1>6 DEF TypeOK

LEMMA NextType == TypeOK /\ [Next]_vars => TypeOK'
  <1> SUFFICES ASSUME TypeOK, [Next]_vars
               PROVE  TypeOK'
    OBVIOUS
  <1> USE SizesAssumption
  <1>1. CASE Poll
    BY <1>1 DEF TypeOK, Poll, hostVars
  <1>2. CASE Look
    BY <1>2 DEF TypeOK, Look, hostVars, irqVars
  <1>3. CASE ReadByte
    <2>1. /\ Head(fifo) \in Bytes
          /\ Tail(fifo) \in Seq(Bytes)
          /\ Len(Tail(fifo)) = Len(fifo) - 1
          /\ Len(fifo) \in Nat
      BY <1>3 DEF TypeOK, ReadByte, uart_com2_has_data
    <2>2. rx_buffer' \in [Slots -> Cells]
      BY <1>3, <2>1 DEF TypeOK, ReadByte, Cells
    <2>3. delivered' \in Seq([Slots -> Cells])
      <3>1. delivered \in Seq([Slots -> Cells])
        BY DEF TypeOK
      <3>2. delivered' = delivered \/ delivered' = Append(delivered, rx_buffer')
        BY <1>3 DEF ReadByte
      <3> QED
        BY <2>2, <3>1, <3>2, AppendProperties
    <2>4. /\ rx_index' \in Slots
          /\ tx_left' \in 0 .. RESP_SIZE
          /\ pc' \in {"poll", "look", "drain", "respond", "ack", "serve"}
      BY <1>3 DEF TypeOK, ReadByte, Slots
    <2> QED
      BY <1>3, <2>1, <2>2, <2>3, <2>4 DEF TypeOK, ReadByte, hostVars, irqVars
  <1>4. CASE WriteByte
    BY <1>4 DEF TypeOK, WriteByte, THRE, hostVars, irqVars
  <1>5. CASE Written
    BY <1>5 DEF TypeOK, Written, hostVars, irqVars
  <1>6. CASE Drained
    BY <1>6 DEF TypeOK, Drained, hostVars, irqVars
  <1>7. CASE Ack
    BY <1>7 DEF TypeOK, Ack, hostVars
  <1>8. CASE ServeClient
    BY <1>8 DEF TypeOK, ServeClient, hostVars, irqVars
  <1>9. CASE ByteArrives
    <2>1. host' \in Bytes
      <3>1. host.frame \in Nat /\ host.at \in Slots /\ host \in Bytes
        BY DEF TypeOK, Bytes
      <3>2. CASE host.at + 1 = FRAME_SIZE
        <4>1. host' = [frame |-> host.frame + 1, at |-> 0]
          BY <1>9, <3>2 DEF ByteArrives, Following
        <4> QED
          BY <3>1, <4>1 DEF Bytes, Slots
      <3>3. CASE host.at + 1 # FRAME_SIZE
        <4>1. host' = [host EXCEPT !.at = host.at + 1]
          BY <1>9, <3>3 DEF ByteArrives, Following
        <4>2. host.at + 1 \in Slots
          BY <3>1, <3>3 DEF Slots
        <4> QED
          BY <3>1, <4>1, <4>2 DEF Bytes
      <3> QED
        BY <3>2, <3>3
    <2>2. fifo' \in Seq(Bytes) /\ Len(fifo') <= RX_FIFO /\ lost' \subseteq Bytes
      <3>1. /\ fifo \in Seq(Bytes) /\ host \in Bytes
            /\ Len(fifo) <= RX_FIFO /\ lost \subseteq Bytes
        BY DEF TypeOK
      <3>2. CASE Len(fifo) < RX_FIFO
        <4>1. fifo' = Append(fifo, host) /\ lost' = lost
          BY <1>9, <3>2 DEF ByteArrives
        <4> QED
          BY <3>1, <3>2, <4>1, AppendProperties
      <3>3. CASE ~(Len(fifo) < RX_FIFO)
        <4>1. lost' = lost \cup {host} /\ fifo' = fifo
          BY <1>9, <3>3 DEF ByteArrives
        <4> QED
          BY <3>1, <4>1
      <3> QED
        BY <3>2, <3>3
    <2> QED
      BY <1>9, <2>1, <2>2 DEF TypeOK, ByteArrives, rootVars, irqVars
  <1>10. CASE HostHears
    BY <1>10 DEF TypeOK, HostHears, rootVars, irqVars
  <1>11. CASE UNCHANGED vars
    BY <1>11 DEF TypeOK, vars, rootVars, irqVars, hostVars
  <1> QED
    BY <1>1, <1>2, <1>3, <1>4, <1>5, <1>6, <1>7, <1>8, <1>9, <1>10, <1>11
    DEF Next, RootStep

-----------------------------------------------------------------------------
(* The run of bytes.                                                       *)

(* The place after a byte's is the one the sender goes on to.              *)
LEMMA PlaceFollows ==
  ASSUME NEW k \in Nat, NEW x \in Nat, x + 1 < 2 * FRAME_SIZE
  PROVE  Following(Place(k, x)) = Place(k, x + 1)
  BY SizesAssumption DEF Following, Place

(* The FIFO and rx_buffer together hold less than two frames.              *)
LEMMA RunIsShort ==
  ASSUME TypeOK
  PROVE  /\ Len(fifo) \in Nat /\ rx_index \in Nat
         /\ rx_index + Len(fifo) + 1 < 2 * FRAME_SIZE
         /\ DOMAIN fifo = 1 .. Len(fifo)
         /\ Len(delivered) \in Nat
  BY SizesAssumption DEF TypeOK, Slots

(* A byte that finds the FIFO full is not sent in the first place.         *)
LEMMA RoomForByte ==
  ASSUME Windowed, IInv, ByteArrives
  PROVE  Len(fifo) < RX_FIFO
  <1> SUFFICES ASSUME ~(Len(fifo) < RX_FIFO)
               PROVE  FALSE
    OBVIOUS
  <1> USE SizesAssumption, RunIsShort DEF IInv
  <1>1. Busy /\ HostMaySend
    BY DEF ByteArrives, KeepsUp
  <1>2. /\ rx_index = 0
        /\ answered = Len(delivered) - 1
    BY <1>1 DEF Busy, Owed, TypeOK
  <1>3. Len(fifo) = RX_FIFO
    BY DEF TypeOK
  <1>4. host = [frame |-> Len(delivered), at |-> RX_FIFO]
    BY <1>2, <1>3 DEF InOrder, Place
  <1>5. ahead \in Nat
    BY DEF TypeOK
  <1> QED
    BY <1>1, <1>2, <1>4, <1>5 DEF HostMaySend, Windowed

LEMMA ArrivalKeeps ==
  ASSUME Windowed, IInv, ByteArrives
  PROVE  (lost = {} /\ InOrder /\ Owed /\ HostHeld)'
  <1> USE SizesAssumption
  <1>1. /\ fifo' = Append(fifo, host)
        /\ host' = Following(host)
        /\ UNCHANGED <<rootVars, sending, answered, part, ahead, lost>>
    BY RoomForByte DEF ByteArrives
  <1>2. /\ rx_index' = rx_index /\ rx_buffer' = rx_buffer
        /\ delivered' = delivered
        /\ tx_left' = tx_left /\ pc' = pc
    BY <1>1 DEF rootVars
  <1>3. TypeOK
    BY DEF IInv
  <1>4. /\ Len(fifo') = Len(fifo) + 1
        /\ DOMAIN fifo' = 1 .. (Len(fifo) + 1)
        /\ \A i \in DOMAIN fifo : fifo'[i] = fifo[i]
        /\ fifo'[Len(fifo) + 1] = host
    BY <1>1, <1>3 DEF TypeOK
  <1>6. host' = Place(Len(delivered), rx_index + Len(fifo) + 1)
    BY <1>1, <1>3, RunIsShort, PlaceFollows DEF IInv, InOrder
  <1>7. \A i \in DOMAIN fifo' : fifo'[i] = Place(Len(delivered), rx_index + i - 1)
    <2> SUFFICES ASSUME NEW i \in DOMAIN fifo'
                 PROVE  fifo'[i] = Place(Len(delivered), rx_index + i - 1)
      OBVIOUS
    <2>1. CASE i \in DOMAIN fifo
      BY <2>1, <1>4 DEF IInv, InOrder
    <2>2. CASE i = Len(fifo) + 1
      <3>1. rx_index + i - 1 = rx_index + Len(fifo)
        BY <2>2, <1>3, RunIsShort
      <3> QED
        BY <2>2, <3>1, <1>4 DEF IInv, InOrder
    <2> QED
      BY <2>1, <2>2, <1>3, <1>4, RunIsShort
  <1>8. InOrder'
    <2>1. rx_index + Len(fifo') = rx_index + Len(fifo) + 1
      BY <1>3, <1>4, RunIsShort
    <2>2. \A i \in DOMAIN fifo' : fifo'[i] = Place(Len(delivered'), rx_index' + i - 1)
      BY <1>2, <1>7
    <2>3. host' = Place(Len(delivered'), rx_index' + Len(fifo'))
      BY <1>2, <1>6, <2>1
    <2>4. \A j \in Slots : j < rx_index' => rx_buffer'[j] = Place(Len(delivered'), j)
      BY <1>2 DEF IInv, InOrder
    <2> QED
      BY <2>2, <2>3, <2>4 DEF InOrder
  <1>9. HostHeld'
    <2>1. HostMaySend /\ host \in Bytes /\ answered \in Nat /\ ahead \in Slots
      BY <1>3 DEF ByteArrives, TypeOK, Slots
    <2>2. /\ host' = Following(host) /\ answered' = answered /\ ahead' = ahead
          /\ host.frame \in Nat /\ host.at \in 0 .. (FRAME_SIZE - 1)
      BY <1>1, <2>1 DEF Bytes, Slots
    <2>3. CASE host.at + 1 = FRAME_SIZE
      <3>1. host'.frame = host.frame + 1 /\ host'.at = 0
        BY <2>2, <2>3 DEF Following
      <3> QED
        BY <2>1, <2>2, <2>3, <3>1 DEF HostMaySend, HostHeld, Slots
    <2>4. CASE host.at + 1 # FRAME_SIZE
      <3>1. host'.frame = host.frame /\ host'.at = host.at + 1
        BY <2>1, <2>2, <2>4 DEF Following, Bytes
      <3> QED
        BY <2>1, <2>2, <3>1 DEF HostMaySend, HostHeld, Slots
    <2> QED
      BY <2>3, <2>4
  <1>10. Owed'
    BY <1>1, <1>2 DEF IInv, Owed
  <1> QED
    BY <1>1, <1>8, <1>9, <1>10 DEF IInv

-----------------------------------------------------------------------------
(* Reading.                                                                *)

LEMMA TakeOne ==
  ASSUME IInv, ReadByte
  PROVE  /\ Head(fifo) = Place(Len(delivered), rx_index)
         /\ Len(fifo') = Len(fifo) - 1
         /\ DOMAIN fifo' = 1 .. (Len(fifo) - 1)
         /\ \A i \in DOMAIN fifo' : fifo'[i] = Place(Len(delivered), rx_index + i)
         /\ Len(fifo) > 0
  <1>1. /\ fifo \in Seq(Bytes) /\ fifo # <<>> /\ fifo' = Tail(fifo)
        /\ rx_index \in Int
    BY SizesAssumption DEF IInv, TypeOK, ReadByte, uart_com2_has_data, Slots
  <1>2. /\ Head(fifo) = fifo[1] /\ 1 \in DOMAIN fifo /\ Len(fifo) > 0
        /\ Len(fifo) \in Nat
        /\ DOMAIN fifo = 1 .. Len(fifo)
        /\ Len(fifo') = Len(fifo) - 1
        /\ DOMAIN fifo' = 1 .. (Len(fifo) - 1)
        /\ \A i \in DOMAIN fifo' : fifo'[i] = fifo[i + 1]
    BY <1>1
  <1>3. rx_index + 1 - 1 = rx_index
    BY <1>1
  <1>4. Head(fifo) = Place(Len(delivered), rx_index)
    BY <1>2, <1>3 DEF IInv, InOrder
  <1>5. ASSUME NEW i \in DOMAIN fifo'
        PROVE  fifo'[i] = Place(Len(delivered), rx_index + i)
    <2>1. i + 1 \in DOMAIN fifo /\ rx_index + (i + 1) - 1 = rx_index + i
      BY <1>1, <1>2
    <2> QED
      BY <1>2, <2>1 DEF IInv, InOrder
  <1> QED
    BY <1>2, <1>4, <1>5

(* With its last byte a frame is the frame the stream is at.               *)
LEMMA FrameWhole ==
  ASSUME IInv, ReadByte, rx_index + 1 = FRAME_SIZE
  PROVE  rx_buffer' = Stream!Whole(Len(delivered))
  <1> USE SizesAssumption
  <1>1. /\ rx_buffer \in [Slots -> Cells] /\ rx_index \in Slots
        /\ rx_buffer' = [rx_buffer EXCEPT ![rx_index] = Head(fifo)]
    BY DEF IInv, TypeOK, ReadByte
  <1>2. ASSUME NEW j \in Slots
        PROVE  rx_buffer'[j] = [frame |-> Len(delivered), at |-> j]
    <2>1. j < FRAME_SIZE
      BY DEF Slots
    <2>2. rx_buffer'[j] = Place(Len(delivered), j)
      <3>1. CASE j = rx_index
        BY <1>1, <3>1, TakeOne
      <3>2. CASE j # rx_index
        <4>1. j < rx_index
          BY <3>2, <1>1 DEF Slots
        <4> QED
          BY <1>1, <3>2, <4>1 DEF IInv, InOrder
      <3> QED
        BY <3>1, <3>2
    <2> QED
      BY <2>1, <2>2 DEF Place
  <1>3. rx_buffer' = [j \in Slots |-> rx_buffer'[j]]
    BY <1>1
  <1> QED
    BY <1>2, <1>3 DEF Stream!Whole, Slots

LEMMA ReadKeeps ==
  ASSUME IInv, ReadByte
  PROVE  (lost = {} /\ InOrder /\ Owed /\ HostHeld)'
  <1> USE SizesAssumption
  <1>1. /\ TypeOK /\ pc = "drain"
        /\ UNCHANGED <<lost, sending, host, answered, part, ahead>>
        /\ rx_buffer' = [rx_buffer EXCEPT ![rx_index] = Head(fifo)]
        /\ rx_buffer \in [Slots -> Cells]
        /\ rx_index \in Slots
    BY DEF IInv, TypeOK, ReadByte, hostVars
  <1>2. lost' = {} /\ HostHeld'
    BY <1>1 DEF IInv, HostHeld
  <1>3. CASE rx_index + 1 # FRAME_SIZE
    <2>1. /\ rx_index' = rx_index + 1
          /\ UNCHANGED <<pc, tx_left, delivered>>
      BY <1>3 DEF ReadByte
    <2>3. \A j \in Slots : j < rx_index' => rx_buffer'[j] = Place(Len(delivered), j)
      <3> SUFFICES ASSUME NEW j \in Slots, j < rx_index'
                   PROVE  rx_buffer'[j] = Place(Len(delivered), j)
        OBVIOUS
      <3>1. CASE j = rx_index
        BY <3>1, <1>1, TakeOne
      <3>2. CASE j # rx_index
        <4>1. j < rx_index
          BY <3>2, <2>1, <1>1 DEF Slots
        <4> QED
          BY <3>2, <4>1, <1>1 DEF IInv, InOrder
      <3> QED
        BY <3>1, <3>2
    <2>4. ASSUME NEW i \in DOMAIN fifo'
          PROVE  fifo'[i] = Place(Len(delivered), rx_index' + i - 1)
      <3>1. rx_index' + i - 1 = rx_index + i
        BY <2>1, <1>1, TakeOne, RunIsShort
      <3> QED
        BY <3>1, TakeOne
    <2>5. rx_index' + Len(fifo') = rx_index + Len(fifo)
      <3>1. rx_index \in Int /\ Len(fifo) \in Int /\ Len(fifo') = Len(fifo) - 1
        BY <1>1, TakeOne, RunIsShort
      <3> QED
        BY <2>1, <3>1
    <2>6. host' = Place(Len(delivered), rx_index' + Len(fifo'))
      BY <1>1, <2>5 DEF IInv, InOrder
    <2>7. InOrder'
      BY <2>1, <2>3, <2>4, <2>6 DEF InOrder
    <2>8. Owed'
      BY <1>1, <2>1 DEF IInv, Owed
    <2> QED
      BY <1>2, <2>7, <2>8
  <1>4. CASE rx_index + 1 = FRAME_SIZE
    <2>1. /\ rx_index' = 0
          /\ tx_left' = RESP_SIZE
          /\ pc' = "respond"
          /\ delivered' = Append(delivered, rx_buffer')
      BY <1>4 DEF ReadByte
    <2>2. /\ rx_buffer' \in [Slots -> Cells]
          /\ Len(delivered) \in Nat
          /\ Len(delivered') = Len(delivered) + 1
      <3>1. Head(fifo) \in Cells
        BY <1>1 DEF TypeOK, ReadByte, uart_com2_has_data, Cells
      <3> QED
        BY <1>1, <2>1, <3>1 DEF TypeOK
    (* The frame is complete: the next place is the start of the next one.  *)
    <2>3. ASSUME NEW x \in Nat, x + FRAME_SIZE < 2 * FRAME_SIZE
          PROVE  Place(Len(delivered), x + FRAME_SIZE) = Place(Len(delivered'), x)
      <3>1. ~(x + FRAME_SIZE < FRAME_SIZE) /\ x < FRAME_SIZE
        BY <2>3
      <3>2. (x + FRAME_SIZE) - FRAME_SIZE = x
        OBVIOUS
      <3> QED
        BY <2>2, <3>1, <3>2 DEF Place
    <2>4. /\ Len(fifo) \in Nat /\ Len(fifo) > 0 /\ Len(fifo) <= RX_FIFO
          /\ Len(fifo') = Len(fifo) - 1
          /\ DOMAIN fifo' = 1 .. (Len(fifo) - 1)
          /\ rx_index \in Nat
      BY <1>1, TakeOne, RunIsShort DEF TypeOK
    <2>5. ASSUME NEW i \in DOMAIN fifo'
          PROVE  fifo'[i] = Place(Len(delivered'), rx_index' + i - 1)
      <3>1. /\ rx_index + i = (i - 1) + FRAME_SIZE
            /\ i - 1 \in Nat
            /\ (i - 1) + FRAME_SIZE < 2 * FRAME_SIZE
            /\ rx_index' + i - 1 = i - 1
        <4>1. i \in 1 .. (Len(fifo) - 1)
          BY <2>4
        <4>2. i \in Int /\ i >= 1 /\ i < FRAME_SIZE
          BY <2>4, <4>1
        <4>3. rx_index' = 0 /\ rx_index + 1 = FRAME_SIZE
          BY <1>4, <2>1
        <4> QED
          BY <2>4, <4>2, <4>3
      <3>2. Place(Len(delivered), rx_index + i) = Place(Len(delivered'), i - 1)
        BY <3>1, <2>3
      <3> QED
        BY <3>1, <3>2, TakeOne
    <2>6. host' = Place(Len(delivered'), rx_index' + Len(fifo'))
      <3>1. /\ rx_index + Len(fifo) = Len(fifo') + FRAME_SIZE
            /\ Len(fifo') \in Nat
            /\ Len(fifo') + FRAME_SIZE < 2 * FRAME_SIZE
            /\ rx_index' + Len(fifo') = Len(fifo')
        BY <1>4, <2>1, <2>4
      <3>2. Place(Len(delivered), rx_index + Len(fifo))
              = Place(Len(delivered'), Len(fifo'))
        BY <3>1, <2>3
      <3>3. host = Place(Len(delivered), rx_index + Len(fifo))
        BY DEF IInv, InOrder
      <3> QED
        BY <1>1, <3>1, <3>2, <3>3
    <2>7. InOrder'
      <3>1. \A j \in Slots : ~(j < rx_index')
        BY <2>1 DEF Slots
      <3> QED
        BY <3>1, <2>5, <2>6 DEF InOrder
    (* The sender is past the frame: it has heard all responses before.     *)
    <2>8. answered = Len(delivered) /\ part = 0 /\ sending = 0
      <3>1. /\ rx_index + Len(fifo) \in Nat
            /\ ~(rx_index + Len(fifo) < FRAME_SIZE)
        BY <1>1, <1>4, TakeOne, RunIsShort
      <3>2. host.frame = Len(delivered) + 1
        BY <3>1 DEF IInv, InOrder, Place
      <3>3. answered \in Nat
        BY <1>1 DEF TypeOK
      <3>4. answered # Len(delivered) - 1
        BY <2>2, <3>2, <3>3 DEF IInv, HostHeld
      <3> QED
        BY <3>4 DEF IInv, Owed
    <2>9. Owed'
      BY <1>1, <2>1, <2>2, <2>8 DEF Owed
    <2> QED
      BY <1>2, <2>7, <2>9
  <1> QED
    BY <1>3, <1>4

-----------------------------------------------------------------------------
(* The other steps.                                                        *)

LEMMA InitInv == Init => IInv
  <1> SUFFICES ASSUME Init
               PROVE  IInv
    OBVIOUS
  <1> USE SizesAssumption
  <1>1. TypeOK
    BY InitType
  <1>2. InOrder
    BY DEF Init, InOrder, Place, Slots
  <1>3. Owed /\ HostHeld
    BY DEF Init, Owed, HostHeld
  <1> QED
    BY <1>1, <1>2, <1>3 DEF Init, IInv

LEMMA NextInv == Windowed /\ IInv /\ [Next]_vars => IInv'
  <1> SUFFICES ASSUME Windowed, IInv, [Next]_vars
               PROVE  (lost = {} /\ InOrder /\ Owed /\ HostHeld)'
    BY NextType DEF IInv
  <1> USE SizesAssumption
  (* Steps that move none of the bytes on their way in.                     *)
  <1>1. ASSUME UNCHANGED <<rx_buffer, rx_index, delivered, fifo, lost, host>>
        PROVE  lost' = {} /\ InOrder'
    BY <1>1 DEF IInv, InOrder, Place
  <1>2. ASSUME UNCHANGED <<rx_buffer, rx_index, tx_left, delivered, fifo, lost,
                           sending, host, answered, part, ahead>>,
               pc' = pc \/ pc # "respond" \/ tx_left = 0,
               pc' = pc \/ pc' # "respond"
        PROVE  (lost = {} /\ InOrder /\ Owed /\ HostHeld)'
    <2>1. Owed' /\ HostHeld'
      BY <1>2 DEF IInv, TypeOK, Owed, HostHeld
    <2> QED
      BY <1>1, <1>2, <2>1
  <1>3. CASE Poll
    BY <1>2, <1>3 DEF Poll, hostVars
  <1>4. CASE Look
    BY <1>2, <1>4 DEF Look, hostVars
  <1>5. CASE ReadByte
    BY <1>5, ReadKeeps
  <1>6. CASE WriteByte
    <2>1. lost' = {} /\ InOrder'
      BY <1>1, <1>6 DEF WriteByte, hostVars
    <2>2. Owed' /\ HostHeld'
      BY <1>6 DEF IInv, TypeOK, Owed, HostHeld, WriteByte, hostVars
    <2> QED
      BY <2>1, <2>2
  <1>7. CASE Written
    BY <1>2, <1>7 DEF Written, hostVars
  <1>8. CASE Drained
    BY <1>2, <1>8 DEF Drained, hostVars
  <1>9. CASE Ack
    BY <1>2, <1>9 DEF Ack, hostVars
  <1>10. CASE ServeClient
    BY <1>2, <1>10 DEF ServeClient, hostVars
  <1>11. CASE ByteArrives
    BY <1>11, ArrivalKeeps
  <1>12. CASE HostHears
    <2>1. lost' = {} /\ InOrder'
      BY <1>1, <1>12 DEF HostHears, rootVars
    <2>2. Owed'
      <3>1. /\ Len(delivered) \in Nat /\ answered \in Nat
            /\ part \in 0 .. (RESP_SIZE - 1) /\ sending \in 0 .. 2
            /\ tx_left \in 0 .. RESP_SIZE
        BY RunIsShort DEF IInv, TypeOK
      <3>2. /\ sending > 0 /\ sending' = sending - 1
            /\ IF part + 1 = RESP_SIZE
                 THEN answered' = answered + 1 /\ part' = 0
                 ELSE part' = part + 1 /\ answered' = answered
            /\ pc' = pc /\ rx_index' = rx_index
            /\ tx_left' = tx_left /\ delivered' = delivered
        BY <1>12 DEF HostHears, rootVars
      <3>3. /\ answered = Len(delivered) - 1
            /\ part + sending + tx_left = RESP_SIZE
            /\ tx_left > 0 => pc = "respond"
            /\ pc = "respond" => rx_index = 0
        BY <3>1, <3>2 DEF IInv, Owed
      <3>4. CASE part + 1 = RESP_SIZE
        <4>1. /\ answered' = Len(delivered') /\ part' = 0
              /\ sending' = 0 /\ tx_left' = 0
          BY <3>1, <3>2, <3>3, <3>4
        <4> QED
          BY <3>2, <3>3, <4>1 DEF Owed
      <3>5. CASE part + 1 # RESP_SIZE
        <4>1. /\ answered' = Len(delivered') - 1
              /\ part' + sending' + tx_left' = RESP_SIZE
          BY <3>1, <3>2, <3>3, <3>5
        <4> QED
          BY <3>2, <3>3, <4>1 DEF Owed
      <3> QED
        BY <3>4, <3>5
    <2>3. HostHeld'
      BY <1>12 DEF IInv, TypeOK, HostHeld, HostHears, Bytes
    <2> QED
      BY <2>1, <2>2, <2>3
  <1>13. CASE UNCHANGED vars
    BY <1>2, <1>13 DEF vars, rootVars, hostVars
  <1> QED
    BY <1>3, <1>4, <1>5, <1>6, <1>7, <1>8, <1>9, <1>10, <1>11, <1>12, <1>13
    DEF Next, RootStep

(* The sender is the same throughout.                                      *)
LEMMA SameSender == [Next]_vars => ahead' = ahead
  BY DEF Next, RootStep, Poll, Look, ReadByte, WriteByte, Written, Drained, Ack,
         ServeClient, ByteArrives, HostHears, vars, hostVars

WindowedInv == Windowed => IInv

LEMMA WindowedNext == WindowedInv /\ [Next]_vars => WindowedInv'
  <1> SUFFICES ASSUME WindowedInv, [Next]_vars, Windowed'
               PROVE  IInv'
    BY DEF WindowedInv
  <1>1. Windowed
    BY SameSender DEF Windowed
  <1> QED
    BY <1>1, NextInv DEF WindowedInv

-----------------------------------------------------------------------------
(* The theorems.                                                           *)

(* The variables have their types; in particular nothing is written to the *)
(* transmitter that does not fit it (uart_com2.h:78-83).                   *)
THEOREM TypeCorrect == Spec => []TypeOK
  BY InitType, NextType, PTL DEF Spec

(* A sender that runs ahead by the depth of the FIFO at most loses nothing *)
(* (main.c:242-300, uart_com2.h:85-89).                                    *)
THEOREM NothingDropped == Spec => []NoOverrun
  <1>1. Init => WindowedInv
    BY InitInv DEF WindowedInv
  <1>2. WindowedInv => NoOverrun
    BY DEF WindowedInv, IInv, NoOverrun
  <1> QED
    BY <1>1, <1>2, WindowedNext, PTL DEF Spec

(* The frames in rx_buffer are then the frames sent, in order and once     *)
(* each (main.c:243-247).                                                  *)
THEOREM StreamImplemented == Spec => ImplementsStream
  <1>1. Init => WindowedInv /\ Stream!Init
    BY InitInv DEF Init, WindowedInv, Stream!Init, Promised
  <1>2. WindowedInv /\ [Next]_vars => [Stream!Next]_Promised
    <2> SUFFICES ASSUME WindowedInv, [Next]_vars, Promised' # Promised
                 PROVE  Stream!Next
      OBVIOUS
    <2>1. Windowed /\ Windowed' /\ delivered' # delivered
      BY SameSender DEF Promised, Windowed
    <2>2. ReadByte
      BY <2>1 DEF Next, RootStep, vars, rootVars, Poll, Look, WriteByte, Written,
             Drained, Ack, ServeClient, ByteArrives, HostHears
    <2>3. rx_index + 1 = FRAME_SIZE /\ delivered' = Append(delivered, rx_buffer')
      BY <2>1, <2>2 DEF ReadByte
    <2>4. delivered' = Append(delivered, Stream!Whole(Len(delivered)))
      BY <2>1, <2>2, <2>3, FrameWhole DEF WindowedInv
    <2> QED
      BY <2>1, <2>4 DEF Stream!Next, Promised
  <1> QED
    BY <1>1, <1>2, WindowedNext, PTL DEF Spec, ImplementsStream, Stream!Spec

(* IRQ 3 is never left masked (main.c:240, 301).                           *)
THEOREM Rearmed == Spec => []InterruptRearmed
  <1>1. Init => InterruptRearmed
    BY DEF Init, InterruptRearmed
  <1>2. TypeOK /\ InterruptRearmed /\ [Next]_vars => InterruptRearmed'
    <2> SUFFICES ASSUME TypeOK, InterruptRearmed, [Next]_vars
                 PROVE  InterruptRearmed'
      OBVIOUS
    <2> USE DEF InterruptRearmed, irqVars
    <2>1. CASE Poll \/ Look \/ Drained \/ Ack \/ ServeClient
      BY <2>1 DEF Poll, Look, Drained, Ack, ServeClient, uart_com2_has_data
    <2>2. CASE ReadByte \/ WriteByte \/ Written
      BY <2>2 DEF ReadByte, WriteByte, Written
    <2>3. CASE ByteArrives
      <3>1. pc' = pc /\ (fifo # <<>> => fifo' # <<>>)
        BY <2>3 DEF ByteArrives, TypeOK, rootVars
      <3>2. fifo = <<>> => fifo' # <<>>
        <4> SUFFICES ASSUME fifo = <<>>
                     PROVE  fifo' # <<>>
          OBVIOUS
        <4>1. Len(fifo) < RX_FIFO
          BY SizesAssumption
        <4> QED
          <5>1. fifo \in Seq(Bytes) /\ host \in Bytes
            BY DEF TypeOK
          <5>2. fifo' = Append(fifo, host)
            BY <2>3, <4>1 DEF ByteArrives
          <5> QED
            BY <5>1, <5>2, AppendProperties, EmptySeq
      <3> QED
        BY <3>1, <3>2
    <2>4. CASE HostHears \/ UNCHANGED vars
      BY <2>4 DEF HostHears, vars, rootVars
    <2> QED
      BY <2>1, <2>2, <2>3, <2>4 DEF Next, RootStep
  <1> QED
    BY <1>1, <1>2, TypeCorrect, PTL DEF Spec

-----------------------------------------------------------------------------
(* Senders that lose bytes.                                                *)

(* Byte b came through to place x of what is read: the sender is past it,  *)
(* with next byte h, and of the lost bytes L as many are before it as it   *)
(* stands too early.                                                       *)
Stands(b, x, h, L) ==
  /\ b \in Bytes
  /\ Pos(b) < Pos(h)
  /\ Pos(b) - Cardinality({c \in L : Pos(c) < Pos(b)}) = x

(* Where the frame under assembly begins.                                  *)
Base == Len(delivered) * FRAME_SIZE

Shifted ==
  /\ IsFiniteSet(lost)
  /\ \A c \in lost : Pos(c) < Pos(host)
  /\ \A i \in DOMAIN delivered, j \in Slots :
       Stands(delivered[i][j], (i - 1) * FRAME_SIZE + j, host, lost)
  /\ \A j \in Slots :
       j < rx_index => Stands(rx_buffer[j], Base + j, host, lost)
  /\ \A k \in DOMAIN fifo :
       Stands(fifo[k], Base + rx_index + k - 1, host, lost)
  /\ Pos(host) - Cardinality(lost) = Base + rx_index + Len(fifo)

LEMMA NextTimes ==
  ASSUME NEW k \in Int, NEW m \in Int
  PROVE  (k + 1) * m = k * m + m
  OBVIOUS

LEMMA PosFollows ==
  ASSUME NEW b \in Bytes
  PROVE  /\ Pos(b) \in Nat
         /\ Following(b) \in Bytes
         /\ Pos(Following(b)) = Pos(b) + 1
  <1>1. b.frame \in Nat /\ b.at \in Slots /\ FRAME_SIZE \in Nat
    BY SizesAssumption DEF Bytes
  <1>2. b.frame * FRAME_SIZE \in Nat
    BY <1>1
  <1>3. CASE b.at + 1 = FRAME_SIZE
    <2>1. Following(b) = [frame |-> b.frame + 1, at |-> 0] /\ 0 \in Slots
      BY <1>1, <1>3, SizesAssumption DEF Following, Slots
    <2>2. (b.frame + 1) * FRAME_SIZE = b.frame * FRAME_SIZE + FRAME_SIZE
      BY <1>1, NextTimes
    <2> QED
      BY <1>1, <1>2, <1>3, <2>1, <2>2 DEF Pos, Bytes, Slots
  <1>4. CASE b.at + 1 # FRAME_SIZE
    <2>1. Following(b) = [b EXCEPT !.at = b.at + 1] /\ b.at + 1 \in Slots
      BY <1>1, <1>4, SizesAssumption DEF Following, Slots
    <2>2. /\ Following(b) \in Bytes
          /\ Following(b).frame = b.frame /\ Following(b).at = b.at + 1
      BY <1>1, <2>1 DEF Bytes
    <2>3. Pos(Following(b)) = b.frame * FRAME_SIZE + (b.at + 1)
      BY <2>2 DEF Pos
    <2> QED
      BY <1>1, <1>2, <2>2, <2>3 DEF Pos, Slots
  <1> QED
    BY <1>3, <1>4

(* A byte keeps its place when the sender goes on to the next, whether or  *)
(* not the one it sends is lost.                                           *)
LEMMA StandsStays ==
  ASSUME NEW b, NEW x, NEW h \in Bytes, NEW L \in SUBSET Bytes,
         Stands(b, x, h, L), NEW M, M = L \/ M = L \cup {h}
  PROVE  Stands(b, x, Following(h), M)
  <1>1. /\ b \in Bytes /\ Pos(b) < Pos(h)
        /\ Pos(b) - Cardinality({c \in L : Pos(c) < Pos(b)}) = x
    BY DEF Stands
  <1>2. Pos(b) \in Nat /\ Pos(h) \in Nat /\ Pos(Following(h)) = Pos(h) + 1
    BY <1>1, PosFollows
  <1>3. {c \in M : Pos(c) < Pos(b)} = {c \in L : Pos(c) < Pos(b)}
    BY <1>1, <1>2
  <1> QED
    BY <1>1, <1>2, <1>3 DEF Stands

(* The byte that arrives stands behind all drops so far.                   *)
LEMMA ArrivalStands ==
  ASSUME NEW h \in Bytes, NEW L \in SUBSET Bytes, \A c \in L : Pos(c) < Pos(h)
  PROVE  Stands(h, Pos(h) - Cardinality(L), Following(h), L)
  <1>1. {c \in L : Pos(c) < Pos(h)} = L
    OBVIOUS
  <1>2. Pos(h) < Pos(Following(h))
    BY PosFollows
  <1> QED
    BY <1>1, <1>2 DEF Stands

LEMMA BaseType == TypeOK => Base \in Nat
  <1> SUFFICES ASSUME TypeOK PROVE Base \in Nat
    OBVIOUS
  <1>1. Len(delivered) \in Nat /\ FRAME_SIZE \in Nat
    BY SizesAssumption, RunIsShort
  <1> QED
    BY <1>1 DEF Base

LEMMA InitShifted == Init => Shifted
  <1> SUFFICES ASSUME Init PROVE Shifted
    OBVIOUS
  <1>1. /\ delivered = <<>> /\ fifo = <<>> /\ lost = {} /\ rx_index = 0
        /\ host.frame = 0 /\ host.at = 0 /\ FRAME_SIZE \in Nat
    BY SizesAssumption DEF Init
  <1>2. IsFiniteSet(lost) /\ Cardinality(lost) = 0
    BY <1>1, FS_EmptySet
  <1>3. Base = 0 /\ Pos(host) = 0
    BY <1>1 DEF Base, Pos
  <1>4. DOMAIN delivered = {} /\ DOMAIN fifo = {} /\ Len(fifo) = 0
    BY <1>1
  <1>5. \A j \in Slots : ~(j < rx_index)
    BY <1>1 DEF Slots
  <1> QED
    BY <1>1, <1>2, <1>3, <1>4, <1>5 DEF Shifted

LEMMA ArrivalShifted ==
  ASSUME TypeOK, Shifted, ByteArrives
  PROVE  Shifted'
  <1>0. /\ host \in Bytes /\ lost \in SUBSET Bytes /\ fifo \in Seq(Bytes)
        /\ host' = Following(host)
        /\ UNCHANGED <<rx_buffer, rx_index, delivered>>
    BY DEF TypeOK, ByteArrives, rootVars
  <1>1. /\ Pos(host) \in Nat /\ Pos(host') = Pos(host) + 1
        /\ \A c \in lost : Pos(c) \in Nat
        /\ Base \in Nat /\ rx_index \in Nat /\ Len(fifo) \in Nat
        /\ Base' = Base /\ DOMAIN fifo = 1 .. Len(fifo)
    BY <1>0, PosFollows, BaseType, RunIsShort DEF Base
  <1>2. Cardinality(lost) \in Nat /\ host \notin lost
    BY <1>1, FS_CardinalityType DEF Shifted
  <1>3. lost' = lost \/ lost' = lost \cup {host}
    BY DEF ByteArrives
  <1>4. \A b, x : Stands(b, x, host, lost) => Stands(b, x, host', lost')
    BY <1>0, <1>3, StandsStays
  <1>5. \A i \in DOMAIN delivered', j \in Slots :
          Stands(delivered'[i][j], (i - 1) * FRAME_SIZE + j, host', lost')
    BY <1>0, <1>4 DEF Shifted
  <1>6. \A j \in Slots :
          j < rx_index' => Stands(rx_buffer'[j], Base' + j, host', lost')
    BY <1>0, <1>1, <1>4 DEF Shifted
  <1>7. CASE fifo' = Append(fifo, host) /\ lost' = lost
    <2>1. /\ Len(fifo') = Len(fifo) + 1
          /\ DOMAIN fifo' = 1 .. (Len(fifo) + 1)
          /\ \A i \in DOMAIN fifo : fifo'[i] = fifo[i]
          /\ fifo'[Len(fifo) + 1] = host
      BY <1>0, <1>7
    <2>2. ASSUME NEW k \in DOMAIN fifo'
          PROVE  Stands(fifo'[k], Base' + rx_index' + k - 1, host', lost')
      <3>1. CASE k \in DOMAIN fifo
        BY <1>0, <1>1, <1>4, <2>1, <3>1 DEF Shifted
      <3>2. CASE k = Len(fifo) + 1
        <4>1. Base' + rx_index' + k - 1 = Pos(host) - Cardinality(lost)
          BY <1>0, <1>1, <1>2, <3>2 DEF Shifted
        <4> QED
          BY <1>0, <1>7, <2>1, <3>2, <4>1, ArrivalStands DEF Shifted
      <3> QED
        BY <1>1, <2>1, <3>1, <3>2
    <2>3. Pos(host') - Cardinality(lost') = Base' + rx_index' + Len(fifo')
      BY <1>0, <1>1, <1>2, <1>7, <2>1 DEF Shifted
    <2>4. IsFiniteSet(lost') /\ \A c \in lost' : Pos(c) < Pos(host')
      BY <1>1, <1>7 DEF Shifted
    <2> QED
      BY <1>5, <1>6, <2>2, <2>3, <2>4 DEF Shifted
  <1>8. CASE fifo' = fifo /\ lost' = lost \cup {host}
    <2>1. IsFiniteSet(lost') /\ Cardinality(lost') = Cardinality(lost) + 1
      BY <1>2, <1>8, FS_AddElement DEF Shifted
    <2>2. \A c \in lost' : Pos(c) < Pos(host')
      BY <1>1, <1>8 DEF Shifted
    <2>3. Pos(host') - Cardinality(lost') = Base' + rx_index' + Len(fifo')
      BY <1>0, <1>1, <1>2, <1>8, <2>1 DEF Shifted
    <2>4. \A k \in DOMAIN fifo' :
            Stands(fifo'[k], Base' + rx_index' + k - 1, host', lost')
      BY <1>0, <1>1, <1>4, <1>8 DEF Shifted
    <2> QED
      BY <1>5, <1>6, <2>1, <2>2, <2>3, <2>4 DEF Shifted
  <1> QED
    BY <1>7, <1>8 DEF ByteArrives

(* A byte goes from the FIFO to rx_buffer at the place it stood for.       *)
LEMMA ReadShifted ==
  ASSUME TypeOK, Shifted, ReadByte
  PROVE  Shifted'
  <1>1. /\ UNCHANGED <<lost, host>>
        /\ fifo \in Seq(Bytes) /\ fifo # <<>> /\ fifo' = Tail(fifo)
        /\ rx_buffer \in [Slots -> Cells] /\ rx_index \in Slots
        /\ rx_buffer' = [rx_buffer EXCEPT ![rx_index] = Head(fifo)]
        /\ delivered \in Seq([Slots -> Cells])
    BY DEF ReadByte, TypeOK, uart_com2_has_data, hostVars
  <1>2. /\ Base \in Nat /\ rx_index \in Nat /\ Len(fifo) \in Nat
        /\ rx_index < FRAME_SIZE /\ FRAME_SIZE \in Nat /\ Len(delivered) \in Nat
    BY <1>1, BaseType, RunIsShort, SizesAssumption DEF Slots
  <1>3. /\ Len(fifo) > 0 /\ Head(fifo) = fifo[1] /\ 1 \in DOMAIN fifo
        /\ Len(fifo') = Len(fifo) - 1
        /\ DOMAIN fifo' = 1 .. (Len(fifo) - 1)
        /\ DOMAIN fifo = 1 .. Len(fifo)
        /\ \A k \in DOMAIN fifo' : fifo'[k] = fifo[k + 1]
    BY <1>1
  <1>4. Stands(Head(fifo), Base + rx_index, host, lost)
    <2>1. Base + rx_index + 1 - 1 = Base + rx_index
      BY <1>2
    <2> QED
      BY <1>3, <2>1 DEF Shifted
  <1>5. \A j \in Slots :
          j <= rx_index => Stands(rx_buffer'[j], Base + j, host, lost)
    <2> SUFFICES ASSUME NEW j \in Slots, j <= rx_index
                 PROVE  Stands(rx_buffer'[j], Base + j, host, lost)
      OBVIOUS
    <2>1. CASE j = rx_index
      BY <1>1, <1>4, <2>1
    <2>2. CASE j # rx_index
      <3>1. j < rx_index /\ rx_buffer'[j] = rx_buffer[j]
        BY <1>1, <1>2, <2>2 DEF Slots
      <3> QED
        BY <3>1 DEF Shifted
    <2> QED
      BY <2>1, <2>2
  <1>6. \A k \in DOMAIN fifo' : Stands(fifo'[k], Base + rx_index + k, host, lost)
    <2> SUFFICES ASSUME NEW k \in DOMAIN fifo'
                 PROVE  Stands(fifo'[k], Base + rx_index + k, host, lost)
      OBVIOUS
    <2>1. k + 1 \in DOMAIN fifo /\ Base + rx_index + (k + 1) - 1 = Base + rx_index + k
      BY <1>2, <1>3
    <2> QED
      BY <1>3, <2>1 DEF Shifted
  <1>7. CASE rx_index + 1 # FRAME_SIZE
    <2>1. rx_index' = rx_index + 1 /\ UNCHANGED delivered /\ Base' = Base
      BY <1>7 DEF ReadByte, Base
    <2>2. \A j \in Slots :
            j < rx_index' => Stands(rx_buffer'[j], Base' + j, host', lost')
      BY <1>1, <1>2, <1>5, <2>1 DEF Slots
    <2>3. ASSUME NEW k \in DOMAIN fifo'
          PROVE  Stands(fifo'[k], Base' + rx_index' + k - 1, host', lost')
      <3>1. Base' + rx_index' + k - 1 = Base + rx_index + k
        BY <1>2, <1>3, <2>1
      <3> QED
        BY <1>1, <1>6, <3>1
    <2>4. Base' + rx_index' + Len(fifo') = Base + rx_index + Len(fifo)
      BY <1>2, <1>3, <2>1
    <2> QED
      BY <1>1, <2>1, <2>2, <2>3, <2>4 DEF Shifted
  <1>8. CASE rx_index + 1 = FRAME_SIZE
    <2>0. PICK d : d = Len(delivered)
      OBVIOUS
    <2>1. rx_index' = 0 /\ delivered' = Append(delivered, rx_buffer')
      BY <1>8 DEF ReadByte
    <2>2. /\ DOMAIN delivered = 1 .. d
          /\ DOMAIN delivered' = 1 .. (d + 1) /\ Len(delivered') = d + 1
          /\ \A i \in DOMAIN delivered : delivered'[i] = delivered[i]
          /\ delivered'[d + 1] = rx_buffer'
      <3>1. rx_buffer' \in [Slots -> Cells]
        BY <1>1 DEF Cells
      <3> QED
        BY <1>1, <2>0, <2>1, <3>1
    <2>3. Base = d * FRAME_SIZE /\ Base' = Base + FRAME_SIZE
      BY <1>2, <2>0, <2>2, NextTimes DEF Base
    <2>4. ASSUME NEW i \in DOMAIN delivered', NEW j \in Slots
          PROVE  Stands(delivered'[i][j], (i - 1) * FRAME_SIZE + j, host', lost')
      <3>1. CASE i \in DOMAIN delivered
        BY <1>1, <2>2, <3>1 DEF Shifted
      <3>2. CASE i = d + 1
        <4>0. i - 1 = d
          BY <1>2, <2>0, <3>2
        <4>1. (i - 1) * FRAME_SIZE = Base
          BY <2>3, <4>0
        <4>2. j <= rx_index
          BY <1>2, <1>8 DEF Slots
        <4> QED
          BY <1>1, <1>5, <2>2, <3>2, <4>1, <4>2
      <3>3. d \in Nat /\ i \in 1 .. (d + 1) /\ DOMAIN delivered = 1 .. d
        BY <1>2, <2>0, <2>2
      <3>4. i \in DOMAIN delivered \/ i = d + 1
        BY <3>3
      <3> QED
        BY <3>1, <3>2, <3>4
    <2>5. rx_index' = 0 /\ Base' = Base + FRAME_SIZE
      BY <2>1, <2>3
    <2>6. \A j \in Slots : ~(j < rx_index')
      BY <2>1 DEF Slots
    <2>7. ASSUME NEW k \in DOMAIN fifo'
          PROVE  Stands(fifo'[k], Base' + rx_index' + k - 1, host', lost')
      <3>1. Base' + rx_index' + k - 1 = Base + rx_index + k
        <4>1. k \in Nat
          BY <1>2, <1>3
        <4> QED
          BY <1>2, <1>8, <2>5, <4>1
      <3> QED
        BY <1>1, <1>6, <3>1
    <2>8. Base' + rx_index' + Len(fifo') = Base + rx_index + Len(fifo)
      <3>1. Len(fifo') = Len(fifo) - 1
        BY <1>3
      <3> QED
        BY <1>2, <1>8, <2>5, <3>1
    <2> QED
      BY <1>1, <2>4, <2>6, <2>7, <2>8 DEF Shifted
  <1> QED
    BY <1>7, <1>8

LEMMA NextShifted == TypeOK /\ Shifted /\ [Next]_vars => Shifted'
  <1> SUFFICES ASSUME TypeOK, Shifted, [Next]_vars PROVE Shifted'
    OBVIOUS
  <1>1. CASE ByteArrives
    BY <1>1, ArrivalShifted
  <1>2. CASE ReadByte
    BY <1>2, ReadShifted
  <1>3. CASE ~ByteArrives /\ ~ReadByte
    <2>1. UNCHANGED <<rx_buffer, rx_index, delivered, fifo, lost, host>>
      BY <1>3
      DEF Next, RootStep, Poll, Look, WriteByte, Written, Drained, Ack,
          ServeClient, HostHears, vars, rootVars, hostVars
    <2> QED
      BY <2>1 DEF Shifted, Base
  <1> QED
    BY <1>1, <1>2, <1>3

(* Whatever the sender does, a byte of a frame in rx_buffer stands as many *)
(* places too early as bytes before it were dropped (main.c:244-247).      *)
THEOREM LossShifts == Spec => []ShiftedByLoss
  <1>1. Shifted => ShiftedByLoss
    <2> SUFFICES ASSUME Shifted, NEW i \in DOMAIN delivered, NEW j \in Slots
                 PROVE  (i - 1) * FRAME_SIZE + j
                          = Pos(delivered[i][j])
                              - Cardinality({c \in lost : Pos(c) < Pos(delivered[i][j])})
      BY DEF ShiftedByLoss
    <2> QED
      BY DEF Shifted, Stands
  <1> QED
    BY <1>1, InitShifted, NextShifted, TypeCorrect, PTL DEF Spec

=============================================================================
