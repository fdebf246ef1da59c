----------------------------- MODULE HashStream -----------------------------
(***************************************************************************)
(* The block buffers of the two hash functions, sha256_update and          *)
(* sha256_final (libraries-3/sha256.h), sovereign_sha512_update and        *)
(* sovereign_sha512_final (libraries-3/sovereign_crypto.c): a message is   *)
(* taken in pieces of any length and padded at its end.  Both do the same  *)
(* with blocks of eight times the bytes of the length; SHA-512 counts in   *)
(* two words with a carry.  A buffer is never cleared, so what it holds    *)
(* behind the index is left from earlier pieces.                           *)
(***************************************************************************)
EXTENDS HashSizes, Sequences

VARIABLES
  hash,     \* which of the two
  count0,   \* ctx->count, ctx->count[0]: a 64-bit word
  count1,   \* ctx->count[1]
  buffer,   \* ctx->buffer
  fed,      \* history: bytes taken so far
  batch,    \* history: the blocks the transform got in the last call
  closed    \* history: whether the final function has been called

hashVars == <<hash, count0, count1, buffer, fed, batch, closed>>

LENGTH == IF hash = "sha256" THEN WORD_BYTES ELSE 2 * WORD_BYTES
BLOCK  == 8 * LENGTH
BlockPlaces == 0 .. (BLOCK - 1)

Data(k) == <<"data", k>>
Pad(v) == <<"pad", v>>
Unset == <<"unset", 0>>

HashInit ==
  /\ hash \in {"sha256", "sha512"}
  /\ count0 = 0 /\ count1 = 0
  /\ buffer = [k \in BlockPlaces |-> Unset]
  /\ fed = 0 /\ batch = <<>> /\ closed = FALSE

(* memcpy of n bytes of the message, from its byte `from', and memset.     *)
Copied(b, at, from, n) ==
  [k \in BlockPlaces |-> IF k >= at /\ k < at + n THEN Data(from + k - at) ELSE b[k]]

Cleared(b, at, n) == [k \in BlockPlaces |-> IF k >= at /\ k < at + n THEN Pad(0) ELSE b[k]]

Index == count0 % BLOCK

Left == BLOCK - Index

CountCarryOnEqual(sum, n) ==   \* mutant: a sum equal to what was added is a carry
  IF sum <= n THEN 1 ELSE 0

CountCarry(sum, n) == IF sum < n THEN 1 ELSE 0

(* The high word takes the carry, and the bits of the length in bits that  *)
(* a word does not hold; no piece of memory is so long.                    *)
Take(n) ==
  /\ ~closed
  /\ fed + n <= MaxFed
  /\ count0' = (count0 + n) % WORD
  /\ count1' = IF hash = "sha256" THEN count1
               ELSE (count1 + CountCarry(count0', n) + n \div (WORD \div 8)) % WORD
  /\ fed' = fed + n
  /\ UNCHANGED <<hash, closed>>

(* The piece does not fill the block that is begun.                        *)
UpdatePartial ==
  \E n \in Pieces :
    /\ Index > 0 /\ n < Left
    /\ Take(n)
    /\ buffer' = Copied(buffer, Index, fed, n)
    /\ batch' = <<>>

(* The blocks taken straight from n bytes of the message.                  *)
Straight(from, n) ==
  [j \in 1 .. (n \div BLOCK) |-> [k \in BlockPlaces |-> Data(from + (j - 1) * BLOCK + k)]]

RemainingAll(n) == n   \* mutant: the length is not reduced by the blocks taken

Remaining(n) == n % BLOCK

(* A block that is begun is completed; whole blocks are not copied; the    *)
(* rest begins the next.                                                   *)
UpdateWhole ==
  \E n \in Pieces :
    LET used == IF Index > 0 THEN Left ELSE 0
        full == Copied(buffer, Index, fed, used)
        tail == Remaining(n - used)
    IN /\ n >= used
       /\ Take(n)
       /\ batch' = (IF Index > 0 THEN <<full>> ELSE <<>>) \o Straight(fed + used, n - used)
       /\ buffer' = Copied(full, 0, fed + n - tail, tail)

sha256_update == hash = "sha256" /\ (UpdatePartial \/ UpdateWhole)

sovereign_sha512_update == hash = "sha512" /\ (UpdatePartial \/ UpdateWhole)

(* The words of the length in bits.                                        *)
LowBits  == (8 * count0) % WORD
HighBits == (8 * count1 + count0 \div (WORD \div 8)) % WORD
BitWords == IF hash = "sha256" THEN <<LowBits>> ELSE <<HighBits, LowBits>>

(* Byte i of the length, the most significant first.                       *)
LengthByte(i) == Pad(Byte(BitWords[i \div WORD_BYTES + 1], WORD_BYTES - 1 - (i % WORD_BYTES)))

WithLength(b) ==
  [k \in BlockPlaces |-> IF k < BLOCK - LENGTH THEN b[k] ELSE LengthByte(k - (BLOCK - LENGTH))]

NoRoomLate(index) ==   \* mutant: compared before the index moved past the 0x80
  index > BLOCK - LENGTH + 1

(* Whether the length does not fit behind the 0x80.                        *)
NoRoom(index) == index > BLOCK - LENGTH

Final ==
  LET marked == [buffer EXCEPT ![Index] = Pad(128)]
      index == Index + 1
      first == Cleared(marked, index, BLOCK - index)
  IN /\ ~closed
     /\ closed' = TRUE
     /\ batch' =
          IF NoRoom(index)
          THEN <<first, WithLength(Cleared(first, 0, BLOCK - LENGTH))>>
          ELSE <<WithLength(Cleared(marked, index, BLOCK - LENGTH - index))>>
     /\ buffer' = batch'[Len(batch')]
     /\ UNCHANGED <<hash, count0, count1, fed>>

sha256_final == hash = "sha256" /\ Final

sovereign_sha512_final == hash = "sha512" /\ Final

HashNext ==
  \/ sha256_update
  \/ sha256_final
  \/ sovereign_sha512_update
  \/ sovereign_sha512_final

HashSpec == HashInit /\ [][HashNext]_hashVars

-----------------------------------------------------------------------------
Reference == INSTANCE BlockStream

(* However the message is cut, the blocks transformed are those of the     *)
(* padded message (sha256.h:69-112, sovereign_crypto.c:103-158).           *)
ImplementsStream == Reference!Spec

=============================================================================
