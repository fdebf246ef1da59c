----------------------------- MODULE HashSizes ------------------------------
(***************************************************************************)
(* The sizes the hash functions are built from, in proportion: a word has  *)
(* WORD_BYTES bytes of BASE values, 8 of 256 in sha256.h and in            *)
(* sovereign_crypto.c, and a block is eight times as long as the length    *)
(* written behind the message, which takes one word or two.                *)
(***************************************************************************)
EXTENDS Naturals

CONSTANTS
  WORD_BYTES,  \* 8, sizeof(uint64_t)
  BASE,        \* 256
  Pieces,      \* lengths an update is called with
  MaxFed       \* bound: bytes of a message

(* What a byte counts for in a number, as far as the length has bytes.     *)
Weight[n \in 0 .. (2 * WORD_BYTES)] == IF n = 0 THEN 1 ELSE BASE * Weight[n - 1]

WORD == Weight[WORD_BYTES]

(* Byte i of a number, from the least significant.                         *)
Byte(x, i) == (x \div Weight[i]) % BASE

(* A word counts whole blocks of either function, 2^64 those of 64 and of  *)
(* 128 bytes, and the length in bits of a piece fits a word.               *)
ASSUME HashSizesAssumption ==
  /\ WORD_BYTES \in Nat \ {0}
  /\ BASE \in Nat \ {0}
  /\ WORD % (16 * WORD_BYTES) = 0
  /\ Pieces \subseteq Nat
  /\ \A n \in Pieces : n < WORD \div 8
  /\ MaxFed \in Nat

=============================================================================
