------------------------------ MODULE MCCrypto ------------------------------
(***************************************************************************)
(* TLC instance of the cryptographic code: a behaviour hashes a message    *)
(* (HashStream) or decompresses a point (PointDecompression).              *)
(*                                                                         *)
(* The field has 524269 = 2^19 - 19 elements in two limbs; its D is no     *)
(* square, and its I no root of -1 as the code's is none (118058 is one).  *)
(* A word of the length has two digits of base 32: blocks of 16 and of 32  *)
(* bytes, a carry at 1024 bytes, and pieces of up to several blocks.       *)
(***************************************************************************)
EXTENDS PointDecompression, HashStream

Limbs(n) == [k \in 0 .. (LIMBS - 1) |-> (n \div RADIX^k) % RADIX]

MCD == Limbs(23)
MCI == Limbs(118057)

Highest == 2^BITS - 1
Ordinates == (0 .. 40) \cup ((Highest - 60) .. Highest)
               \cup {601 * k : k \in 0 .. (Highest \div 601)}
MCEncodings == {Limbs(y + sign * 2^BITS) : y \in Ordinates, sign \in {0, 1}}

NoPoint ==
  /\ pc = "none" /\ line = 1 /\ input = Zero
  /\ reg = [r \in Registers |-> Zero]
  /\ turn = 0

NoMessage == HashInit /\ hash = "sha256"

CryptoInit == (NoPoint /\ HashInit) \/ (Init /\ NoMessage)

HashStep  == pc = "none" /\ HashNext /\ UNCHANGED vars
PointStep == Next /\ UNCHANGED hashVars

CryptoNext == HashStep \/ PointStep

CryptoSpec == CryptoInit /\ [][CryptoNext]_<<vars, hashVars>>

=============================================================================
