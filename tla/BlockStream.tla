----------------------------- MODULE BlockStream -----------------------------
(***************************************************************************)
(* What a hash function makes of a message that comes in pieces: the       *)
(* blocks of the padded message, in order, each once, however it was cut.  *)
(* A byte of the message is known by its place; a transform is known by    *)
(* the block it was given.  FIPS 180-4 pads with 0x80, zeroes and the      *)
(* length in bits, in one word for SHA-256 and in two for SHA-512; a block *)
(* is eight times as long as the length.                                   *)
(***************************************************************************)
EXTENDS HashSizes

VARIABLES
  hash,     \* the function: "sha256" or "sha512"
  fed,      \* bytes of the message so far
  batch,    \* the blocks transformed by the last operation
  closed    \* whether the message has ended

LENGTH == IF hash = "sha256" THEN WORD_BYTES ELSE 2 * WORD_BYTES
BLOCK  == 8 * LENGTH

Data(k) == <<"data", k>>
Pad(v) == <<"pad", v>>

(* The byte at place k of the padded message of n bytes.                   *)
PaddedSize(n) == ((n + LENGTH) \div BLOCK + 1) * BLOCK

LengthByte(n, k) == Pad(Byte(8 * n, LENGTH - 1 - k))

Padded(n, k) ==
  CASE k < n -> Data(k)
    [] k = n -> Pad(128)
    [] k > n /\ k < PaddedSize(n) - LENGTH -> Pad(0)
    [] OTHER -> LengthByte(n, k - (PaddedSize(n) - LENGTH))

(* The blocks numbered from a to before b.                                 *)
Blocks(n, a, b) ==
  [j \in 1 .. (b - a) |-> [k \in 0 .. (BLOCK - 1) |-> Padded(n, (a + j - 1) * BLOCK + k)]]

Init == hash \in {"sha256", "sha512"} /\ fed = 0 /\ batch = <<>> /\ closed = FALSE

Feed ==
  /\ ~closed
  /\ fed' \in Nat /\ fed' >= fed
  /\ batch' = Blocks(fed', fed \div BLOCK, fed' \div BLOCK)
  /\ closed' = FALSE
  /\ UNCHANGED hash

Close ==
  /\ ~closed
  /\ batch' = Blocks(fed, fed \div BLOCK, PaddedSize(fed) \div BLOCK)
  /\ closed' = TRUE
  /\ UNCHANGED <<hash, fed>>

Next == Feed \/ Close

Spec == Init /\ [][Next]_<<hash, fed, batch, closed>>

=============================================================================
