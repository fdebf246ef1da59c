--------------------------- MODULE MCCommitteeKeys ---------------------------
(***************************************************************************)
(* TLC instance of PointDecompression with the code's own numbers: the     *)
(* field of 2^255 - 19, the tables D and I of sovereign_crypto.c and the   *)
(* committee's keys (sovereign_identities.h).  A limb has 8 bits in place  *)
(* of 16, for the products to fit TLC's integers.                          *)
(***************************************************************************)
EXTENDS Integers

VARIABLES
  pc, line, input, reg, turn,
  side,      \* x^2 (1 + d y^2) of an accepted key
  computed   \* the products of it that are taken

Bytes(words) ==
  [k \in 0 .. 31 |->
     IF k % 2 = 0 THEN words[k \div 2 + 1] % 256 ELSE words[k \div 2 + 1] \div 256]

TableD == Bytes(
  <<\h78a3, \h1359, \h4dca, \h75eb, \hd8ab, \h4141, \h0a4d, \h0070,
    \he0a0, \h5297, \h68db, \h240e, \h560e, \h471d, \h245b, \h5203>>)

TableI == Bytes(
  <<\ha0b0, \h4a0e, \h1b27, \h0000, \he460, \h8dbf, \ha14f, \h5465,
    \h74e5, \h49c9, \h4f6c, \ha0b0, \h10cf, \h5198, \h7590, \h2b83>>)

SOVR_ROOT_PUBKEYS ==
  <<<<\hd0, \h4a, \hb2, \h32, \h74, \h2b, \hb4, \hab, \h3a, \h13, \h68,
      \hbd, \h46, \h15, \he4, \he6, \hd0, \h22, \h4a, \hb7, \h1a, \h01,
      \h6b, \haf, \h85, \h20, \ha3, \h32, \hc9, \h77, \h87, \h37>>,
    <<\ha0, \h9a, \ha5, \hf4, \h7a, \h67, \h59, \h80, \h2f, \hf9, \h55,
      \hf8, \hdc, \h2d, \h2a, \h14, \ha5, \hc9, \h9d, \h23, \hbe, \h97,
      \hf8, \h64, \h12, \h7f, \hf9, \h38, \h34, \h55, \ha4, \hf0>>,
    <<\h17, \hcb, \h79, \hfb, \h2b, \h41, \h20, \hf2, \hb1, \hec, \h65,
      \he4, \h19, \h8d, \h6e, \h08, \hb2, \h8e, \h81, \h3f, \heb, \h01,
      \he4, \ha4, \h00, \h83, \h9b, \h85, \he1, \h80, \h80, \hce>>,
    <<\hd7, \h59, \h79, \h3b, \hbc, \h13, \ha2, \h81, \h9a, \h82, \h7c,
      \h76, \had, \hb6, \hfb, \ha8, \ha4, \h9a, \hee, \h00, \h7f, \h49,
      \hf2, \hd0, \h99, \h2d, \h99, \hb8, \h25, \had, \h2c, \h48>>>>

Keys == {[k \in 0 .. 31 |-> SOVR_ROOT_PUBKEYS[member][k + 1]] : member \in 1 .. 4}

INSTANCE PointDecompression WITH
  LIMBS <- 32, RADIX <- 256, BITS <- 255, D <- TableD, I <- TableI, Encodings <- Keys

KeysInit == Init /\ side = Zero /\ computed = 0

Decompress == Next /\ UNCHANGED <<side, computed>>

ComputeSide ==
  /\ pc = "accepted" /\ computed < 2
  /\ side' = IF computed = 0 THEN Square(reg["rx"]) ELSE Times(side, reg["den"])
  /\ computed' = computed + 1
  /\ UNCHANGED <<pc, line, input, reg, turn>>

KeysSpec == KeysInit /\ [][Decompress \/ ComputeSide]_<<vars, side, computed>>

(* "Verified RFC 8032 Point Decompression" (sovereign_crypto.c:183): a key *)
(* that is accepted gives a point of the curve, x^2 (1 + d y^2) = y^2 - 1. *)
OnCurve == computed = 2 => ~IsNonzero(Minus(side, reg["num"]))

=============================================================================
