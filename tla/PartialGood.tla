----------------------------- MODULE PartialGood ------------------------------
(***************************************************************************)
(* The partial-good codes of plat-apple: a socket has four clusters of four *)
(* PCs, and a byte of the socket's code says which PCs of a cluster are     *)
(* good.  A code is the sequence of its bytes, lowest first.                *)
(***************************************************************************)
EXTENDS Integers, Sequences

Cluster == 1 .. 4
CoreOf == 0 .. 3           \* the PCs of a cluster

(* Indexed from 0 in the code: the index is the mask of the good PCs.       *)
pg_code_lut ==
  <<\h01, \h18, \h14, \h10, \h42, \h48, \h44, \h40,
    \h22, \h28, \h24, \h20, \h02, \h08, \h04, \h00>>

(* An unknown code leaves the loop with j = sizeof(pg_code_lut), which the  *)
(* test `j > sizeof' lets through: the mask is 16.                          *)
good_bit_mask(byte) ==
  IF \E n \in DOMAIN pg_code_lut : pg_code_lut[n] = byte
    THEN (CHOOSE n \in DOMAIN pg_code_lut : pg_code_lut[n] = byte) - 1
    ELSE Len(pg_code_lut)

Bit(mask, c) == (mask \div 2 ^ c) % 2 = 1

(* The reset register of a cluster: the complement of the mask, of which    *)
(* four bits survive; a PC whose bit is clear starts.                       *)
ResetRegister(byte) == {c \in CoreOf : ~Bit(good_bit_mask(byte), c)}

------------------------------------------------------------------------------
(* What a byte of the code says, read nibble by nibble: the low nibble is   *)
(* about PC 0 and 1, the high one about 2 and 3, and 01 is a dead cluster.  *)
Pair(nibble, second) ==
  CASE nibble = 0 -> {0, 1}
    [] nibble = (IF second THEN 4 ELSE 8) -> {0}
    [] nibble = (IF second THEN 2 ELSE 4) -> {1}
    [] OTHER -> {}

Good(byte) ==
  IF byte = \h01 THEN {}
  ELSE Pair(byte % 16, FALSE) \cup {c + 2 : c \in Pair(byte \div 16, TRUE)}

==============================================================================
