--------------------------- MODULE PartialGoodProofs ---------------------------
(***************************************************************************)
(* The path of a partial-good code of plat-apple, from the byte through the *)
(* table and the reset register to the PCs that start, ends where the byte  *)
(* read nibble by nibble says, for every byte.                              *)
(***************************************************************************)
EXTENDS PartialGood, TLAPS

(* The table, in decimal; no byte is in it twice. *)
LEMMA Lut ==
  /\ DOMAIN pg_code_lut = 1 .. 16 /\ Len(pg_code_lut) = 16
  /\ pg_code_lut[1] = 1 /\ pg_code_lut[2] = 24 /\ pg_code_lut[3] = 20 /\ pg_code_lut[4] = 16
  /\ pg_code_lut[5] = 66 /\ pg_code_lut[6] = 72 /\ pg_code_lut[7] = 68 /\ pg_code_lut[8] = 64
  /\ pg_code_lut[9] = 34 /\ pg_code_lut[10] = 40 /\ pg_code_lut[11] = 36 /\ pg_code_lut[12] = 32
  /\ pg_code_lut[13] = 2 /\ pg_code_lut[14] = 8 /\ pg_code_lut[15] = 4 /\ pg_code_lut[16] = 0
  BY DEF pg_code_lut

LEMMA OneIndex ==
  ASSUME NEW m \in 1 .. 16, NEW n \in 1 .. 16, pg_code_lut[m] = pg_code_lut[n]
  PROVE  m = n
  BY DEF pg_code_lut

LEMMA MaskFound ==
  ASSUME NEW n \in 1 .. 16
  PROVE  good_bit_mask(pg_code_lut[n]) = n - 1
<1> DEFINE m == CHOOSE k \in DOMAIN pg_code_lut : pg_code_lut[k] = pg_code_lut[n]
<1>1. m \in 1 .. 16 /\ pg_code_lut[m] = pg_code_lut[n]
  BY Lut
<1>2. m = n
  <2> HIDE DEF m
  <2> QED
    BY <1>1, OneIndex
<1> QED
  BY <1>2, Lut DEF good_bit_mask

(* The bits that a mask has for the four PCs; the mask of an unknown code   *)
(* has none of them.                                                        *)
LEMMA Bits ==
  ASSUME NEW mask \in 0 .. 16
  PROVE  /\ Bit(mask, 0) <=> mask % 2 = 1
         /\ Bit(mask, 1) <=> (mask \div 2) % 2 = 1
         /\ Bit(mask, 2) <=> (mask \div 4) % 2 = 1
         /\ Bit(mask, 3) <=> (mask \div 8) % 2 = 1
<1>1. 2 ^ 0 = 1 /\ 2 ^ 1 = 2 /\ 2 ^ 2 = 4 /\ 2 ^ 3 = 8
  OBVIOUS
<1>2. mask \div 1 = mask
  OBVIOUS
<1> QED
  BY <1>1, <1>2 DEF Bit

LEMMA Started ==
  ASSUME NEW byte
  PROVE  CoreOf \ ResetRegister(byte) = {c \in {0, 1, 2, 3} : Bit(good_bit_mask(byte), c)}
<1>1. CoreOf = {0, 1, 2, 3}
  BY DEF CoreOf
<1> QED
  BY <1>1 DEF ResetRegister

LEMMA BitSets ==
  /\ {c \in {0, 1, 2, 3} : Bit(0, c)} = {}
  /\ {c \in {0, 1, 2, 3} : Bit(1, c)} = {0}
  /\ {c \in {0, 1, 2, 3} : Bit(2, c)} = {1}
  /\ {c \in {0, 1, 2, 3} : Bit(3, c)} = {0, 1}
  /\ {c \in {0, 1, 2, 3} : Bit(4, c)} = {2}
  /\ {c \in {0, 1, 2, 3} : Bit(5, c)} = {0, 2}
  /\ {c \in {0, 1, 2, 3} : Bit(6, c)} = {1, 2}
  /\ {c \in {0, 1, 2, 3} : Bit(7, c)} = {0, 1, 2}
  /\ {c \in {0, 1, 2, 3} : Bit(8, c)} = {3}
  /\ {c \in {0, 1, 2, 3} : Bit(9, c)} = {0, 3}
  /\ {c \in {0, 1, 2, 3} : Bit(10, c)} = {1, 3}
  /\ {c \in {0, 1, 2, 3} : Bit(11, c)} = {0, 1, 3}
  /\ {c \in {0, 1, 2, 3} : Bit(12, c)} = {2, 3}
  /\ {c \in {0, 1, 2, 3} : Bit(13, c)} = {0, 2, 3}
  /\ {c \in {0, 1, 2, 3} : Bit(14, c)} = {1, 2, 3}
  /\ {c \in {0, 1, 2, 3} : Bit(15, c)} = {0, 1, 2, 3}
  /\ {c \in {0, 1, 2, 3} : Bit(16, c)} = {}
<1>1. {c \in {0, 1, 2, 3} : Bit(0, c)} = {}
  BY Bits
<1>2. {c \in {0, 1, 2, 3} : Bit(1, c)} = {0}
  BY Bits
<1>3. {c \in {0, 1, 2, 3} : Bit(2, c)} = {1}
  BY Bits
<1>4. {c \in {0, 1, 2, 3} : Bit(3, c)} = {0, 1}
  BY Bits
<1>5. {c \in {0, 1, 2, 3} : Bit(4, c)} = {2}
  BY Bits
<1>6. {c \in {0, 1, 2, 3} : Bit(5, c)} = {0, 2}
  BY Bits
<1>7. {c \in {0, 1, 2, 3} : Bit(6, c)} = {1, 2}
  BY Bits
<1>8. {c \in {0, 1, 2, 3} : Bit(7, c)} = {0, 1, 2}
  BY Bits
<1>9. {c \in {0, 1, 2, 3} : Bit(8, c)} = {3}
  BY Bits
<1>10. {c \in {0, 1, 2, 3} : Bit(9, c)} = {0, 3}
  BY Bits
<1>11. {c \in {0, 1, 2, 3} : Bit(10, c)} = {1, 3}
  BY Bits
<1>12. {c \in {0, 1, 2, 3} : Bit(11, c)} = {0, 1, 3}
  BY Bits
<1>13. {c \in {0, 1, 2, 3} : Bit(12, c)} = {2, 3}
  BY Bits
<1>14. {c \in {0, 1, 2, 3} : Bit(13, c)} = {0, 2, 3}
  BY Bits
<1>15. {c \in {0, 1, 2, 3} : Bit(14, c)} = {1, 2, 3}
  BY Bits
<1>16. {c \in {0, 1, 2, 3} : Bit(15, c)} = {0, 1, 2, 3}
  BY Bits
<1>17. {c \in {0, 1, 2, 3} : Bit(16, c)} = {}
  BY Bits
<1> QED
  BY <1>1, <1>2, <1>3, <1>4, <1>5, <1>6, <1>7, <1>8, <1>9, <1>10, <1>11, <1>12, <1>13, <1>14, <1>15, <1>16, <1>17

(* The byte read nibble by nibble. *)
LEMMA Nibbles ==
  /\ Pair(0, FALSE) = {0, 1} /\ Pair(8, FALSE) = {0} /\ Pair(4, FALSE) = {1}
  /\ Pair(2, FALSE) = {}
  /\ {c + 2 : c \in Pair(0, TRUE)} = {2, 3} /\ {c + 2 : c \in Pair(4, TRUE)} = {2}
  /\ {c + 2 : c \in Pair(2, TRUE)} = {3} /\ {c + 2 : c \in Pair(1, TRUE)} = {}
<1>1. Pair(0, TRUE) = {0, 1} /\ Pair(4, TRUE) = {0} /\ Pair(2, TRUE) = {1} /\ Pair(1, TRUE) = {}
  BY DEF Pair
<1> QED
  BY <1>1 DEF Pair

LEMMA GoodSets ==
  /\ Good(1) = {}
  /\ Good(24) = {0}
  /\ Good(20) = {1}
  /\ Good(16) = {0, 1}
  /\ Good(66) = {2}
  /\ Good(72) = {0, 2}
  /\ Good(68) = {1, 2}
  /\ Good(64) = {0, 1, 2}
  /\ Good(34) = {3}
  /\ Good(40) = {0, 3}
  /\ Good(36) = {1, 3}
  /\ Good(32) = {0, 1, 3}
  /\ Good(2) = {2, 3}
  /\ Good(8) = {0, 2, 3}
  /\ Good(4) = {1, 2, 3}
  /\ Good(0) = {0, 1, 2, 3}
<1>1. Good(1) = {}
  BY DEF Good
<1>2. Good(24) = {0}
  <2>1. 24 % 16 = 8 /\ 24 \div 16 = 1 /\ 24 # 1
    OBVIOUS
  <2> QED
    BY <2>1, Nibbles DEF Good
<1>3. Good(20) = {1}
  <2>1. 20 % 16 = 4 /\ 20 \div 16 = 1 /\ 20 # 1
    OBVIOUS
  <2> QED
    BY <2>1, Nibbles DEF Good
<1>4. Good(16) = {0, 1}
  <2>1. 16 % 16 = 0 /\ 16 \div 16 = 1 /\ 16 # 1
    OBVIOUS
  <2> QED
    BY <2>1, Nibbles DEF Good
<1>5. Good(66) = {2}
  <2>1. 66 % 16 = 2 /\ 66 \div 16 = 4 /\ 66 # 1
    OBVIOUS
  <2> QED
    BY <2>1, Nibbles DEF Good
<1>6. Good(72) = {0, 2}
  <2>1. 72 % 16 = 8 /\ 72 \div 16 = 4 /\ 72 # 1
    OBVIOUS
  <2> QED
    BY <2>1, Nibbles DEF Good
<1>7. Good(68) = {1, 2}
  <2>1. 68 % 16 = 4 /\ 68 \div 16 = 4 /\ 68 # 1
    OBVIOUS
  <2> QED
    BY <2>1, Nibbles DEF Good
<1>8. Good(64) = {0, 1, 2}
  <2>1. 64 % 16 = 0 /\ 64 \div 16 = 4 /\ 64 # 1
    OBVIOUS
  <2> QED
    BY <2>1, Nibbles DEF Good
<1>9. Good(34) = {3}
  <2>1. 34 % 16 = 2 /\ 34 \div 16 = 2 /\ 34 # 1
    OBVIOUS
  <2> QED
    BY <2>1, Nibbles DEF Good
<1>10. Good(40) = {0, 3}
  <2>1. 40 % 16 = 8 /\ 40 \div 16 = 2 /\ 40 # 1
    OBVIOUS
  <2> QED
    BY <2>1, Nibbles DEF Good
<1>11. Good(36) = {1, 3}
  <2>1. 36 % 16 = 4 /\ 36 \div 16 = 2 /\ 36 # 1
    OBVIOUS
  <2> QED
    BY <2>1, Nibbles DEF Good
<1>12. Good(32) = {0, 1, 3}
  <2>1. 32 % 16 = 0 /\ 32 \div 16 = 2 /\ 32 # 1
    OBVIOUS
  <2> QED
    BY <2>1, Nibbles DEF Good
<1>13. Good(2) = {2, 3}
  <2>1. 2 % 16 = 2 /\ 2 \div 16 = 0 /\ 2 # 1
    OBVIOUS
  <2> QED
    BY <2>1, Nibbles DEF Good
<1>14. Good(8) = {0, 2, 3}
  <2>1. 8 % 16 = 8 /\ 8 \div 16 = 0 /\ 8 # 1
    OBVIOUS
  <2> QED
    BY <2>1, Nibbles DEF Good
<1>15. Good(4) = {1, 2, 3}
  <2>1. 4 % 16 = 4 /\ 4 \div 16 = 0 /\ 4 # 1
    OBVIOUS
  <2> QED
    BY <2>1, Nibbles DEF Good
<1>16. Good(0) = {0, 1, 2, 3}
  <2>1. 0 % 16 = 0 /\ 0 \div 16 = 0 /\ 0 # 1
    OBVIOUS
  <2> QED
    BY <2>1, Nibbles DEF Good
<1> QED
  BY <1>1, <1>2, <1>3, <1>4, <1>5, <1>6, <1>7, <1>8, <1>9, <1>10, <1>11, <1>12, <1>13, <1>14, <1>15, <1>16

(* The PCs that start are the good ones; for a byte that no row of the table *)
(* has, none starts.                                                        *)
THEOREM StartedAreGood ==
  ASSUME NEW byte
  PROVE  CoreOf \ ResetRegister(byte) =
           IF \E n \in DOMAIN pg_code_lut : pg_code_lut[n] = byte THEN Good(byte) ELSE {}
<1>1. CASE \E n \in DOMAIN pg_code_lut : pg_code_lut[n] = byte
  <2>1. PICK n \in 1 .. 16 : pg_code_lut[n] = byte
    BY <1>1, Lut
  <2>2. good_bit_mask(byte) = n - 1
    BY <2>1, MaskFound
  <2>3. {c \in {0, 1, 2, 3} : Bit(n - 1, c)} = Good(byte)
    <3>1. CASE n = 1
      <4>1. n - 1 = 0 /\ byte = 1
        BY <2>1, <3>1, Lut
      <4> QED
        BY <4>1, BitSets, GoodSets
    <3>2. CASE n = 2
      <4>1. n - 1 = 1 /\ byte = 24
        BY <2>1, <3>2, Lut
      <4> QED
        BY <4>1, BitSets, GoodSets
    <3>3. CASE n = 3
      <4>1. n - 1 = 2 /\ byte = 20
        BY <2>1, <3>3, Lut
      <4> QED
        BY <4>1, BitSets, GoodSets
    <3>4. CASE n = 4
      <4>1. n - 1 = 3 /\ byte = 16
        BY <2>1, <3>4, Lut
      <4> QED
        BY <4>1, BitSets, GoodSets
    <3>5. CASE n = 5
      <4>1. n - 1 = 4 /\ byte = 66
        BY <2>1, <3>5, Lut
      <4> QED
        BY <4>1, BitSets, GoodSets
    <3>6. CASE n = 6
      <4>1. n - 1 = 5 /\ byte = 72
        BY <2>1, <3>6, Lut
      <4> QED
        BY <4>1, BitSets, GoodSets
    <3>7. CASE n = 7
      <4>1. n - 1 = 6 /\ byte = 68
        BY <2>1, <3>7, Lut
      <4> QED
        BY <4>1, BitSets, GoodSets
    <3>8. CASE n = 8
      <4>1. n - 1 = 7 /\ byte = 64
        BY <2>1, <3>8, Lut
      <4> QED
        BY <4>1, BitSets, GoodSets
    <3>9. CASE n = 9
      <4>1. n - 1 = 8 /\ byte = 34
        BY <2>1, <3>9, Lut
      <4> QED
        BY <4>1, BitSets, GoodSets
    <3>10. CASE n = 10
      <4>1. n - 1 = 9 /\ byte = 40
        BY <2>1, <3>10, Lut
      <4> QED
        BY <4>1, BitSets, GoodSets
    <3>11. CASE n = 11
      <4>1. n - 1 = 10 /\ byte = 36
        BY <2>1, <3>11, Lut
      <4> QED
        BY <4>1, BitSets, GoodSets
    <3>12. CASE n = 12
      <4>1. n - 1 = 11 /\ byte = 32
        BY <2>1, <3>12, Lut
      <4> QED
        BY <4>1, BitSets, GoodSets
    <3>13. CASE n = 13
      <4>1. n - 1 = 12 /\ byte = 2
        BY <2>1, <3>13, Lut
      <4> QED
        BY <4>1, BitSets, GoodSets
    <3>14. CASE n = 14
      <4>1. n - 1 = 13 /\ byte = 8
        BY <2>1, <3>14, Lut
      <4> QED
        BY <4>1, BitSets, GoodSets
    <3>15. CASE n = 15
      <4>1. n - 1 = 14 /\ byte = 4
        BY <2>1, <3>15, Lut
      <4> QED
        BY <4>1, BitSets, GoodSets
    <3>16. CASE n = 16
      <4>1. n - 1 = 15 /\ byte = 0
        BY <2>1, <3>16, Lut
      <4> QED
        BY <4>1, BitSets, GoodSets
    <3> QED
      BY <3>1, <3>2, <3>3, <3>4, <3>5, <3>6, <3>7, <3>8, <3>9, <3>10, <3>11, <3>12, <3>13, <3>14, <3>15, <3>16
  <2> QED
    BY <1>1, <2>2, <2>3, Started
<1>2. CASE ~ \E n \in DOMAIN pg_code_lut : pg_code_lut[n] = byte
  <2>1. good_bit_mask(byte) = 16
    BY <1>2, Lut DEF good_bit_mask
  <2> QED
    BY <1>2, <2>1, Started, BitSets
<1> QED
  BY <1>1, <1>2

==============================================================================
