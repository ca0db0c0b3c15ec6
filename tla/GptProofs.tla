------------------------------- MODULE GptProofs ------------------------------
(***************************************************************************)
(* Lemmas about Gpt for every medium of three or four files: where the     *)
(* partitions lie, that they do not meet, and that gpt_load_part computes   *)
(* the extent that mkimg.sh gave to a file.                                *)
(***************************************************************************)
EXTENDS Gpt, TLAPS

(* The recursion of FirstLba ends after five steps at most, so there is a   *)
(* function that satisfies it.                                             *)
LEMMA FirstLbaEquation ==
  ASSUME NEW disk, Len(disk) \in {3, 4}
  PROVE  FirstLba(disk) =
           [n \in 1 .. Len(disk) + 1 |->
              IF n = 1 THEN 2048
              ELSE Aligned(FirstLba(disk)[n - 1] + Padded(disk[n - 1]) \div Sector)]
<1> DEFINE D == 1 .. Len(disk) + 1
           After(lba, k) == Aligned(lba + Padded(disk[k]) \div Sector)
           F(f) == [n \in D |-> IF n = 1 THEN 2048 ELSE After(f[n - 1], n - 1)]
           w2 == After(2048, 1)
           w3 == After(w2, 2)
           w4 == After(w3, 3)
           w5 == After(w4, 4)
           w == [n \in D |->
                   IF n = 1 THEN 2048 ELSE IF n = 2 THEN w2 ELSE IF n = 3 THEN w3
                   ELSE IF n = 4 THEN w4 ELSE w5]
<1>1. w = F(w)
  <2>1. ASSUME NEW n \in D
        PROVE  w[n] = IF n = 1 THEN 2048 ELSE After(w[n - 1], n - 1)
    <3>1. n \in {1, 2, 3, 4, 5} /\ (n # 1 => n - 1 \in D)
      <4>1. CASE Len(disk) = 3
        BY <4>1
      <4>2. CASE Len(disk) = 4
        BY <4>2
      <4> QED
        BY <4>1, <4>2
    <3> HIDE DEF After, D
    <3> QED
      BY <3>1
  <2>2. w = [n \in D |-> w[n]]
    OBVIOUS
  <2> HIDE DEF w, After, D
  <2>3. F(w) = [n \in D |-> w[n]]
    BY <2>1
  <2> QED
    BY <2>2, <2>3
<1> HIDE DEF w
<1>2. FirstLba(disk) = CHOOSE f : f = F(f)
  BY DEF FirstLba
<1> HIDE DEF F
<1>3. (CHOOSE f : f = F(f)) = F(CHOOSE f : f = F(f))
  BY <1>1
<1>4. FirstLba(disk) = F(FirstLba(disk))
  BY <1>2, <1>3
<1> QED
  BY <1>4 DEF F

(* Padding: whole sectors, no fewer bytes, at most a block more. *)
LEMMA PaddedWhole ==
  ASSUME NEW bytes \in Nat
  PROVE  /\ Padded(bytes) \in Nat /\ Padded(bytes) >= bytes
         /\ Padded(bytes) \div Sector \in Nat
         /\ (Padded(bytes) \div Sector) * Sector = Padded(bytes)
<1> DEFINE blocks == (bytes + 1023) \div 1024
<1>1. blocks \in Nat /\ blocks * 1024 >= bytes
  OBVIOUS
<1>2. Padded(bytes) = blocks * 1024
  BY DEF Padded, Block
<1> HIDE DEF blocks
<1>3. (blocks * 1024) \div 512 = blocks * 2
  BY <1>1
<1> QED
  BY <1>1, <1>2, <1>3 DEF Sector

LEMMA AlignedUp == ASSUME NEW lba \in Nat PROVE Aligned(lba) \in Nat /\ Aligned(lba) >= lba
  BY DEF Aligned

(* Each partition starts behind the padding of the one before it. *)
LEMMA NextFirst ==
  ASSUME NEW disk, Medium(disk), NEW n \in 1 .. Len(disk), FirstLba(disk)[n] \in Nat
  PROVE  /\ FirstLba(disk)[n + 1] \in Nat
         /\ FirstLba(disk)[n + 1] * Sector >= FirstLba(disk)[n] * Sector + Padded(disk[n])
<1> DEFINE L == FirstLba(disk)
           sectors == Padded(disk[n]) \div Sector
<1>1. disk[n] \in Nat /\ Len(disk) \in Nat
  BY DEF Medium
<1>2. sectors \in Nat /\ sectors * Sector = Padded(disk[n])
  BY <1>1, PaddedWhole
<1>3. L[n + 1] = Aligned(L[n] + sectors)
  <2>1. n + 1 \in 1 .. Len(disk) + 1 /\ n + 1 # 1 /\ (n + 1) - 1 = n
    BY <1>1
  <2>2. Len(disk) \in {3, 4}
    BY DEF Medium
  <2> QED
    BY <2>1, <2>2, FirstLbaEquation
<1> HIDE DEF L, sectors
<1>4. L[n] \in Nat
  BY DEF L
<1>5. L[n + 1] \in Nat /\ L[n + 1] >= L[n] + sectors
  <2>1. L[n] + sectors \in Nat
    BY <1>2, <1>4
  <2> HIDE DEF sectors
  <2> QED
    BY <1>3, <2>1, AlignedUp
<1>6. L[n + 1] * Sector >= L[n] * Sector + Padded(disk[n])
  BY <1>2, <1>4, <1>5 DEF Sector
<1> QED
  BY <1>5, <1>6 DEF L

LEMMA Firsts ==
  ASSUME NEW disk, Medium(disk)
  PROVE  /\ FirstLba(disk)[1] = 2048
         /\ \A n \in 1 .. Len(disk) + 1 : FirstLba(disk)[n] \in Nat
<1>1. Len(disk) \in {3, 4}
  BY DEF Medium
<1>2. FirstLba(disk)[1] = 2048
  BY <1>1, FirstLbaEquation
<1>3. /\ 1 \in 1 .. Len(disk) /\ 2 \in 1 .. Len(disk) /\ 3 \in 1 .. Len(disk)
      /\ Len(disk) = 4 => 4 \in 1 .. Len(disk)
  <2>1. CASE Len(disk) = 3
    BY <2>1
  <2>2. CASE Len(disk) = 4
    BY <2>2
  <2> QED
    BY <1>1, <2>1, <2>2
<1>4. FirstLba(disk)[2] \in Nat
  BY <1>2, <1>3, NextFirst
<1>5. FirstLba(disk)[3] \in Nat
  BY <1>3, <1>4, NextFirst
<1>6. FirstLba(disk)[4] \in Nat
  BY <1>3, <1>5, NextFirst
<1>7. Len(disk) = 4 => FirstLba(disk)[5] \in Nat
  <2> SUFFICES ASSUME Len(disk) = 4 PROVE FirstLba(disk)[4 + 1] \in Nat
    OBVIOUS
  <2>1. 4 \in 1 .. Len(disk)
    BY <1>3
  <2> QED
    BY <2>1, <1>6, NextFirst
<1>8. \A n \in 1 .. Len(disk) + 1 : n \in {1, 2, 3, 4} \/ (n = 5 /\ Len(disk) = 4)
  <2> TAKE n \in 1 .. Len(disk) + 1
  <2>1. CASE Len(disk) = 3
    <3>1. n \in Nat /\ 1 <= n /\ n <= 4
      BY <2>1
    <3> QED
      BY <3>1
  <2>2. CASE Len(disk) = 4
    BY <2>2
  <2> QED
    BY <1>1, <2>1, <2>2
<1> QED
  BY <1>2, <1>4, <1>5, <1>6, <1>7, <1>8

(* No partition reaches into a later one. *)
LEMMA Apart ==
  ASSUME NEW disk, Medium(disk), NEW m \in 1 .. Len(disk), NEW n \in 1 .. Len(disk) + 1, m < n
  PROVE  FirstLba(disk)[m] * Sector + Padded(disk[m]) <= FirstLba(disk)[n] * Sector
<1> DEFINE At(k) == FirstLba(disk)[k] * Sector
           Size(k) == Padded(disk[k])
<1>1. Len(disk) \in Nat /\ Len(disk) \in {3, 4} /\ Len(disk) <= 4
  <2>1. Len(disk) \in {3, 4}
    BY DEF Medium
  <2>2. CASE Len(disk) = 3
    BY <2>1, <2>2
  <2>3. CASE Len(disk) = 4
    BY <2>1, <2>3
  <2> QED
    BY <2>1, <2>2, <2>3
<1>2. \A k \in 1 .. Len(disk) + 1 : At(k) \in Nat
  BY Firsts DEF Sector
<1>3. \A k \in 1 .. Len(disk) : Size(k) \in Nat
  <2>1. \A k \in 1 .. Len(disk) : disk[k] \in Nat
    BY DEF Medium
  <2> QED
    BY <2>1, PaddedWhole
<1>4. \A k \in 1 .. Len(disk) : At(k) + Size(k) <= At(k + 1)
  <2> SUFFICES ASSUME NEW k \in 1 .. Len(disk)
               PROVE  At(k) + Size(k) <= At(k + 1)
    OBVIOUS
  <2>1. k \in 1 .. Len(disk) + 1
    BY <1>1
  <2>2. FirstLba(disk)[k] \in Nat
    BY <2>1, Firsts
  <2>3. FirstLba(disk)[k + 1] * Sector >= FirstLba(disk)[k] * Sector + Padded(disk[k])
    BY <2>2, NextFirst
  <2> HIDE DEF At, Size
  <2>4. /\ At(k) \in Nat /\ At(k + 1) \in Nat /\ Size(k) \in Nat
    BY <1>1, <1>2, <1>3, <2>1
  <2>5. At(k + 1) >= At(k) + Size(k)
    BY <2>3 DEF At, Size
  <2> QED
    BY <2>4, <2>5
<1> HIDE DEF At, Size
<1>5. \A k \in 1 .. Len(disk) : At(k) <= At(k + 1)
  <2> TAKE k \in 1 .. Len(disk)
  <2>1. At(k) \in Nat /\ At(k + 1) \in Nat /\ Size(k) \in Nat
    BY <1>1, <1>2, <1>3
  <2> QED
    BY <1>4, <2>1
<1>6. /\ At(m) \in Nat /\ Size(m) \in Nat /\ At(m + 1) \in Nat
      /\ At(m) + Size(m) <= At(m + 1)
  BY <1>1, <1>2, <1>3, <1>4
<1>7. At(m + 1) <= At(n)
  <2>1. n = m + 1 \/ n = m + 2 \/ n = m + 3 \/ n = m + 4
    <3>1. Len(disk) \in Nat /\ Len(disk) <= 4
      BY <1>1
    <3>2. m \in Nat /\ n \in Nat /\ 1 <= m /\ n <= Len(disk) + 1
      BY <3>1
    <3>3. n <= 5
      BY <3>1, <3>2
    <3> QED
      BY <3>2, <3>3
  <2>2. CASE n = m + 1
    BY <1>6, <2>2
  <2>3. CASE n = m + 2
    <3>1. m + 1 \in 1 .. Len(disk) /\ (m + 1) + 1 = n
      BY <1>1, <2>3
    <3> QED
      BY <3>1, <1>5
  <2>4. CASE n = m + 3
    <3>1. /\ m + 1 \in 1 .. Len(disk) /\ (m + 1) + 1 = m + 2
          /\ m + 2 \in 1 .. Len(disk) /\ (m + 2) + 1 = n
      BY <1>1, <2>4
    <3>2. At(m + 1) <= At(m + 2) /\ At(m + 2) <= At(n)
      BY <3>1, <1>5
    <3> QED
      BY <3>1, <3>2, <1>2, <1>6
  <2>5. CASE n = m + 4
    <3>1. m = 1 /\ n = 5 /\ Len(disk) = 4
      <4>1. m \in Nat /\ n \in Nat /\ 1 <= m /\ n <= Len(disk) + 1
        BY <1>1
      <4> QED
        BY <1>1, <2>5, <4>1
    <3>2. At(2) <= At(3) /\ At(3) <= At(4) /\ At(4) <= At(5)
      BY <3>1, <1>5
    <3>3. At(2) \in Nat /\ At(3) \in Nat /\ At(4) \in Nat /\ At(5) \in Nat
      BY <3>1, <1>2
    <3> QED
      BY <3>1, <3>2, <3>3
  <2> QED
    BY <2>1, <2>2, <2>3, <2>4, <2>5
<1>8. At(m) + Size(m) <= At(n)
  <2>1. At(n) \in Nat
    BY <1>2
  <2> QED
    BY <1>6, <1>7, <2>1
<1> QED
  BY <1>8 DEF At, Size

(* The first byte of a partition is the first byte of its file, and of no    *)
(* other.                                                                   *)
LEMMA FirstByte ==
  ASSUME NEW disk, Medium(disk), NEW n \in 1 .. Len(disk)
  PROVE  Holds(disk, FirstLba(disk)[n] * Sector) = {<<n, 0>>}
<1> DEFINE At(k) == FirstLba(disk)[k] * Sector
<1>1. \A k \in 1 .. Len(disk) : At(k) \in Nat
  <2> SUFFICES ASSUME NEW k \in 1 .. Len(disk) PROVE At(k) \in Nat
    OBVIOUS
  <2>1. k \in 1 .. Len(disk) + 1
    BY DEF Medium
  <2>2. FirstLba(disk)[k] \in Nat
    BY <2>1, Firsts
  <2> QED
    BY <2>2 DEF Sector
<1>2. \A k \in 1 .. Len(disk) : disk[k] \in Nat /\ disk[k] > 0
  BY DEF Medium
<1>3. ASSUME NEW m \in 1 .. Len(disk)
      PROVE  At(n) >= At(m) /\ At(n) < At(m) + disk[m] <=> m = n
  <2>1. n \in 1 .. Len(disk) + 1 /\ m \in 1 .. Len(disk) + 1
    BY DEF Medium
  <2>2. Padded(disk[m]) \in Nat /\ Padded(disk[m]) >= disk[m]
    BY <1>2, PaddedWhole
  <2>3. Padded(disk[n]) \in Nat /\ Padded(disk[n]) >= disk[n]
    BY <1>2, PaddedWhole
  <2>4. m < n => At(m) + Padded(disk[m]) <= At(n)
    BY <2>1, Apart
  <2>5. n < m => At(n) + Padded(disk[n]) <= At(m)
    BY <2>1, Apart
  <2> HIDE DEF At
  <2> QED
    BY <1>1, <1>2, <2>2, <2>3, <2>4, <2>5
<1>4. {m \in 1 .. Len(disk) : At(n) >= At(m) /\ At(n) < At(m) + disk[m]} = {n}
  BY <1>3
<1>5. At(n) - At(n) = 0
  BY <1>1
<1>6. Holds(disk, At(n)) =
        {<<m, At(n) - At(m)>> :
           m \in {m \in 1 .. Len(disk) : At(n) >= At(m) /\ At(n) < At(m) + disk[m]}}
  BY DEF Holds
<1> HIDE DEF At
<1>7. Holds(disk, At(n)) = {<<n, 0>>}
  BY <1>4, <1>5, <1>6
<1> QED
  BY <1>7 DEF At

(* gpt_load_part finds the entry that mkimg.sh wrote for the file ... *)
LEMMA EntryFound ==
  ASSUME NEW disk, NEW part \in 0 .. 3
  PROVE  EntryAt(disk, EntryOffset(part)) = mkimg(disk)[part + 1]
<1>1. (EntryOffset(part) - Sector * 2) \div EntrySize + 1 = part + 1
  BY DEF EntryOffset, Sector, EntrySize
<1> QED
  BY <1>1 DEF EntryAt

LEMMA ExtentOfEntry ==
  ASSUME NEW disk, NEW part, NEW first, NEW end,
         EntryAt(disk, EntryOffset(part)) = [lba_start |-> first, lba_end |-> end]
  PROVE  Extent(disk, part) = [offset |-> first * Sector, size |-> (end + 1 - first) * Sector]
  BY DEF Extent

(* ... and computes the place and the padded size of the file from it.      *)
THEOREM ExtentOfFile ==
  ASSUME NEW disk, Medium(disk), NEW part \in 0 .. 3, part + 1 <= Len(disk)
  PROVE  Extent(disk, part) = [offset |-> FirstLba(disk)[part + 1] * Sector,
                               size |-> Padded(disk[part + 1])]
<1> DEFINE n == part + 1
           first == FirstLba(disk)[n]
           sectors == Padded(disk[n]) \div Sector
           files == [k \in 1 .. Len(disk) |->
                       [lba_start |-> FirstLba(disk)[k],
                        lba_end |-> FirstLba(disk)[k] + Padded(disk[k]) \div Sector - 1]]
<1>1. n \in 1 .. Len(disk) /\ Len(disk) \in Nat
  BY DEF Medium
<1>2. first \in Nat
  <2>1. n \in 1 .. Len(disk) + 1
    BY <1>1
  <2> QED
    BY <2>1, Firsts
<1>3. sectors \in Nat /\ sectors * Sector = Padded(disk[n])
  <2>1. disk[n] \in Nat
    BY <1>1 DEF Medium
  <2> QED
    BY <2>1, PaddedWhole
<1>4. mkimg(disk)[n] = [lba_start |-> first, lba_end |-> first + sectors - 1]
  <2> DEFINE rest == <<[lba_start |-> FirstLba(disk)[Len(disk) + 1],
                        lba_end |-> Capacity \div Sector - 34]>>
  <2>1. mkimg(disk) = files \o rest
    BY DEF mkimg
  <2>2. files[n] = [lba_start |-> first, lba_end |-> first + sectors - 1]
    BY <1>1
  <2> HIDE DEF n
  <2>3. DOMAIN files = 1 .. Len(disk) /\ Len(files) = Len(disk)
    BY <1>1
  <2> HIDE DEF files
  <2>4. (files \o rest)[n] = files[n]
    BY <1>1, <2>3
  <2> QED
    BY <2>1, <2>2, <2>4
<1> HIDE DEF n, first, sectors
<1>5. ((first + sectors - 1) + 1 - first) * Sector = Padded(disk[n])
  <2>1. (first + sectors - 1) + 1 - first = sectors
    BY <1>2, <1>3
  <2> QED
    BY <1>3, <2>1
<1>6. EntryAt(disk, EntryOffset(part)) = mkimg(disk)[n]
  BY EntryFound DEF n
<1>7. Extent(disk, part) = [offset |-> first * Sector, size |-> Padded(disk[n])]
  BY <1>4, <1>5, <1>6, ExtentOfEntry
<1> QED
  BY <1>7 DEF n, first

(* Everything that the table can name lies on the medium. *)
LEMMA ExtentOnMedium ==
  ASSUME NEW disk, Medium(disk), NEW part \in 0 .. 3
  PROVE  /\ Extent(disk, part).offset \in 0 .. Capacity
         /\ Extent(disk, part).size \in 0 .. Capacity
         /\ Extent(disk, part) = [offset |-> Extent(disk, part).offset,
                                  size |-> Extent(disk, part).size]
<1> DEFINE n == part + 1
           last == Len(disk) + 1
           At(k) == FirstLba(disk)[k] * Sector
<1>1. Len(disk) \in {3, 4} /\ n \in 1 .. last /\ last \in 1 .. last
  <2>1. Len(disk) \in {3, 4}
    BY DEF Medium
  <2>2. CASE Len(disk) = 3
    BY <2>2
  <2>3. CASE Len(disk) = 4
    BY <2>3
  <2> QED
    BY <2>1, <2>2, <2>3
<1>2. FirstLba(disk)[n] \in Nat /\ FirstLba(disk)[last] \in Nat
  BY <1>1, Firsts
<1>3. FirstLba(disk)[last] <= 65502
  BY DEF Medium, Capacity, Sector
<1>4. At(n) \in Nat /\ At(last) \in Nat /\ At(last) <= Capacity
  <2> HIDE DEF n, last
  <2> QED
    BY <1>2, <1>3 DEF Sector, Capacity
<1> Capacity \in Nat
  BY DEF Capacity
<1>5. CASE n <= Len(disk)
  <2>1. n \in 1 .. Len(disk) /\ n < last
    BY <1>1, <1>5
  <2>2. At(n) + Padded(disk[n]) <= At(last)
    BY <1>1, <2>1, Apart
  <2>3. Padded(disk[n]) \in Nat
    <3>1. disk[n] \in Nat
      BY <2>1 DEF Medium
    <3> QED
      BY <3>1, PaddedWhole
  <2>4. Extent(disk, part) = [offset |-> At(n), size |-> Padded(disk[n])]
    BY <1>5, ExtentOfFile
  <2> HIDE DEF At, n, last
  <2>5. At(n) \in 0 .. Capacity /\ Padded(disk[n]) \in 0 .. Capacity
    BY <1>4, <2>2, <2>3
  <2> QED
    BY <2>4, <2>5
<1>6. CASE n > Len(disk)
  <2>1. n = last
    BY <1>1, <1>6
  <2> DEFINE files == [k \in 1 .. Len(disk) |->
                         [lba_start |-> FirstLba(disk)[k],
                          lba_end |-> FirstLba(disk)[k] + Padded(disk[k]) \div Sector - 1]]
             global == [lba_start |-> FirstLba(disk)[last],
                        lba_end |-> Capacity \div Sector - 34]
  <2>2. mkimg(disk) = files \o <<global>>
    BY DEF mkimg
  <2>3. (files \o <<global>>)[last] = global
    <3>1. DOMAIN files = 1 .. Len(disk) /\ Len(files) = Len(disk)
      BY <1>1
    <3> HIDE DEF files, global
    <3> QED
      BY <1>1, <3>1
  <2>4. EntryAt(disk, EntryOffset(part)) = global
    BY <2>1, <2>2, <2>3, EntryFound
  <2> DEFINE lba == FirstLba(disk)[last]
             end == Capacity \div Sector - 34
             size == (end + 1 - lba) * Sector
  <2>5. Extent(disk, part) = [offset |-> At(last), size |-> size]
    BY <2>4, ExtentOfEntry
  <2>6. size \in 0 .. Capacity
    <3> HIDE DEF lba
    <3>1. lba \in Nat /\ lba <= 65502
      BY <1>2, <1>3 DEF lba
    <3>2. end = 65502
      BY DEF Capacity, Sector
    <3>3. (65503 - lba) * 512 \in Nat
      BY <3>1
    <3>4. (65503 - lba) * 512 <= 65503 * 512
      BY <3>1
    <3>5. 65503 * 512 <= Capacity
      BY DEF Capacity
    <3> HIDE DEF end
    <3>6. size = (65503 - lba) * 512
      BY <3>1, <3>2 DEF Sector
    <3> HIDE DEF size
    <3> QED
      BY <3>3, <3>4, <3>5, <3>6
  <2> HIDE DEF At, size, last
  <2> QED
    BY <1>4, <2>5, <2>6
<1> QED
  BY <1>1, <1>5, <1>6

==============================================================================
