--------------------------------- MODULE Gpt ---------------------------------
(***************************************************************************)
(* The disk image that script/mkimg.sh makes of the files of a boot medium, *)
(* and the arithmetic with which gpt_load_part finds a file in it again.    *)
(*                                                                          *)
(* A disk is the sequence of the sizes of its files, in the order of their  *)
(* names; a file's bytes are told apart by their position alone.  Addresses *)
(* are in bytes where the code counts bytes and in sectors where it does.   *)
(* They stay below 2^31 on a medium of Capacity, so the cut of an offset to *)
(* 32 bits never takes effect.  The padding that mkimg.sh records in the    *)
(* GUID only reaches the value gpt_load_part returns, which no caller uses. *)
(***************************************************************************)
EXTENDS Integers, Sequences

Sector == 512
Block == 1024              \* MKIMG_BLKSZ, also the alignment of a partition's size
Capacity == 32768 * 1024   \* MKIMG_KBYTES

(* enum gpt_part *)
Part == [bc |-> 0, ddrconf |-> 1, fsbl |-> 2, opensbi |-> 3]

------------------------------------------------------------------------------
(* mkimg.sh: a partition is its file, padded to whole blocks; sgdisk puts   *)
(* it on the next multiple of 2048 sectors.                                 *)
Padded(bytes) == ((bytes + Block - 1) \div Block) * Block

Aligned(lba) == ((lba + 2047) \div 2048) * 2048

FirstLba(disk) ==
  LET first[n \in 1 .. Len(disk) + 1] ==
        IF n = 1 THEN 2048 ELSE Aligned(first[n - 1] + Padded(disk[n - 1]) \div Sector)
  IN  first

(* The entries of the table: the files, and one for all remaining space.    *)
mkimg(disk) ==
  LET first == FirstLba(disk)
  IN  [n \in 1 .. Len(disk) |->
         [lba_start |-> first[n],
          lba_end |-> first[n] + Padded(disk[n]) \div Sector - 1]]
      \o <<[lba_start |-> first[Len(disk) + 1], lba_end |-> Capacity \div Sector - 34]>>

(* A medium that the script makes: its files are not empty, and sgdisk finds *)
(* room for each of them and for a sector more.                             *)
Medium(disk) ==
  /\ disk \in Seq(Nat \ {0}) /\ Len(disk) \in {3, 4}
  /\ FirstLba(disk)[Len(disk) + 1] <= Capacity \div Sector - 34

(* What is at byte `a' of the image: <<file, byte of the file>>, once dd    *)
(* has copied each file to the start of its partition.                      *)
Holds(disk, a) ==
  {<<n, a - FirstLba(disk)[n] * Sector>> :
     n \in {m \in 1 .. Len(disk) :
              /\ a >= FirstLba(disk)[m] * Sector
              /\ a < FirstLba(disk)[m] * Sector + disk[m]}}

------------------------------------------------------------------------------
(* gpt_load_part: the entry is read from its place in the table (LBA 2) ... *)
EntrySize == 128
EntryOffset(part) == Sector * 2 + EntrySize * part

EntryAt(disk, offset) == mkimg(disk)[(offset - Sector * 2) \div EntrySize + 1]

(* Slip: lba_end is taken for the first sector behind the partition. *)
Extent_EndExclusive(disk, part) ==
  LET this_entry == EntryAt(disk, EntryOffset(part))
  IN  [offset |-> this_entry.lba_start * Sector,
       size |-> (this_entry.lba_end - this_entry.lba_start) * Sector]

(* Slip: the count of sectors is scaled as if it were of blocks. *)
Extent_Blocks(disk, part) ==
  LET this_entry == EntryAt(disk, EntryOffset(part))
  IN  [offset |-> this_entry.lba_start * Sector,
       size |-> (this_entry.lba_end + 1 - this_entry.lba_start) * Block]

(* ... and the partition is read from its first to its last sector, with    *)
(* the padding.                                                             *)
Extent(disk, part) ==
  LET this_entry == EntryAt(disk, EntryOffset(part))
  IN  [offset |-> this_entry.lba_start * Sector,
       size |-> (this_entry.lba_end + 1 - this_entry.lba_start) * Sector]

(* storage_load_bc with BC_AT_FLASH_PART0: no look at the table.            *)
GPT_PART_0_OFFSET == Sector * 2048
BootConfSize == 24         \* sizeof(struct bootconf)

==============================================================================
