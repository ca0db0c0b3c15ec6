----------------------------- MODULE MCBootConf ------------------------------
(* The builds of the three platforms, and configurations that               *)
(* script/build-flash.sh puts into partition 0, varied in what a user may   *)
(* choose there.                                                            *)
EXTENDS BootConf

CONSTANTS
  WorkModes,   \* values of work_mode in the flash
  StoragesBc   \* values of storage_bc there

OnPlatform(p, mc, probe, print) ==
  [platform |-> p, zsblOnchip |-> TRUE, clockInZsbl |-> FALSE, pcActsAsMc |-> mc,
   storageProbe |-> probe, bcAtPart0 |-> ~probe, fsblPrint |-> print]

Offchip(b) == [b EXCEPT !.zsblOnchip = FALSE, !.clockInZsbl = TRUE]

(* Codes of a socket: all good, then each code of the table in some cluster *)
(* and bytes that are in no table.                                          *)
Codes == {<<0, 0, 0, 0>>, <<\h18, 1, 1, 1>>, <<\h48, \h14, \h22, \h40>>, <<\h11, 0, 255, \h02>>,
          <<\h10, \h42, \h44, \h28>>, <<\h24, \h20, \h08, \h04>>}

(* Media of build-flash.sh, without and with a file for OpenSBI: sizes that *)
(* are and are not whole blocks, that fill the RAM of plat-apple to the     *)
(* last block or go one byte beyond, and that end on a sector, or reach     *)
(* beyond the next multiple of 1MB.                                         *)
MCDisks == {<<24, 2048, 5000>>, <<24, 1048577, 973824>>, <<24, 2048, 973825>>,
            <<24, 2048, 512, 300001>>}

MCBuilds ==
  {OnPlatform("grape", TRUE, TRUE, TRUE),
   Offchip(OnPlatform("grape", TRUE, FALSE, TRUE)),
   OnPlatform("apple", FALSE, TRUE, TRUE),
   OnPlatform("banana", FALSE, FALSE, TRUE)}

QuietGrape == {OnPlatform("grape", TRUE, FALSE, FALSE)}

(* Each code on each socket, next to another one. *)
CodePairs == {<<c, d>> \in Codes \X Codes : c # d /\ (c = <<0, 0, 0, 0>> \/ d = <<0, 0, 0, 0>>)}

MCFlashConf ==
  [work_mode : WorkModes, storage_bc : StoragesBc,
   storage_fsbl : {"FLASH", "ROM_OFFCHIP", "RAM_ONCHIP", "SD"},
   storage_opensbi : {"FLASH", "DDR"},
   flash_online : BOOLEAN, console : BOOLEAN,
   socket_id : {0}, socket_cnt : {2},
   div0 : {"ext"}, div : {"pll"},
   pg_codes : {[s \in {0, 1} |-> IF s = 0 THEN c ELSE d] : <<c, d>> \in CodePairs}]

==============================================================================
