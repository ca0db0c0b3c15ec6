------------------------------ MODULE BootConf -------------------------------
(***************************************************************************)
(* The one core of a socket that prepares the machine, call by call, from  *)
(* ZSBL to the jump to OpenSBI: where the boot configuration comes from,   *)
(* what it selects, and which clock and divisor the UART and the flash     *)
(* controller (SSI) run with at each call.                                 *)
(*                                                                         *)
(* A divisor stands for the bus clock it is right for: "ext" (25MHz, the   *)
(* external clock) or "pll" (100MHz); "unset" is 0, or a device before its *)
(* first initialisation.  Storages FLASH_0 and FLASH_I are one "FLASH", SD_0 and *)
(* SD_I one "SD".  What a load puts into RAM is named by the interval of    *)
(* the storage that it was read from.                                      *)
(***************************************************************************)
EXTENDS Integers, Sequences, FiniteSets, Gpt, PartialGood

CONSTANTS
  Builds,       \* the builds: a platform and its compile-time options
  FlashConf,    \* the boot configurations that partition 0 of the flash may hold
  Disks         \* the boot media, as mkimg.sh makes them (see Gpt)

Clock == {"ext", "pll"}
Divisor == Clock \cup {"unset"}
Storage == {"NONE", "ROM_ONCHIP", "ROM_OFFCHIP", "RAM_ONCHIP", "DDR", "FLASH", "SD"}
Flag == {"DEBUG", "BIST", "BIST_ZSBL", "BIST_FSBL"}

(* struct bootconf, as far as the boot flow depends on it.  Bits [1:0] of   *)
(* work_mode are DEBUG and BIST, bits 4 and 5 keep BIST out of a stage.     *)
Conf == [work_mode : SUBSET Flag,
         storage_bc : Storage, storage_fsbl : Storage, storage_opensbi : Storage,
         flash_online : BOOLEAN, console : BOOLEAN,
         socket_id : {0, 1}, socket_cnt : {0, 1, 2},
         div0 : Divisor, div : Divisor,
         pg_codes : [{0, 1} -> [Cluster -> 0 .. 255]]]

(* ZSBL_ONCHIP, CLOCK_IN_ZSBL, PC_ACTS_AS_MC, STORAGE_PROBE,                *)
(* BC_AT_FLASH_PART0, CONF_FSBL_PRINT                                       *)
Build == [platform : {"apple", "grape", "banana"},
          zsblOnchip : BOOLEAN, clockInZsbl : BOOLEAN, pcActsAsMc : BOOLEAN,
          storageProbe : BOOLEAN, bcAtPart0 : BOOLEAN, fsblPrint : BOOLEAN]

(* PLAT_ROM_SIZE *)
RomSize(platform) == IF platform = "grape" THEN \h20000 ELSE \h100000

(* The bytes of RAM from the FSBL to the share word: below the stacks (4KB  *)
(* for a PC, 8KB for an MC) are 64 bytes of bootconf, and 256 for sharing.  *)
FsblRoom(platform) ==
  CASE platform = "apple" -> \h100000 - 16 * \h1000 - \h2000 - \h140
    [] platform = "grape" -> \h200000 - 16 * \h1000 - \h140
    [] platform = "banana" -> \h100000 - \h2000 - \h140

ASSUME ConfAssumption ==
  /\ Builds \subseteq Build
  /\ FlashConf \subseteq Conf
  \* No file of the repository gives the field a value.
  /\ \A c \in FlashConf : c.socket_id = 0
  /\ \A disk \in Disks, b \in Builds :
       /\ Medium(disk) /\ disk[1] = BootConfSize
       \* FSBL lies below BootConf (README.md); nothing checks it.
       /\ disk[3] <= FsblRoom(b.platform)

VARIABLES
  build,      \* the build, chosen once
  pc,         \* how many calls of Program have returned
  mode,       \* the boot mode pins: "PRODUCT", "DEBUG", "BIST" or "OFFCHIP"
  socket,     \* the socket pins: [id |-> 0 or 1, cnt |-> 1 or 2]
  disk,       \* the boot medium
  conf,       \* struct bootconf at PLAT_RAM_BC
  clock,      \* the clock the bus runs on
  uart, ssi,  \* the divisors in the two devices
  image,      \* where bootconf, FSBL and OpenSBI were loaded from; "ram": not written
  csr,        \* the partial-good register of the socket
  running,    \* the PCs that the MC started, as <<cluster, PC of the cluster>>
  sharezone,  \* the share-zone in DDR: number of sockets, code of each socket
  sent,       \* the pairs <<divisor, clock>> in which bytes left the UART
  flashReads  \* the pairs <<divisor, clock>> in which the flash was read

vars == <<build, pc, mode, socket, disk, conf, clock, uart, ssi, image,
          csr, running, sharezone, sent, flashReads>>

NoCode == [k \in Cluster |-> 0]

(* Slip: the divisors of the two kinds of ZSBL are swapped. *)
bootconf0_Swapped ==
  [work_mode |-> {},
   storage_bc |-> "FLASH", storage_fsbl |-> "FLASH", storage_opensbi |-> "FLASH",
   flash_online |-> TRUE, console |-> TRUE,
   socket_id |-> 0, socket_cnt |-> 2,
   div0 |-> IF build.zsblOnchip THEN "pll" ELSE "ext", div |-> "pll",
   pg_codes |-> [s \in {0, 1} |-> NoCode]]

(* bootconf0 in ROM: an on-chip ZSBL starts on the external clock, an       *)
(* off-chip one initialises the devices after the switch to the PLLs.       *)
bootconf0 ==
  [work_mode |-> {},
   storage_bc |-> "FLASH", storage_fsbl |-> "FLASH", storage_opensbi |-> "FLASH",
   flash_online |-> TRUE, console |-> TRUE,
   socket_id |-> 0, socket_cnt |-> 2,
   div0 |-> IF build.zsblOnchip THEN "ext" ELSE "pll", div |-> "pll",
   pg_codes |-> [s \in {0, 1} |-> NoCode]]

------------------------------------------------------------------------------
(* (work_mode & 0x03) == BC_WORK_MODE_BIST *)
SelfTest(c) == c.work_mode \cap {"DEBUG", "BIST"} = {"BIST"}

(* The FSBL in RAM, with the zeros that mkimg.sh pads it with, reaches the  *)
(* share word, and then all of the configuration: the room ends 320 bytes   *)
(* below a multiple of 4KB, at which the padding of such a file ends too.   *)
Spills(img) == img["fsbl"].size > FsblRoom(build.platform)

Erased ==
  [work_mode |-> {},
   storage_bc |-> "NONE", storage_fsbl |-> "NONE", storage_opensbi |-> "NONE",
   flash_online |-> FALSE, console |-> FALSE,
   socket_id |-> 0, socket_cnt |-> 0,
   div0 |-> "unset", div |-> "unset",
   pg_codes |-> [s \in {0, 1} |-> NoCode]]

------------------------------------------------------------------------------
(* The calls, in the order of zsbl_pc.S, zsbl_mc.S and fsbl.S for the core  *)
(* that prepares its socket, and after it for the hart that loads OpenSBI.  *)
(* The MC of plat-banana goes on at pc_start, past the self test.           *)
If(b, call) == IF b THEN <<call>> ELSE <<>>

ZsblCalls ==
  <<"zsbl_set_bc_rom">>
    \o If(build.pcActsAsMc, "zsbl_run_bist")
    \o If(build.clockInZsbl, "plat_clock_init")
    \o <<"zsbl_init_console", "storage_init">>
    \o If(build.storageProbe, "storage_probe")
    \o <<"storage_load_bc", "zsbl_print_bc", "storage_load_fsbl">>

FsblCalls ==
  <<"fsbl_first_print">>
    \o If(~build.clockInZsbl, "plat_clock_init")
    \o If(build.storageProbe /\ ~build.pcActsAsMc, "storage_probe")
    \o (IF build.pcActsAsMc THEN <<>> ELSE <<"plat_setup_pg", "plat_start_pc">>)
    \o If(build.pcActsAsMc \/ build.platform # "banana", "fsbl_run_bist")
    \o <<"plat_setup_sz", "storage_load_opensbi">>

Program == ZsblCalls \o FsblCalls

(* The next call of the program is made and returns. *)
Call(call) ==
  /\ pc < Len(Program)
  /\ Program[pc + 1] = call
  /\ pc' = pc + 1
  /\ UNCHANGED <<build, mode, socket, disk>>

Do(call) == Call(call) /\ UNCHANGED <<csr, running, sharezone>>

InFsbl == pc >= Len(ZsblCalls)

(* The hardware that a platform's pins can describe. *)
Modes == CASE build.platform = "apple" -> {"PRODUCT", "DEBUG", "BIST", "OFFCHIP"}
           [] build.platform = "grape" -> {"PRODUCT", "DEBUG", "BIST"}
           [] build.platform = "banana" -> {"PRODUCT", "DEBUG"}

Init ==
  /\ build \in Builds
  /\ pc = 0
  /\ mode \in Modes
  /\ socket \in [id : {0}, cnt : {1}]
                \cup (IF build.platform = "apple" THEN [id : {0, 1}, cnt : {2}] ELSE {})
  /\ disk \in Disks
  /\ conf \in FlashConf      \* what an earlier boot left
  /\ clock = "ext"
  /\ uart = "unset"
  /\ ssi = "unset"
  /\ image = [p \in {"bc", "fsbl", "opensbi"} |-> [from |-> "ram", offset |-> 0, size |-> 0]]
  /\ csr = NoCode
  /\ running = {}
  /\ sharezone = [cnt |-> 0, code |-> [s \in {0, 1} |-> NoCode]]
  /\ sent = {}
  /\ flashReads = {}

------------------------------------------------------------------------------
(* plat_bc_fix of each platform: what the pins override. *)
FromMemory(c) == [c EXCEPT !.flash_online = TRUE, !.storage_fsbl = "RAM_ONCHIP",
                           !.storage_opensbi = "DDR"]

FixMode_apple(c) ==
  CASE mode = "DEBUG" -> [FromMemory(c) EXCEPT !.storage_bc = "ROM_ONCHIP"]
    [] mode = "OFFCHIP" -> [FromMemory(c) EXCEPT !.storage_bc = "ROM_OFFCHIP"]
    [] mode = "BIST" -> [c EXCEPT !.work_mode = {"BIST", "BIST_ZSBL", "BIST_FSBL"}]
    [] OTHER -> c

plat_bc_fix_apple(c) ==
  [FixMode_apple(c) EXCEPT !.socket_id = socket.id, !.socket_cnt = socket.cnt]

plat_bc_fix_grape(c) ==
  LET fixed == CASE mode = "DEBUG" -> [FromMemory(c) EXCEPT !.storage_bc = "ROM_ONCHIP",
                                                          !.work_mode = {"DEBUG"}]
                 [] mode = "BIST" -> [c EXCEPT !.work_mode = {"BIST", "BIST_ZSBL", "BIST_FSBL"}]
                 [] OTHER -> c
  IN  [fixed EXCEPT !.socket_cnt = 1]

(* Slip: the debug pin is ignored. *)
plat_bc_fix_banana_NoDebug(c) == [c EXCEPT !.storage_bc = "FLASH", !.socket_cnt = 1]

plat_bc_fix_banana(c) ==
  LET fixed == IF mode = "PRODUCT"
                 THEN [c EXCEPT !.storage_bc = "FLASH"]
                 ELSE [c EXCEPT !.storage_bc = "ROM_ONCHIP", !.storage_fsbl = "NONE"]
  IN  [fixed EXCEPT !.socket_cnt = 1]

plat_bc_fix(c) ==
  CASE build.platform = "apple" -> plat_bc_fix_apple(c)
    [] build.platform = "grape" -> plat_bc_fix_grape(c)
    [] build.platform = "banana" -> plat_bc_fix_banana(c)

------------------------------------------------------------------------------
(* The devices.  `d' and `k' are the divisor and clock at the call. *)

(* plat_serial_put_byte: silent unless the configuration enables it. *)
Bytes(d, k) == IF conf.console THEN {<<d, k>>} ELSE {}

(* serial_print_*: compiled to nothing in an FSBL without PRINT_ENABLE. *)
Prints(d, k) == IF InFsbl /\ ~build.fsblPrint THEN {} ELSE Bytes(d, k)

(* A call that does no more than print, on the platforms where it does.     *)
Message(platforms) ==
  /\ sent' = IF build.platform \in platforms THEN sent \cup Prints(uart, clock) ELSE sent
  /\ UNCHANGED <<conf, clock, uart, ssi, image, flashReads>>

Reads == {<<ssi, clock>>}

(* Where the GPT image starts: off-chip ROM holds ZSBL before it. *)
StorageOffset(storage) == IF storage = "ROM_OFFCHIP" THEN RomSize(build.platform) ELSE 0

(* Slip: a storage that is not supported is taken for read. *)
Load_AnyStorage(part, storage) ==
  LET this == Extent(disk, Part[part])
  IN  [image EXCEPT ![part] = [from |-> storage, size |-> this.size,
                               offset |-> StorageOffset(storage) + this.offset]]

(* storage_read of the partition.  Storages other than these are refused.   *)
(* SD passes, but its driver is a stub: entry and partition stay what the   *)
(* stack and RAM held.                                                      *)
Load(part, storage) ==
  LET this == Extent(disk, Part[part])
  IN  IF storage \in {"FLASH", "ROM_OFFCHIP"}
        THEN [image EXCEPT ![part] = [from |-> storage, size |-> this.size,
                                      offset |-> StorageOffset(storage) + this.offset]]
        ELSE image

(* The caller goes on whatever was loaded. *)
gpt_load_part(part, storage) ==
  /\ image' = Load(part, storage)
  /\ flashReads' = IF storage = "FLASH" THEN flashReads \cup Reads ELSE flashReads
  /\ sent' = sent \cup (IF InFsbl THEN Prints(uart, clock) ELSE {})
  /\ UNCHANGED <<clock, uart, ssi>>

(* serial_bist and storage_bist: both initialise the UART again, with div0. *)
Bist ==
  /\ uart' = conf.div0
  /\ sent' = sent \cup Bytes(conf.div0, clock)
  /\ flashReads' = flashReads \cup Reads
  /\ UNCHANGED <<conf, clock, ssi, image>>

------------------------------------------------------------------------------
(* ZSBL *)

zsbl_set_bc_rom ==
  /\ Do("zsbl_set_bc_rom")
  /\ conf' = plat_bc_fix(bootconf0)
  /\ UNCHANGED <<clock, uart, ssi, image, sent, flashReads>>

zsbl_run_bist ==
  /\ Do("zsbl_run_bist")
  /\ IF SelfTest(conf) /\ "BIST_ZSBL" \notin conf.work_mode
       THEN Bist
       ELSE UNCHANGED <<conf, clock, uart, ssi, image, sent, flashReads>>

(* Slip: the divisor for the PLL clock is programmed on the external clock. *)
zsbl_init_console_Div ==
  /\ Do("zsbl_init_console")
  /\ uart' = conf.div
  /\ sent' = sent \cup Prints(conf.div, clock)
  /\ UNCHANGED <<conf, clock, ssi, image, flashReads>>

zsbl_init_console ==
  /\ Do("zsbl_init_console")
  /\ uart' = conf.div0
  /\ sent' = sent \cup Prints(conf.div0, clock)
  /\ UNCHANGED <<conf, clock, ssi, image, flashReads>>

storage_init ==
  /\ Do("storage_init")
  /\ ssi' = IF conf.flash_online THEN conf.div0 ELSE ssi
  /\ UNCHANGED <<conf, clock, uart, image, sent, flashReads>>

storage_probe ==
  /\ Do("storage_probe")
  /\ flashReads' = IF conf.flash_online THEN flashReads \cup Reads ELSE flashReads
  /\ UNCHANGED <<conf, clock, uart, ssi, image, sent>>

(* BC_AT_FLASH_PART0: the structure alone is read, without the table. *)
LoadBc ==
  IF build.bcAtPart0
    THEN [image EXCEPT !.bc = [from |-> "FLASH", offset |-> GPT_PART_0_OFFSET,
                               size |-> BootConfSize]]
    ELSE Load("bc", conf.storage_bc)

(* Slip: what is read from the flash is not fixed up. *)
storage_load_bc_NoFix ==
  /\ Do("storage_load_bc")
  /\ IF conf.storage_bc \in {"ROM_ONCHIP", "ROM_OFFCHIP"}
       THEN UNCHANGED <<conf, image, flashReads>>
       ELSE /\ conf' \in FlashConf
            /\ image' = LoadBc
            /\ flashReads' = flashReads \cup Reads
  /\ UNCHANGED <<clock, uart, ssi, sent>>

(* The first file is read into the configuration in use: it always comes    *)
(* from the flash, as plat_bc_fix names no other storage than flash or ROM. *)
storage_load_bc ==
  /\ Do("storage_load_bc")
  /\ IF conf.storage_bc \in {"ROM_ONCHIP", "ROM_OFFCHIP"}
       THEN UNCHANGED <<conf, image, flashReads>>
       ELSE /\ \E c \in FlashConf : conf' = plat_bc_fix(c)
            /\ image' = LoadBc
            /\ flashReads' = flashReads \cup Reads
  /\ UNCHANGED <<clock, uart, ssi, sent>>

zsbl_print_bc == Do("zsbl_print_bc") /\ Message({"apple", "grape", "banana"})

(* The configuration in use lies behind the FSBL.  Loads return and bring   *)
(* every byte here; how plat_flash_read loops is SsiFlash's.                *)
storage_load_fsbl ==
  /\ Do("storage_load_fsbl")
  /\ gpt_load_part("fsbl", conf.storage_fsbl)
  /\ conf' = IF Spills(image') THEN Erased ELSE conf

------------------------------------------------------------------------------
(* FSBL *)

fsbl_first_print == Do("fsbl_first_print") /\ Message({"apple", "grape", "banana"})

(* Only plat-grape knows that the UART is not ready when ZSBL does this.    *)
FirstMessage ==
  IF build.clockInZsbl /\ build.platform = "grape" THEN {} ELSE Prints(uart, clock)

(* PLLs are configured, the bus is switched to them, and both devices get   *)
(* the divisor for the new clock.                                           *)
plat_clock_init ==
  /\ Do("plat_clock_init")
  /\ clock' = "pll"
  /\ uart' = conf.div
  /\ ssi' = conf.div
  /\ sent' = sent \cup FirstMessage \cup Prints(conf.div, "pll")
  /\ UNCHANGED <<conf, image, flashReads>>

Code == conf.pg_codes[conf.socket_id]

plat_setup_pg ==
  /\ Call("plat_setup_pg")
  /\ Message({"apple"})
  /\ csr' = IF build.platform = "apple" THEN Code ELSE csr
  /\ UNCHANGED <<running, sharezone>>

(* Slip: the mask itself is written into the reset register. *)
plat_start_pc_Mask ==
  /\ Call("plat_start_pc")
  /\ Message({"apple"})
  /\ running' = IF build.platform = "apple"
                  THEN UNION {{k} \X ResetRegister(Code[k]) : k \in Cluster}
                  ELSE running
  /\ UNCHANGED <<csr, sharezone>>

(* The resets of the good PCs are released, cluster by cluster. *)
plat_start_pc ==
  /\ Call("plat_start_pc")
  /\ Message({"apple"})
  /\ running' = IF build.platform = "apple"
                  THEN UNION {{k} \X (CoreOf \ ResetRegister(Code[k])) : k \in Cluster}
                  ELSE running
  /\ UNCHANGED <<csr, sharezone>>

fsbl_run_bist ==
  /\ Do("fsbl_run_bist")
  /\ IF SelfTest(conf) /\ "BIST_FSBL" \notin conf.work_mode
       THEN Bist
       ELSE UNCHANGED <<conf, clock, uart, ssi, image, sent, flashReads>>

(* The slot of the socket in the share-zone. *)
plat_setup_sz ==
  /\ Call("plat_setup_sz")
  /\ Message({"apple", "grape"})
  /\ sharezone' = IF build.platform \in {"apple", "grape"}
                    THEN [cnt |-> conf.socket_cnt,
                          code |-> [sharezone.code EXCEPT ![conf.socket_id] = Code]]
                    ELSE sharezone
  /\ UNCHANGED <<csr, running>>

(* Only the hart with mhartid 0, on socket 0, loads OpenSBI. *)
storage_load_opensbi ==
  /\ Do("storage_load_opensbi")
  /\ IF socket.id = 0
       THEN gpt_load_part("opensbi", conf.storage_opensbi) /\ UNCHANGED conf
       ELSE UNCHANGED <<conf, clock, uart, ssi, image, sent, flashReads>>

------------------------------------------------------------------------------
Next ==
  \/ zsbl_set_bc_rom \/ zsbl_run_bist \/ zsbl_init_console
  \/ storage_init \/ storage_probe \/ storage_load_bc
  \/ zsbl_print_bc \/ storage_load_fsbl
  \/ fsbl_first_print \/ plat_clock_init \/ plat_setup_pg \/ plat_start_pc
  \/ fsbl_run_bist \/ plat_setup_sz \/ storage_load_opensbi

Spec == Init /\ [][Next]_vars

------------------------------------------------------------------------------
(* Properties *)

TypeOK ==
  /\ build \in Builds
  /\ pc \in 0 .. Len(Program)
  /\ mode \in Modes
  /\ socket \in [id : {0, 1}, cnt : {1, 2}]
  /\ disk \in Disks
  /\ conf \in Conf
  /\ clock \in Clock
  /\ uart \in Divisor
  /\ ssi \in Divisor
  /\ image \in [{"bc", "fsbl", "opensbi"} ->
                  [from : {"ram", "FLASH", "ROM_OFFCHIP"},
                   offset : 0 .. RomSize(build.platform) + Capacity, size : 0 .. Capacity]]
  /\ csr \in [Cluster -> 0 .. 255]
  /\ running \subseteq Cluster \X CoreOf
  /\ sharezone \in [cnt : 0 .. 2, code : [{0, 1} -> [Cluster -> 0 .. 255]]]
  /\ sent \subseteq Divisor \X Clock
  /\ flashReads \subseteq Divisor \X Clock

(* Whatever leaves the UART can be read at the other end: the device was    *)
(* initialised, with the divisor for the clock the bus ran on ("Frequncy    *)
(* dividor default" and "after clock works" of struct bootconf).            *)
ConsoleReadable == \A byte \in sent : byte[1] = byte[2]

(* The flash is never read through a controller that was not initialised,   *)
(* nor clocked by the PLL with the divisor for the external clock.          *)
FlashClocked ==
  \A read \in flashReads : read[1] # "unset" /\ read # <<"ext", "pll">>

(* Once storage_load_bc returned, the configuration names the socket that   *)
(* the pins name, whatever the flash says: plat_setup_sz writes the share-  *)
(* zone at this index, the devices are addressed by it.  An FSBL that       *)
(* spills (see ConfLostExactly) has erased it again.                        *)
SocketFromPins ==
  InFsbl /\ ~Spills(image) =>
    conf.socket_id = socket.id /\ conf.socket_cnt = socket.cnt

(* A debug boot runs the FSBL that a debugger put into RAM: no              *)
(* configuration, in ROM or in flash, makes ZSBL write over it.             *)
DebugKeepsFsbl == mode = "DEBUG" => image.fsbl.from = "ram"

(* What is loaded by name is the file that mkimg.sh was given under that    *)
(* name, from its first byte to its last, and nothing of another file: the  *)
(* table, the alignment and the padding that the script writes are the ones *)
(* that gpt_load_part, or the fixed GPT_PART_0_OFFSET, counts on.  The      *)
(* files of a medium without OpenSBI are three.                             *)
ImageWhole ==
  \A p \in {"bc", "fsbl", "opensbi"} :
    LET n == Part[p] + 1
        start == image[p].offset - StorageOffset(image[p].from)
        end == start + image[p].size
    IN  image[p].from # "ram" /\ n <= Len(disk) =>
          /\ Holds(disk, start) = {<<n, 0>>}
          /\ disk[n] <= image[p].size
          /\ \A m \in 1 .. Len(disk) \ {n} :
               \/ FirstLba(disk)[m] * Sector >= end
               \/ FirstLba(disk)[m] * Sector + disk[m] <= start

(* The room for FSBL in whole blocks.                                       *)
WholeBlocks(platform) == (FsblRoom(platform) \div Block) * Block

(* The configuration that ZSBL decided on is still there for FSBL exactly   *)
(* when the file ends in the whole blocks below the share word: loading it  *)
(* adds no more than the zeros up to the next block (mkimg.sh), and those   *)
(* of a file in the last, incomplete block erase the configuration whole,   *)
(* although README.md draws BootConf behind FSBL and such a file ends there.*)
ConfLostExactly ==
  image.fsbl.from # "ram" => (conf = Erased <=> disk[3] > WholeBlocks(build.platform))

(* OpenSBI is told of the harts that run: once a socket of plat-apple has   *)
(* filled its slot in the share-zone, the code there, which is that of the  *)
(* partial-good register too, calls good the PCs that were started and no   *)
(* other; of a cluster with an unknown code none was started.  A socket     *)
(* whose configuration was erased records 0 sockets, an empty share-zone.   *)
HandOffAgrees ==
  build.platform = "apple" /\ ~build.pcActsAsMc /\ sharezone.cnt # 0 =>
    /\ sharezone.cnt = socket.cnt
    /\ csr = sharezone.code[socket.id]
    /\ \A k \in Cluster :
         LET byte == sharezone.code[socket.id][k]
             known == \E n \in DOMAIN pg_code_lut : pg_code_lut[n] = byte
         IN  {c \in CoreOf : <<k, c>> \in running} = IF known THEN Good(byte) ELSE {}

==============================================================================
