---------------------------- MODULE BootFilesProofs ----------------------------
(***************************************************************************)
(* Proofs about BootConf and the files of the boot medium, for every set of *)
(* builds and configurations and every medium that mkimg.sh makes: the      *)
(* values of all variables, and what the loads put into RAM.                *)
(***************************************************************************)
EXTENDS BootOrderProofs, GptProofs

(* The intervals that a load may have read for a file: what the entry of    *)
(* the table says, or the fixed place of the configuration.                 *)
NotRead == [from |-> "ram", offset |-> 0, size |-> 0]

FromTable(file, storage) ==
  LET this == Extent(disk, Part[file])
  IN  [from |-> storage, size |-> this.size, offset |-> StorageOffset(storage) + this.offset]

AtPart0 == [from |-> "FLASH", offset |-> GPT_PART_0_OFFSET, size |-> BootConfSize]

Origin(file) ==
  {NotRead, FromTable(file, "FLASH"), FromTable(file, "ROM_OFFCHIP")}
    \cup (IF file = "bc" THEN {AtPart0} ELSE {})

(* The invariant, by the parts of the machine.                              *)
InputsTyped ==
  /\ build \in Builds /\ pc \in 0 .. Len(Program) /\ mode \in Modes
  /\ socket \in [id : {0, 1}, cnt : {1, 2}] /\ disk \in Disks

Devices ==
  /\ clock \in Clock /\ uart \in Divisor /\ ssi \in Divisor
  /\ sent \subseteq Divisor \X Clock
  /\ flashReads \subseteq Divisor \X Clock

Placed ==
  /\ image \in [Parts -> UNION {Origin(file) : file \in Parts}]
  /\ \A file \in Parts : image[file] \in Origin(file)

HandOff ==
  /\ csr \in [Cluster -> 0 .. 255] /\ running \subseteq Cluster \X CoreOf
  /\ sharezone \in [cnt : 0 .. 2, code : [{0, 1} -> [Cluster -> 0 .. 255]]]

Typed == InputsTyped /\ conf \in Conf /\ Devices /\ Placed /\ HandOff

------------------------------------------------------------------------------
(* The pieces of a configuration. *)
LEMMA FixTyped ==
  ASSUME InputsTyped, NEW c \in Conf
  PROVE  plat_bc_fix(c) \in Conf
<1>1. build.platform \in {"apple", "grape", "banana"}
  BY ConfAssumption DEF ConfAssumption, InputsTyped, Build
<1>2. socket.id \in {0, 1} /\ socket.cnt \in {1, 2}
  BY DEF InputsTyped
<1>3. FromMemory(c) \in Conf
  BY DEF FromMemory, Conf, Storage
<1>4. plat_bc_fix_apple(c) \in Conf
  <2>1. FixMode_apple(c) \in Conf
    BY <1>3 DEF FixMode_apple, Conf, Storage, Flag
  <2> QED
    BY <1>2, <2>1 DEF plat_bc_fix_apple, Conf
<1>5. plat_bc_fix_grape(c) \in Conf
  BY <1>3 DEF plat_bc_fix_grape, Conf, Storage, Flag
<1>6. plat_bc_fix_banana(c) \in Conf
  BY DEF plat_bc_fix_banana, Conf, Storage
<1> QED
  BY <1>1, <1>4, <1>5, <1>6 DEF plat_bc_fix

LEMMA RomTyped == bootconf0 \in Conf
  BY DEF bootconf0, NoCode, Conf, Storage, Flag, Clock, Divisor, Cluster

LEMMA ErasedTyped == Erased \in Conf
  BY DEF Erased, NoCode, Conf, Storage, Divisor, Cluster

LEMMA ConfParts ==
  ASSUME conf \in Conf
  PROVE  /\ conf.div0 \in Divisor /\ conf.div \in Divisor
         /\ conf.socket_id \in {0, 1} /\ conf.socket_cnt \in {0, 1, 2}
         /\ Code \in [Cluster -> 0 .. 255]
  BY DEF Conf, Code

------------------------------------------------------------------------------
(* What a call does to the program counter, and what it leaves alone. *)
LEMMA Advance ==
  ASSUME InputsTyped, NEW name, Call(name)
  PROVE  InputsTyped'
<1>1. /\ pc < Len(Program) /\ pc' = pc + 1
      /\ UNCHANGED <<build, mode, socket, disk>>
  BY DEF Call
<1>2. Program' = Program /\ Modes' = Modes
  BY <1>1 DEF Program, ZsblCalls, FsblCalls, Modes
<1>3. Len(Program) \in Int
  BY <1>1 DEF InputsTyped
<1>4. pc' \in 0 .. Len(Program)
  BY <1>1, <1>3 DEF InputsTyped
<1> QED
  BY <1>1, <1>2, <1>4 DEF InputsTyped

(* The places that depend on the build and the medium alone. *)
LEMMA SameOrigins ==
  ASSUME NEW name, Call(name)
  PROVE  /\ \A file \in Parts : Origin(file)' = Origin(file)
         /\ UNCHANGED image /\ Placed => Placed'
<1>1. build' = build /\ disk' = disk
  BY DEF Call
<1>2. \A file \in Parts : Origin(file)' = Origin(file)
  BY <1>1 DEF Origin, NotRead, FromTable, AtPart0, StorageOffset
<1> QED
  BY <1>2 DEF Placed

LEMMA LoadPlaced ==
  ASSUME Placed, NEW part \in Parts, NEW storage
  PROVE  /\ Load(part, storage) \in [Parts -> UNION {Origin(file) : file \in Parts}]
         /\ \A file \in Parts : Load(part, storage)[file] \in Origin(file)
<1>1. CASE storage \in {"FLASH", "ROM_OFFCHIP"}
  <2>1. Load(part, storage) = [image EXCEPT ![part] = FromTable(part, storage)]
    BY <1>1 DEF Load, FromTable
  <2>2. FromTable(part, storage) \in Origin(part)
    BY <1>1 DEF Origin
  <2> QED
    BY <2>1, <2>2 DEF Placed
<1>2. CASE storage \notin {"FLASH", "ROM_OFFCHIP"}
  BY <1>2 DEF Load, Placed
<1> QED
  BY <1>1, <1>2

(* What leaves the UART, and how the flash is read, is a pair of a divisor   *)
(* and a clock.                                                             *)
LEMMA Pairs ==
  ASSUME NEW d \in Divisor, NEW k \in Clock
  PROVE  /\ Bytes(d, k) \subseteq Divisor \X Clock
         /\ Prints(d, k) \subseteq Divisor \X Clock
  BY DEF Bytes, Prints

LEMMA ReadsTyped == Devices => Reads \subseteq Divisor \X Clock
  BY DEF Devices, Reads

LEMMA BistTyped == ASSUME Devices, conf \in Conf, Bist PROVE Devices'
<1>1. conf.div0 \in Divisor /\ clock \in Clock
  BY ConfParts DEF Devices
<1>2. Bytes(conf.div0, clock) \subseteq Divisor \X Clock
  BY <1>1, Pairs
<1> QED
  BY <1>1, <1>2, ReadsTyped DEF Bist, Devices

LEMMA MessageTyped == ASSUME Devices, NEW platforms, Message(platforms) PROVE Devices'
<1>1. Prints(uart, clock) \subseteq Divisor \X Clock
  BY Pairs DEF Devices
<1> QED
  BY <1>1 DEF Message, Devices

LEMMA LoadTyped ==
  ASSUME Devices, NEW part, NEW storage, gpt_load_part(part, storage)
  PROVE  Devices'
<1>1. Prints(uart, clock) \subseteq Divisor \X Clock
  BY Pairs DEF Devices
<1> QED
  BY <1>1, ReadsTyped DEF gpt_load_part, Devices

(* The PCs that start are PCs of the socket. *)
LEMMA StartedTyped ==
  ASSUME NEW code
  PROVE  UNION {{k} \X (CoreOf \ ResetRegister(code[k])) : k \in Cluster} \subseteq Cluster \X CoreOf
  OBVIOUS

------------------------------------------------------------------------------
LEMMA TypedStart == Init => Typed
<1> SUFFICES ASSUME Init
             PROVE  Typed
  OBVIOUS
<1>1. InputsTyped
  <2>1. Len(Program) \in Nat
    BY FirstCall
  <2>2. socket \in [id : {0, 1}, cnt : {1, 2}]
    BY DEF Init
  <2> QED
    BY <2>1, <2>2 DEF Init, InputsTyped
<1>2. conf \in Conf
  BY ConfAssumption DEF ConfAssumption, Init
<1>3. Devices
  BY DEF Init, Devices, Clock, Divisor
<1>4. Placed
  <2>1. image = [file \in Parts |-> NotRead]
    BY DEF Init, Parts, NotRead
  <2>2. \A file \in Parts : NotRead \in Origin(file)
    BY DEF Origin
  <2> HIDE DEF NotRead
  <2> QED
    BY <2>1, <2>2 DEF Placed
<1>5. HandOff
  <2>1. NoCode \in [Cluster -> 0 .. 255]
    BY DEF NoCode
  <2> HIDE DEF NoCode
  <2> QED
    BY <2>1 DEF Init, HandOff
<1> QED
  BY <1>1, <1>2, <1>3, <1>4, <1>5 DEF Typed

(* A call changes what it names; the rest keeps its type. *)
LEMMA CallKeeps ==
  ASSUME Typed, NEW name, Call(name), conf' \in Conf, Devices',
         UNCHANGED image \/ Placed', UNCHANGED <<csr, running, sharezone>> \/ HandOff'
  PROVE  Typed'
<1>1. InputsTyped' /\ Placed'
  BY Advance, SameOrigins DEF Typed
<1>2. HandOff'
  BY DEF Typed, HandOff
<1> QED
  BY <1>1, <1>2 DEF Typed

LEMMA TypedStep == Typed /\ [Next]_vars => Typed'
<1> SUFFICES ASSUME Typed, [Next]_vars
             PROVE  Typed'
  OBVIOUS
<1> USE DEF Typed
<1>0. /\ conf.div0 \in Divisor /\ conf.div \in Divisor
      /\ conf.socket_id \in {0, 1} /\ conf.socket_cnt \in {0, 1, 2}
      /\ Code \in [Cluster -> 0 .. 255]
  BY ConfParts
<1>1. CASE zsbl_set_bc_rom
  <2>1. plat_bc_fix(bootconf0) \in Conf
    BY FixTyped, RomTyped
  <2>2. /\ Call("zsbl_set_bc_rom") /\ conf' = plat_bc_fix(bootconf0)
        /\ UNCHANGED <<clock, uart, ssi, sent, flashReads>>
        /\ UNCHANGED image /\ UNCHANGED <<csr, running, sharezone>>
    BY <1>1 DEF zsbl_set_bc_rom, Do
  <2>3. Devices'
    BY <2>2 DEF Devices
  <2> QED
    BY <2>1, <2>2, <2>3, CallKeeps
<1>2. CASE zsbl_run_bist \/ fsbl_run_bist
  <2>1. /\ \E name : Call(name)
        /\ conf' = conf /\ UNCHANGED image /\ UNCHANGED <<csr, running, sharezone>>
        /\ Bist \/ UNCHANGED <<clock, uart, ssi, sent, flashReads>>
    BY <1>2 DEF zsbl_run_bist, fsbl_run_bist, Do, Bist
  <2>2. Devices'
    BY <2>1, BistTyped DEF Devices
  <2> QED
    BY <2>1, <2>2, CallKeeps
<1>3. CASE zsbl_init_console
  <2>1. /\ Call("zsbl_init_console") /\ uart' = conf.div0
        /\ sent' = sent \cup Prints(conf.div0, clock)
        /\ UNCHANGED <<conf, clock, ssi, flashReads>>
        /\ UNCHANGED image /\ UNCHANGED <<csr, running, sharezone>>
    BY <1>3 DEF zsbl_init_console, Do
  <2>2. Prints(conf.div0, clock) \subseteq Divisor \X Clock
    BY <1>0, Pairs DEF Devices
  <2>3. Devices'
    BY <1>0, <2>1, <2>2 DEF Devices
  <2> QED
    BY <2>1, <2>3, CallKeeps
<1>4. CASE storage_init
  <2>1. /\ Call("storage_init") /\ ssi' = (IF conf.flash_online THEN conf.div0 ELSE ssi)
        /\ UNCHANGED <<conf, clock, uart, sent, flashReads>>
        /\ UNCHANGED image /\ UNCHANGED <<csr, running, sharezone>>
    BY <1>4 DEF storage_init, Do
  <2>2. Devices'
    BY <1>0, <2>1 DEF Devices
  <2> QED
    BY <2>1, <2>2, CallKeeps
<1>5. CASE storage_probe
  <2>1. /\ Call("storage_probe")
        /\ flashReads' = (IF conf.flash_online THEN flashReads \cup Reads ELSE flashReads)
        /\ UNCHANGED <<conf, clock, uart, ssi, sent>>
        /\ UNCHANGED image /\ UNCHANGED <<csr, running, sharezone>>
    BY <1>5 DEF storage_probe, Do
  <2>2. Devices'
    BY <2>1, ReadsTyped DEF Devices
  <2> QED
    BY <2>1, <2>2, CallKeeps
<1>6. CASE storage_load_bc
  <2>1. /\ Call("storage_load_bc") /\ UNCHANGED <<clock, uart, ssi, sent>>
        /\ UNCHANGED <<csr, running, sharezone>>
    BY <1>6 DEF storage_load_bc, Do
  <2>2. CASE UNCHANGED <<conf, image, flashReads>>
    <3>1. Devices'
      BY <2>1, <2>2 DEF Devices
    <3> QED
      BY <2>1, <2>2, <3>1, CallKeeps
  <2>3. CASE /\ \E c \in FlashConf : conf' = plat_bc_fix(c)
             /\ image' = LoadBc
             /\ flashReads' = flashReads \cup Reads
    <3>1. conf' \in Conf
      BY <2>3, FixTyped, ConfAssumption DEF ConfAssumption
    <3>2. Devices'
      BY <2>1, <2>3, ReadsTyped DEF Devices
    <3>3. "bc" \in Parts
      BY DEF Parts
    <3>4. /\ LoadBc \in [Parts -> UNION {Origin(file) : file \in Parts}]
          /\ \A file \in Parts : LoadBc[file] \in Origin(file)
      <4>1. CASE build.bcAtPart0
        <5>1. LoadBc = [image EXCEPT !["bc"] = AtPart0]
          BY <4>1 DEF LoadBc, AtPart0
        <5>2. AtPart0 \in Origin("bc")
          BY DEF Origin
        <5> QED
          BY <3>3, <5>1, <5>2 DEF Placed
      <4>2. CASE ~build.bcAtPart0
        BY <3>3, <4>2, LoadPlaced DEF LoadBc
      <4> QED
        BY <4>1, <4>2
    <3>5. Placed'
      BY <2>1, <2>3, <3>4, SameOrigins DEF Placed
    <3> QED
      BY <2>1, <3>1, <3>2, <3>5, CallKeeps
  <2> QED
    BY <1>6, <2>2, <2>3 DEF storage_load_bc
<1>7. CASE storage_load_fsbl \/ storage_load_opensbi
  <2>1. /\ \E name : Call(name)
        /\ conf' = conf \/ conf' = Erased
        /\ UNCHANGED <<csr, running, sharezone>>
        /\ \/ \E file \in Parts : \E storage : gpt_load_part(file, storage)
           \/ UNCHANGED <<clock, uart, ssi, image, sent, flashReads>>
    <3>1. "fsbl" \in Parts /\ "opensbi" \in Parts
      BY DEF Parts
    <3> QED
      BY <1>7, <3>1 DEF storage_load_fsbl, storage_load_opensbi, Do, gpt_load_part
  <2>4. conf' \in Conf
    BY <2>1, ErasedTyped
  <2>2. CASE UNCHANGED <<clock, uart, ssi, image, sent, flashReads>>
    <3>1. Devices'
      BY <2>2 DEF Devices
    <3> QED
      BY <2>1, <2>2, <2>4, <3>1, CallKeeps
  <2>3. CASE \E file \in Parts : \E storage : gpt_load_part(file, storage)
    <3>0. PICK file \in Parts : \E storage : gpt_load_part(file, storage)
      BY <2>3
    <3>1. PICK storage : gpt_load_part(file, storage)
      BY <3>0
    <3>2. Devices'
      BY <3>1, LoadTyped
    <3>3. image' = Load(file, storage)
      BY <3>1 DEF gpt_load_part
    <3>4. Placed'
      BY <2>1, <3>3, LoadPlaced, SameOrigins DEF Placed
    <3> QED
      BY <2>1, <2>4, <3>2, <3>4, CallKeeps
  <2> QED
    BY <2>1, <2>2, <2>3
<1>8. CASE plat_clock_init
  <2>1. /\ Call("plat_clock_init") /\ clock' = "pll" /\ uart' = conf.div /\ ssi' = conf.div
        /\ sent' = sent \cup FirstMessage \cup Prints(conf.div, "pll")
        /\ UNCHANGED <<conf, flashReads>>
        /\ UNCHANGED image /\ UNCHANGED <<csr, running, sharezone>>
    BY <1>8 DEF plat_clock_init, Do
  <2>2. "pll" \in Clock
    BY DEF Clock
  <2>3. /\ Prints(conf.div, "pll") \subseteq Divisor \X Clock
        /\ Prints(uart, clock) \subseteq Divisor \X Clock
    BY <1>0, <2>2, Pairs DEF Devices
  <2>4. Devices'
    BY <1>0, <2>1, <2>2, <2>3 DEF Devices, FirstMessage
  <2> QED
    BY <2>1, <2>4, CallKeeps
<1>9. CASE zsbl_print_bc \/ fsbl_first_print
  <2>1. /\ \E name : Call(name)
        /\ conf' = conf /\ UNCHANGED image /\ UNCHANGED <<csr, running, sharezone>>
        /\ \E platforms : Message(platforms)
    BY <1>9 DEF zsbl_print_bc, fsbl_first_print, Do, Message
  <2>2. Devices'
    BY <2>1, MessageTyped
  <2> QED
    BY <2>1, <2>2, CallKeeps
<1>10. CASE plat_setup_pg \/ plat_start_pc \/ plat_setup_sz
  <2>1. /\ \E name : Call(name)
        /\ conf' = conf /\ UNCHANGED image
        /\ \E platforms : Message(platforms)
    BY <1>10 DEF plat_setup_pg, plat_start_pc, plat_setup_sz, Message
  <2>2. Devices'
    BY <2>1, MessageTyped
  <2>3. HandOff'
    <3>1. CASE plat_setup_pg
      BY <1>0, <3>1 DEF plat_setup_pg, HandOff
    <3>2. CASE plat_start_pc
      BY <3>2, StartedTyped DEF plat_start_pc, HandOff
    <3>3. CASE plat_setup_sz
      <4> DEFINE slots == [sharezone.code EXCEPT ![conf.socket_id] = Code]
      <4>1. slots \in [{0, 1} -> [Cluster -> 0 .. 255]]
        BY <1>0 DEF HandOff
      <4>2. /\ UNCHANGED <<csr, running>>
            /\ sharezone' = [cnt |-> conf.socket_cnt, code |-> slots] \/ sharezone' = sharezone
        BY <3>3 DEF plat_setup_sz
      <4> HIDE DEF slots
      <4> QED
        BY <1>0, <4>1, <4>2 DEF HandOff
    <3> QED
      BY <1>10, <3>1, <3>2, <3>3
  <2> QED
    BY <2>1, <2>2, <2>3, CallKeeps
<1>11. CASE UNCHANGED vars
  <2>1. /\ UNCHANGED <<build, pc, mode, socket, disk>> /\ conf' = conf
        /\ UNCHANGED <<clock, uart, ssi, sent, flashReads>>
        /\ image' = image /\ UNCHANGED <<csr, running, sharezone>>
    BY <1>11 DEF vars
  <2>2. InputsTyped'
    BY <2>1 DEF InputsTyped, Program, ZsblCalls, FsblCalls, Modes
  <2>3. \A file \in Parts : Origin(file)' = Origin(file)
    BY <2>1 DEF Origin, NotRead, FromTable, AtPart0, StorageOffset
  <2>4. Placed'
    BY <2>1, <2>3 DEF Placed
  <2> QED
    BY <2>1, <2>2, <2>4 DEF Devices, HandOff
<1> QED
  BY <1>1, <1>2, <1>3, <1>4, <1>5, <1>6, <1>7, <1>8, <1>9, <1>10, <1>11 DEF Next

------------------------------------------------------------------------------
(* Every variable keeps its type: the invariant is inductive as it stands.  *)
THEOREM TypedInductive == Spec => []Typed
  BY TypedStart, TypedStep, PTL DEF Spec

(* What a load has read lies on the medium, behind ZSBL on off-chip ROM.    *)
LEMMA OriginTyped ==
  ASSUME InputsTyped, NEW file \in Parts, NEW place \in Origin(file)
  PROVE  place \in [from : {"ram", "FLASH", "ROM_OFFCHIP"},
                    offset : 0 .. RomSize(build.platform) + Capacity, size : 0 .. Capacity]
<1>1. Medium(disk)
  BY ConfAssumption DEF ConfAssumption, InputsTyped
<1>2. Part[file] \in 0 .. 3
  BY DEF Parts, Part
<1>3. RomSize(build.platform) \in Nat /\ Capacity \in Nat
  BY DEF RomSize, Capacity
<1>4. /\ Extent(disk, Part[file]).offset \in 0 .. Capacity
      /\ Extent(disk, Part[file]).size \in 0 .. Capacity
  BY <1>1, <1>2, ExtentOnMedium
<1>5. ASSUME NEW storage \in {"FLASH", "ROM_OFFCHIP"}
      PROVE  FromTable(file, storage) \in
               [from : {"ram", "FLASH", "ROM_OFFCHIP"},
                offset : 0 .. RomSize(build.platform) + Capacity, size : 0 .. Capacity]
  <2> DEFINE offset == StorageOffset(storage) + Extent(disk, Part[file]).offset
  <2>1. StorageOffset(storage) \in 0 .. RomSize(build.platform)
    BY <1>3 DEF StorageOffset
  <2>2. offset \in 0 .. RomSize(build.platform) + Capacity
    BY <1>3, <1>4, <2>1
  <2>3. FromTable(file, storage) =
          [from |-> storage, size |-> Extent(disk, Part[file]).size, offset |-> offset]
    BY DEF FromTable
  <2> HIDE DEF offset
  <2> QED
    BY <1>4, <2>2, <2>3
<1>6. NotRead \in [from : {"ram", "FLASH", "ROM_OFFCHIP"},
                   offset : 0 .. RomSize(build.platform) + Capacity, size : 0 .. Capacity]
  BY <1>3 DEF NotRead
<1>7. AtPart0 \in [from : {"ram", "FLASH", "ROM_OFFCHIP"},
                   offset : 0 .. RomSize(build.platform) + Capacity, size : 0 .. Capacity]
  <2>1. /\ GPT_PART_0_OFFSET \in 0 .. RomSize(build.platform) + Capacity
        /\ BootConfSize \in 0 .. Capacity
    <3>1. GPT_PART_0_OFFSET = 1048576 /\ BootConfSize = 24
      BY DEF GPT_PART_0_OFFSET, BootConfSize, Sector
    <3>2. Capacity >= 1048576
      BY DEF Capacity
    <3> QED
      BY <1>3, <3>1, <3>2
  <2> QED
    BY <2>1 DEF AtPart0
<1> QED
  BY <1>5, <1>6, <1>7 DEF Origin

(* The types of all variables, for every build, configuration and medium.   *)
THEOREM TypeCorrect == Spec => []TypeOK
<1>1. Typed => TypeOK
  <2> SUFFICES ASSUME Typed
               PROVE  TypeOK
    OBVIOUS
  <2>1. image \in [Parts -> [from : {"ram", "FLASH", "ROM_OFFCHIP"},
                             offset : 0 .. RomSize(build.platform) + Capacity,
                             size : 0 .. Capacity]]
    BY OriginTyped DEF Typed, Placed
  <2> QED
    BY <2>1 DEF Typed, InputsTyped, Devices, HandOff, TypeOK, Parts
<1> QED
  BY <1>1, TypedInductive, PTL

(* The interval of a file: for a file that the medium has, from its first   *)
(* sector to the end of its padding, or its bytes alone.                    *)
LEMMA Covers ==
  ASSUME Typed, NEW file \in Parts, image[file].from # "ram",
         NEW n, n = Part[file] + 1, n <= Len(disk)
  PROVE  /\ n \in 1 .. Len(disk)
         /\ image[file].offset - StorageOffset(image[file].from) = FirstLba(disk)[n] * Sector
         /\ image[file].size \in {disk[n], Padded(disk[n])}
<1>1. Medium(disk) /\ disk[1] = BootConfSize
  BY ConfAssumption DEF ConfAssumption, Typed, InputsTyped
<1>2. Part[file] \in 0 .. 3 /\ n \in 1 .. Len(disk)
  BY <1>1 DEF Parts, Part, Medium
<1>3. Extent(disk, Part[file]) = [offset |-> FirstLba(disk)[n] * Sector,
                                  size |-> Padded(disk[n])]
  BY <1>1, <1>2, ExtentOfFile
<1>4. FirstLba(disk)[n] * Sector \in Nat
  <2>1. n \in 1 .. Len(disk) + 1
    BY <1>1, <1>2 DEF Medium
  <2>2. FirstLba(disk)[n] \in Nat
    BY <1>1, <2>1, Firsts
  <2> QED
    BY <2>2 DEF Sector
<1>5. image[file] \in Origin(file)
  BY DEF Typed, Placed
<1>6. ASSUME NEW storage, image[file] = FromTable(file, storage)
      PROVE  /\ image[file].offset - StorageOffset(image[file].from) = FirstLba(disk)[n] * Sector
             /\ image[file].size \in {disk[n], Padded(disk[n])}
  <2> DEFINE at == FirstLba(disk)[n] * Sector
             behind == StorageOffset(storage)
  <2>1. behind \in Nat
    BY DEF StorageOffset, RomSize
  <2>2. /\ image[file].from = storage /\ image[file].size = Padded(disk[n])
        /\ image[file].offset = behind + at
    BY <1>3, <1>6 DEF FromTable
  <2> HIDE DEF at, behind
  <2>3. (behind + at) - behind = at
    BY <1>4, <2>1 DEF at
  <2>4. StorageOffset(image[file].from) = behind
    BY <2>2 DEF behind
  <2>5. image[file].offset - StorageOffset(image[file].from) = at
    BY <2>2, <2>3, <2>4
  <2> QED
    BY <2>2, <2>5 DEF at
<1>7. CASE file = "bc" /\ image[file] = AtPart0
  <2>1. n = 1 /\ FirstLba(disk)[n] = 2048 /\ disk[n] = BootConfSize
    BY <1>1, <1>7, Firsts DEF Part
  <2>2. /\ image[file].offset = GPT_PART_0_OFFSET /\ image[file].from = "FLASH"
        /\ image[file].size = BootConfSize
    BY <1>7 DEF AtPart0
  <2>3. StorageOffset("FLASH") = 0
    BY DEF StorageOffset
  <2>4. GPT_PART_0_OFFSET - 0 = FirstLba(disk)[n] * Sector
    BY <2>1 DEF GPT_PART_0_OFFSET, Sector
  <2> QED
    BY <2>1, <2>2, <2>3, <2>4
<1>8. image[file] # NotRead
  BY DEF NotRead
<1> QED
  BY <1>2, <1>5, <1>6, <1>7, <1>8 DEF Origin

(* A file that was loaded is the whole file of that name, from its first    *)
(* byte, and nothing of another: the layout of mkimg.sh, the table lookup of *)
(* gpt_load_part and the fixed place of the configuration agree on every    *)
(* medium.                                                                  *)
THEOREM FilesWhole == Spec => []ImageWhole
<1>1. Typed => ImageWhole
  <2> SUFFICES ASSUME Typed, NEW file \in Parts, image[file].from # "ram",
                      NEW n, n = Part[file] + 1, n <= Len(disk),
                      NEW start, start = image[file].offset - StorageOffset(image[file].from),
                      NEW end, end = start + image[file].size
               PROVE  /\ Holds(disk, start) = {<<n, 0>>}
                      /\ disk[n] <= image[file].size
                      /\ \A m \in 1 .. Len(disk) \ {n} :
                           \/ FirstLba(disk)[m] * Sector >= end
                           \/ FirstLba(disk)[m] * Sector + disk[m] <= start
    BY DEF ImageWhole, Parts
  <2>1. Medium(disk)
    BY ConfAssumption DEF ConfAssumption, Typed, InputsTyped
  <2>2. /\ n \in 1 .. Len(disk) /\ start = FirstLba(disk)[n] * Sector
        /\ image[file].size \in {disk[n], Padded(disk[n])}
    BY Covers
  <2>3. \A k \in 1 .. Len(disk) :
          /\ k \in 1 .. Len(disk) + 1 /\ disk[k] \in Nat
          /\ Padded(disk[k]) \in Nat /\ disk[k] <= Padded(disk[k])
          /\ FirstLba(disk)[k] * Sector \in Nat
    <3> TAKE k \in 1 .. Len(disk)
    <3>1. k \in 1 .. Len(disk) + 1 /\ disk[k] \in Nat
      BY <2>1 DEF Medium
    <3>2. FirstLba(disk)[k] \in Nat
      BY <2>1, <3>1, Firsts
    <3>3. Padded(disk[k]) \in Nat /\ disk[k] <= Padded(disk[k])
      BY <3>1, PaddedWhole
    <3>4. FirstLba(disk)[k] * Sector \in Nat
      BY <3>2 DEF Sector
    <3> QED
      BY <3>1, <3>3, <3>4
  <2>4. Holds(disk, start) = {<<n, 0>>}
    BY <2>1, <2>2, FirstByte
  <2>5. disk[n] <= image[file].size /\ end \in Nat /\ end <= start + Padded(disk[n])
    <3> DEFINE size == image[file].size
               padded == Padded(disk[n])
    <3>1. /\ start \in Nat /\ disk[n] \in Nat /\ padded \in Nat /\ disk[n] <= padded
          /\ size = disk[n] \/ size = padded
          /\ end = start + size
      BY <2>2, <2>3
    <3> HIDE DEF size, padded
    <3>2. disk[n] <= size /\ end \in Nat /\ end <= start + padded
      BY <3>1
    <3> QED
      BY <3>2 DEF size, padded
  <2>6. ASSUME NEW m \in 1 .. Len(disk) \ {n}
        PROVE  \/ FirstLba(disk)[m] * Sector >= end
               \/ FirstLba(disk)[m] * Sector + disk[m] <= start
    <3>1. CASE m < n
      <4>1. FirstLba(disk)[m] * Sector + Padded(disk[m]) <= FirstLba(disk)[n] * Sector
        BY <2>1, <2>2, <2>3, <3>1, Apart
      <4> DEFINE At(k) == FirstLba(disk)[k] * Sector
      <4> HIDE DEF At
      <4>2. At(m) \in Nat /\ start \in Nat /\ At(m) + Padded(disk[m]) <= start
        BY <2>2, <2>3, <4>1 DEF At
      <4>3. At(m) + disk[m] <= start
        BY <2>3, <4>2
      <4> QED
        BY <4>3 DEF At
    <3>2. CASE n < m
      <4>1. FirstLba(disk)[n] * Sector + Padded(disk[n]) <= FirstLba(disk)[m] * Sector
        BY <2>1, <2>2, <2>3, <3>2, Apart
      <4> DEFINE At(k) == FirstLba(disk)[k] * Sector
      <4> HIDE DEF At
      <4>2. /\ At(m) \in Nat /\ start \in Nat
            /\ start + Padded(disk[n]) <= At(m)
        BY <2>2, <2>3, <4>1 DEF At
      <4>3. end <= At(m)
        BY <2>2, <2>3, <2>5, <4>2
      <4> QED
        BY <4>2, <4>3 DEF At
    <3>3. m < n \/ n < m
      BY <2>1, <2>2 DEF Medium
    <3> QED
      BY <3>1, <3>2, <3>3
  <2> QED
    BY <2>4, <2>5, <2>6
<1> QED
  BY <1>1, TypedInductive, PTL

------------------------------------------------------------------------------
(* Before FSBL is loaded nothing of it is in RAM; when it has spilled the    *)
(* configuration is gone, and no later call writes one.                     *)
Lost ==
  /\ ~Done("storage_load_fsbl") => image["fsbl"].from = "ram" /\ ~Spills(image)
  /\ Spills(image) => conf = Erased

LEMMA LostStart == Init => Lost
<1> SUFFICES ASSUME Init
             PROVE  Lost
  OBVIOUS
<1>1. build.platform \in {"apple", "grape", "banana"}
  BY ConfAssumption DEF ConfAssumption, Init, Build
<1>2. image["fsbl"].size = 0 /\ image["fsbl"].from = "ram"
  BY DEF Init
<1> QED
  BY <1>1, <1>2 DEF Lost, Spills, FsblRoom

(* Any call but the one that loads FSBL. *)
LEMMA LostKept ==
  ASSUME Given, Lost, NEW call, Call(call), image'["fsbl"] = image["fsbl"],
         \/ conf' = conf
         \/ call \in {"zsbl_set_bc_rom", "storage_load_bc"}
  PROVE  Lost'
<1>1. Spills(image)' <=> Spills(image)
  BY DEF Spills, Call
<1>2. Done("storage_load_fsbl") => Done("storage_load_fsbl")'
  BY DoneGrows
<1>3. ASSUME call \in {"zsbl_set_bc_rom", "storage_load_bc"}
      PROVE  ~Done("storage_load_fsbl")
  <2>1. /\ "storage_load_fsbl" \in Names /\ "zsbl_set_bc_rom" \in Names
        /\ "storage_load_bc" \in Names
    BY DEF Names
  <2>2. High(call) \in {1, 7}
    BY <1>3, <2>1, Ranks
  <2> QED
    BY <1>3, <2>1, <2>2, Ranks, NotYet
<1> QED
  BY <1>1, <1>2, <1>3, Blank DEF Lost

LEMMA LostStep == IInv /\ Lost /\ [Next]_vars => Lost'
<1> SUFFICES ASSUME IInv, Lost, [Next]_vars
             PROVE  Lost'
  OBVIOUS
<1>0. Given /\ DOMAIN image = Parts
  BY DEF IInv
<1>1. CASE storage_load_fsbl
  <2>1. Call("storage_load_fsbl") /\ conf' = IF Spills(image') THEN Erased ELSE conf
    BY <1>1 DEF storage_load_fsbl, Do
  <2>2. Done("storage_load_fsbl")'
    BY <1>0, <2>1, DoneGrows
  <2>3. Spills(image)' <=> Spills(image')
    BY <2>1 DEF Call, Spills
  <2> QED
    BY <2>1, <2>2, <2>3, Blank DEF Lost
<1>2. CASE storage_load_bc
  <2>1. Call("storage_load_bc") /\ (image' = image \/ image' = LoadBc)
    BY <1>2 DEF storage_load_bc, Do
  <2>2. image'["fsbl"] = image["fsbl"]
    BY <1>0, <2>1, LoadsBc
  <2> QED
    BY <1>0, <2>1, <2>2, LostKept
<1>3. CASE storage_load_opensbi
  <2>1. /\ Call("storage_load_opensbi") /\ conf' = conf
        /\ image' = image \/ image' = Load("opensbi", conf.storage_opensbi)
    BY <1>3 DEF storage_load_opensbi, Do, gpt_load_part
  <2>2. "opensbi" \in Parts /\ "opensbi" # "fsbl"
    BY DEF Parts
  <2>3. image'["fsbl"] = image["fsbl"]
    BY <1>0, <2>1, <2>2, Loads
  <2> QED
    BY <1>0, <2>1, <2>3, LostKept
<1>4. CASE zsbl_set_bc_rom
  BY <1>0, <1>4, LostKept DEF zsbl_set_bc_rom, Do
<1>5. CASE \/ zsbl_run_bist \/ zsbl_init_console \/ storage_init \/ storage_probe
           \/ plat_clock_init \/ fsbl_run_bist
  <2>1. (\E call : Call(call)) /\ conf' = conf /\ image' = image
    BY <1>5 DEF zsbl_run_bist, zsbl_init_console, storage_init, storage_probe,
                plat_clock_init, fsbl_run_bist, Bist, Do
  <2> QED
    BY <1>0, <2>1, LostKept
<1>6. CASE zsbl_print_bc \/ fsbl_first_print \/ plat_setup_pg \/ plat_start_pc \/ plat_setup_sz
  <2>1. (\E call : Call(call)) /\ conf' = conf /\ image' = image
    BY <1>6 DEF zsbl_print_bc, fsbl_first_print, plat_setup_pg, plat_start_pc,
                plat_setup_sz, Message, Do
  <2> QED
    BY <1>0, <2>1, LostKept
<1>7. CASE UNCHANGED vars
  <2>1. UNCHANGED <<build, conf, image>>
    BY <1>7 DEF vars
  <2>2. Spills(image)' <=> Spills(image)
    BY <2>1 DEF Spills
  <2> QED
    BY <1>7, <2>1, <2>2, DoneStays, Blank DEF Lost
<1> QED
  BY <1>1, <1>2, <1>3, <1>4, <1>5, <1>6, <1>7 DEF Next

(* Padding leaves a room of whole blocks exactly when the bytes do. *)
LEMMA PaddedInRoom ==
  ASSUME NEW bytes \in Nat, NEW room \in Nat
  PROVE  Padded(bytes) > room <=> bytes > (room \div Block) * Block
<1>1. Padded(bytes) = ((bytes + 1023) \div 1024) * 1024 /\ Block = 1024
  BY DEF Padded, Block
<1>2. PICK blocks \in Nat, rest \in 0 .. 1023 :
        bytes + 1023 = blocks * 1024 + rest /\ (bytes + 1023) \div 1024 = blocks
  OBVIOUS
<1>3. PICK whole \in Nat, left \in 0 .. 1023 :
        room = whole * 1024 + left /\ room \div 1024 = whole
  OBVIOUS
<1>4. blocks * 1024 > room <=> blocks > whole
  BY <1>3
<1>5. bytes > whole * 1024 <=> blocks > whole
  BY <1>2, <1>3
<1> QED
  BY <1>1, <1>2, <1>3, <1>4, <1>5

(* The configuration is lost exactly for the files that reach into the last, *)
(* incomplete block of the room, on every medium: gpt_load_part adds the     *)
(* zeros up to the next block and not one more, and nothing else spills.     *)
THEOREM ConfLost == Spec => []ConfLostExactly
<1>1. Typed /\ IInv /\ Lost => ConfLostExactly
  <2> SUFFICES ASSUME Typed, IInv, Lost, image["fsbl"].from # "ram"
               PROVE  conf = Erased <=> disk[3] > WholeBlocks(build.platform)
    BY DEF ConfLostExactly
  <2>1. Medium(disk) /\ build.platform \in {"apple", "grape", "banana"}
    BY ConfAssumption DEF ConfAssumption, Typed, InputsTyped, Build
  <2>2. /\ "fsbl" \in Parts /\ Part["fsbl"] = 2 /\ 3 <= Len(disk) /\ disk[3] \in Nat
        /\ FsblRoom(build.platform) \in Nat
    BY <2>1 DEF Parts, Part, Medium, FsblRoom
  <2>3. image["fsbl"].size = Padded(disk[3])
    <3>1. image["fsbl"].size = Extent(disk, 2).size
      BY <2>2 DEF Typed, Placed, Origin, NotRead, FromTable
    <3>2. 2 \in 0 .. 3 /\ 2 + 1 = 3
      OBVIOUS
    <3>3. Extent(disk, 2).size = Padded(disk[3])
      BY <2>1, <2>2, <3>2, ExtentOfFile
    <3> QED
      BY <3>1, <3>3
  <2>4. Spills(image) <=> disk[3] > WholeBlocks(build.platform)
    BY <2>2, <2>3, PaddedInRoom DEF Spills, WholeBlocks
  <2>5. pc > 0
    <3>1. Done("storage_load_fsbl")
      BY DEF Lost
    <3> QED
      BY <3>1, NothingDone DEF IInv, Given
  <2>6. ~Spills(image) => conf # Erased
    BY <2>5 DEF IInv, Fixed, Given, Erased
  <2> QED
    BY <2>4, <2>6 DEF Lost
<1> QED
  BY <1>1, TypedInductive, Inductive, LostStart, LostStep, PTL DEF Spec

==============================================================================
