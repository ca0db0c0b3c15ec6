---------------------------- MODULE BootConfProofs ----------------------------
(***************************************************************************)
(* Proofs about BootConf for every set of builds, every configuration in   *)
(* the flash and every boot medium: what the pins decide stays decided.    *)
(* The configuration in use is written twice, from ROM and from the flash, *)
(* and each time plat_bc_fix has the last word (Fixed); before the first   *)
(* time it is what an earlier boot left, and no call may look at it.  An   *)
(* FSBL whose padding spills erases it, and then it selects no storage.    *)
(***************************************************************************)
EXTENDS BootConf, TLAPS

Parts == {"bc", "fsbl", "opensbi"}

(* The inputs of a boot; only plat-apple has more than one socket.  *)
Given ==
  /\ build \in Builds /\ mode \in {"PRODUCT", "DEBUG", "BIST", "OFFCHIP"}
  /\ socket \in [id : {0, 1}, cnt : {1, 2}]
  /\ build.platform # "apple" => socket.id = 0 /\ socket.cnt = 1
  /\ build.platform # "apple" => mode # "OFFCHIP"
  /\ pc \in Nat

(* A configuration that plat_bc_fix has seen.  *)
Fixed(c) ==
  /\ c.socket_id = socket.id /\ c.socket_cnt = socket.cnt
  /\ mode = "DEBUG" => c.storage_fsbl \notin {"FLASH", "ROM_OFFCHIP"}

IInv ==
  /\ Given
  /\ pc > 0 => Fixed(conf) \/ (Spills(image) /\ conf = Erased)
  /\ DOMAIN image = Parts
  /\ mode = "DEBUG" => image["fsbl"].from = "ram"

------------------------------------------------------------------------------
(* ZSBL starts with the configuration of the ROM, in every build. *)
Names == {"zsbl_set_bc_rom", "zsbl_run_bist", "zsbl_init_console", "storage_init",
          "storage_probe", "storage_load_bc", "zsbl_print_bc", "storage_load_fsbl",
          "fsbl_first_print", "plat_clock_init", "plat_setup_pg", "plat_start_pc",
          "fsbl_run_bist", "plat_setup_sz", "storage_load_opensbi"}

LEMMA Literals ==
  ASSUME NEW S
  PROVE  /\ <<>> \in Seq(S)
         /\ \A x \in S : <<x>> \in Seq(S)
         /\ \A x, y \in S : <<x, y>> \in Seq(S)
         /\ \A x, y, z \in S : <<x, y, z>> \in Seq(S)
  OBVIOUS

LEMMA Concatenation ==
  ASSUME NEW S, NEW s \in Seq(S), NEW t \in Seq(S), s # <<>>
  PROVE  s \o t \in Seq(S) /\ s \o t # <<>> /\ (s \o t)[1] = s[1]
<1>1. Len(s) \in Nat /\ Len(t) \in Nat /\ Len(s) # 0
  OBVIOUS
<1>2. Len(s \o t) = Len(s) + Len(t)
  OBVIOUS
<1>3. s \o t # <<>>
  <2>1. Len(s \o t) # 0
    BY <1>1, <1>2
  <2> QED
    BY <2>1
<1> QED
  BY <1>1, <1>2, <1>3

LEMMA Optional ==
  /\ If(build.pcActsAsMc, "zsbl_run_bist") \in Seq(Names)
  /\ If(build.clockInZsbl, "plat_clock_init") \in Seq(Names)
  /\ If(build.storageProbe, "storage_probe") \in Seq(Names)
  /\ If(~build.clockInZsbl, "plat_clock_init") \in Seq(Names)
  /\ If(build.storageProbe /\ ~build.pcActsAsMc, "storage_probe") \in Seq(Names)
  /\ If(build.pcActsAsMc \/ build.platform # "banana", "fsbl_run_bist") \in Seq(Names)
  /\ (IF build.pcActsAsMc THEN <<>> ELSE <<"plat_setup_pg", "plat_start_pc">>) \in Seq(Names)
<1>1. /\ <<>> \in Seq(Names) /\ <<"zsbl_run_bist">> \in Seq(Names)
      /\ <<"plat_clock_init">> \in Seq(Names) /\ <<"storage_probe">> \in Seq(Names)
      /\ <<"fsbl_run_bist">> \in Seq(Names)
      /\ <<"plat_setup_pg", "plat_start_pc">> \in Seq(Names)
  BY Literals DEF Names
<1> QED
  BY <1>1 DEF If

LEMMA FirstCall ==
  /\ ZsblCalls \in Seq(Names) /\ Len(ZsblCalls) \in Nat /\ Len(ZsblCalls) > 0
  /\ Program \in Seq(Names) /\ Len(Program) \in Nat
  /\ Program[1] = "zsbl_set_bc_rom"
<1> DEFINE a == <<"zsbl_set_bc_rom">>
           b == a \o If(build.pcActsAsMc, "zsbl_run_bist")
           c == b \o If(build.clockInZsbl, "plat_clock_init")
           d == c \o <<"zsbl_init_console", "storage_init">>
           e == d \o If(build.storageProbe, "storage_probe")
           f == e \o <<"storage_load_bc", "zsbl_print_bc", "storage_load_fsbl">>
           First(s) == s \in Seq(Names) /\ s # <<>> /\ s[1] = "zsbl_set_bc_rom"
<1>1. ZsblCalls = f
  BY DEF ZsblCalls
<1>2. First(a)
  BY Literals DEF Names
<1>3. First(b)
  BY <1>2, Optional, Concatenation
<1>4. First(c)
  BY <1>3, Optional, Concatenation
<1>5. First(d)
  <2>1. <<"zsbl_init_console", "storage_init">> \in Seq(Names)
    BY Literals DEF Names
  <2> QED
    BY <1>4, <2>1, Concatenation
<1>6. First(e)
  BY <1>5, Optional, Concatenation
<1>7. First(f)
  <2>1. <<"storage_load_bc", "zsbl_print_bc", "storage_load_fsbl">> \in Seq(Names)
    BY Literals DEF Names
  <2> QED
    BY <1>6, <2>1, Concatenation
<1>8. FsblCalls \in Seq(Names)
  <2>1. /\ <<"fsbl_first_print">> \in Seq(Names)
        /\ <<"plat_setup_sz", "storage_load_opensbi">> \in Seq(Names)
    BY Literals DEF Names
  <2> QED
    BY <2>1, Optional DEF FsblCalls
<1> HIDE DEF f
<1>9. First(Program)
  BY <1>1, <1>7, <1>8, Concatenation DEF Program
<1>10. \A s \in Seq(Names) : Len(s) \in Nat
  OBVIOUS
<1> QED
  BY <1>1, <1>7, <1>9, <1>10

(* Only the first call is made of a configuration that was not fixed up. *)
LEMMA LaterCall ==
  ASSUME Given, NEW name, Call(name), name # "zsbl_set_bc_rom"
  PROVE  pc > 0
<1>1. CASE pc = 0
  BY <1>1, FirstCall DEF Call
<1> QED
  BY <1>1 DEF Given

------------------------------------------------------------------------------
(* The three platforms' plat_bc_fix. *)
LEMMA FixApple ==
  ASSUME Given, build.platform = "apple", NEW c \in Conf
  PROVE  Fixed(plat_bc_fix_apple(c))
<1>1. FixMode_apple(c) \in Conf
  BY DEF Given, FixMode_apple, FromMemory, Conf, Storage, Flag
<1>2. mode = "DEBUG" => FixMode_apple(c).storage_fsbl = "RAM_ONCHIP"
  BY DEF FixMode_apple, FromMemory, Conf
<1> QED
  BY <1>1, <1>2 DEF plat_bc_fix_apple, Fixed, Conf

LEMMA FixGrape ==
  ASSUME Given, build.platform = "grape", NEW c \in Conf, c.socket_id = 0
  PROVE  Fixed(plat_bc_fix_grape(c))
  BY DEF Given, plat_bc_fix_grape, FromMemory, Fixed, Conf

LEMMA FixBanana ==
  ASSUME Given, build.platform = "banana", NEW c \in Conf, c.socket_id = 0
  PROVE  Fixed(plat_bc_fix_banana(c))
  BY DEF Given, plat_bc_fix_banana, Fixed, Conf

LEMMA Fix ==
  ASSUME Given, NEW c \in Conf, c.socket_id = 0
  PROVE  Fixed(plat_bc_fix(c))
<1>1. build.platform \in {"apple", "grape", "banana"}
  BY ConfAssumption DEF ConfAssumption, Given, Build
<1> QED
  BY <1>1, FixApple, FixGrape, FixBanana DEF plat_bc_fix

LEMMA RomConf == Given => bootconf0 \in Conf /\ bootconf0.socket_id = 0
  BY DEF bootconf0, NoCode, Conf, Storage, Flag, Clock, Divisor, Cluster

------------------------------------------------------------------------------
(* The initial states, and the steps. *)
LEMMA Start == Init => IInv
<1> SUFFICES ASSUME Init
             PROVE  IInv
  OBVIOUS
<1>1. Given
  <2>1. build.platform # "apple" => mode # "OFFCHIP"
    BY ConfAssumption DEF ConfAssumption, Init, Modes, Build
  <2>2. mode \in {"PRODUCT", "DEBUG", "BIST", "OFFCHIP"}
    BY ConfAssumption DEF ConfAssumption, Init, Modes, Build
  <2>3. /\ socket \in [id : {0, 1}, cnt : {1, 2}]
        /\ build.platform # "apple" => socket.id = 0 /\ socket.cnt = 1
    BY DEF Init
  <2> QED
    BY <2>1, <2>2, <2>3 DEF Init, Given
<1>2. image["fsbl"].from = "ram" /\ DOMAIN image = Parts
  BY DEF Init, Parts
<1> QED
  BY <1>1, <1>2 DEF Init, IInv

(* The inputs are read by every call and changed by none. *)
LEMMA Inputs ==
  ASSUME Given, NEW name, Call(name)
  PROVE  /\ Given'
         /\ pc' > 0
         /\ \A c : Fixed(c)' <=> Fixed(c)
         /\ \A img : Spills(img)' <=> Spills(img)
  BY DEF Given, Call, Fixed, Spills

(* A call that leaves the configuration and the FSBL alone. *)
LEMMA Quiet ==
  ASSUME IInv, NEW name, Call(name), name # "zsbl_set_bc_rom",
         conf' = conf, DOMAIN image' = Parts, image'["fsbl"] = image["fsbl"]
  PROVE  IInv'
<1>1. Given' /\ pc > 0
  BY Inputs, LaterCall DEF IInv
<1>2. Fixed(conf)' \/ (Spills(image) /\ conf = Erased)'
  BY <1>1 DEF IInv, Call, Fixed, Spills, Erased, NoCode
<1>3. mode' = mode
  BY DEF Call
<1> QED
  BY <1>1, <1>2, <1>3 DEF IInv

(* Another file is loaded, or none: gpt_load_part writes its own place. *)
LEMMA Loads ==
  ASSUME DOMAIN image = Parts, NEW part \in Parts, NEW storage
  PROVE  /\ DOMAIN Load(part, storage) = Parts
         /\ part # "fsbl" \/ storage \notin {"FLASH", "ROM_OFFCHIP"}
              => Load(part, storage)["fsbl"] = image["fsbl"]
  BY DEF Load, Parts

LEMMA LoadsBc ==
  ASSUME DOMAIN image = Parts
  PROVE  DOMAIN LoadBc = Parts /\ LoadBc["fsbl"] = image["fsbl"]
<1>1. "bc" \in Parts /\ "bc" # "fsbl"
  BY DEF Parts
<1>2. /\ DOMAIN Load("bc", conf.storage_bc) = Parts
      /\ Load("bc", conf.storage_bc)["fsbl"] = image["fsbl"]
  BY <1>1, Loads
<1> QED
  BY <1>1, <1>2 DEF LoadBc, Parts

LEMMA Step == IInv /\ [Next]_vars => IInv'
<1> SUFFICES ASSUME IInv, [Next]_vars
             PROVE  IInv'
  OBVIOUS
<1>1. CASE zsbl_set_bc_rom
  <2>1. Given /\ Call("zsbl_set_bc_rom") /\ conf' = plat_bc_fix(bootconf0) /\ image' = image
    BY <1>1 DEF IInv, zsbl_set_bc_rom, Do
  <2>2. Fixed(plat_bc_fix(bootconf0))
    BY <2>1, RomConf, Fix
  <2>3. Fixed(conf)'
    BY <2>1, <2>2 DEF Call, Fixed
  <2> QED
    BY <2>1, <2>3, Inputs DEF IInv, Call
<1>2. CASE storage_load_bc
  <2>1. Given /\ Call("storage_load_bc") /\ DOMAIN image = Parts
    BY <1>2 DEF IInv, storage_load_bc, Do
  <2>2. CASE UNCHANGED <<conf, image>>
    BY <2>1, <2>2, Quiet
  <2>3. CASE /\ \E c \in FlashConf : conf' = plat_bc_fix(c)
             /\ image' = LoadBc
    <3>1. PICK c \in FlashConf : conf' = plat_bc_fix(c)
      BY <2>3
    <3>2. c \in Conf /\ c.socket_id = 0
      BY ConfAssumption DEF ConfAssumption
    <3>3. Fixed(plat_bc_fix(c))
      BY <2>1, <3>2, Fix
    <3>4. Fixed(conf)'
      BY <2>1, <3>1, <3>3 DEF Call, Fixed
    <3>5. DOMAIN LoadBc = Parts /\ LoadBc["fsbl"] = image["fsbl"]
      BY <2>1, LoadsBc
    <3>6. Given' /\ pc' > 0 /\ mode' = mode
      BY <2>1, Inputs DEF Call
    <3> QED
      BY <2>3, <3>4, <3>5, <3>6 DEF IInv
  <2> QED
    BY <1>2, <2>2, <2>3 DEF storage_load_bc
<1>3. CASE storage_load_fsbl
  <2>1. /\ Given /\ Call("storage_load_fsbl") /\ DOMAIN image = Parts
        /\ image' = Load("fsbl", conf.storage_fsbl)
        /\ conf' = IF Spills(image') THEN Erased ELSE conf
    BY <1>3 DEF IInv, storage_load_fsbl, Do, gpt_load_part
  <2>2. /\ Given' /\ pc' > 0 /\ mode' = mode
        /\ Fixed(conf) \/ (Spills(image) /\ conf = Erased)
    BY <2>1, Inputs, LaterCall DEF IInv, Call
  <2>3. "fsbl" \in Parts
    BY DEF Parts
  <2>4. /\ DOMAIN image' = Parts
        /\ conf.storage_fsbl \notin {"FLASH", "ROM_OFFCHIP"} => image'["fsbl"] = image["fsbl"]
    BY <2>1, <2>3, Loads
  <2>5. mode = "DEBUG" => conf.storage_fsbl \notin {"FLASH", "ROM_OFFCHIP"}
    BY <2>2 DEF Fixed, Erased
  <2>6. build' = build
    BY <2>1 DEF Call
  <2>7. Fixed(conf)' \/ (Spills(image) /\ conf = Erased)'
    <3>1. CASE Spills(image')
      BY <2>1, <2>6, <3>1 DEF Spills, Erased, NoCode
    <3>2. CASE ~Spills(image')
      <4>1. conf' = conf
        BY <2>1, <3>2
      <4>2. ~(Spills(image) /\ conf = Erased)
        BY <2>4, <3>2 DEF Spills, Erased
      <4> QED
        BY <2>1, <2>2, <4>1, <4>2, Inputs DEF Fixed, Call
    <3> QED
      BY <3>1, <3>2
  <2> QED
    BY <2>2, <2>4, <2>5, <2>7 DEF IInv
<1>4. CASE storage_load_opensbi
  <2>1. /\ Call("storage_load_opensbi") /\ DOMAIN image = Parts /\ conf' = conf
        /\ image' = image \/ image' = Load("opensbi", conf.storage_opensbi)
    BY <1>4 DEF IInv, storage_load_opensbi, Do, gpt_load_part
  <2>2. "opensbi" \in Parts /\ "opensbi" # "fsbl"
    BY DEF Parts
  <2>3. DOMAIN image' = Parts /\ image'["fsbl"] = image["fsbl"]
    BY <2>1, <2>2, Loads
  <2> QED
    BY <2>1, <2>3, Quiet
<1>5. CASE zsbl_run_bist \/ fsbl_run_bist
  <2>1. /\ \E name : Call(name) /\ name # "zsbl_set_bc_rom"
        /\ UNCHANGED <<conf, image>>
    BY <1>5 DEF zsbl_run_bist, fsbl_run_bist, Do, Bist
  <2> QED
    BY <2>1, Quiet DEF IInv
<1>6. CASE zsbl_init_console \/ storage_init \/ storage_probe \/ plat_clock_init
  <2>1. /\ \E name : Call(name) /\ name # "zsbl_set_bc_rom"
        /\ UNCHANGED <<conf, image>>
    BY <1>6 DEF zsbl_init_console, storage_init, storage_probe, plat_clock_init, Do
  <2> QED
    BY <2>1, Quiet DEF IInv
<1>7. CASE \/ zsbl_print_bc \/ fsbl_first_print
           \/ plat_setup_pg \/ plat_start_pc \/ plat_setup_sz
  <2>1. /\ \E name : Call(name) /\ name # "zsbl_set_bc_rom"
        /\ UNCHANGED <<conf, image>>
    BY <1>7 DEF zsbl_print_bc, fsbl_first_print, plat_setup_pg, plat_start_pc,
                plat_setup_sz, Do, Message
  <2> QED
    BY <2>1, Quiet DEF IInv
<1>8. CASE UNCHANGED vars
  BY <1>8 DEF IInv, Given, Fixed, Spills, Erased, NoCode, vars
<1> QED
  BY <1>1, <1>2, <1>3, <1>4, <1>5, <1>6, <1>7, <1>8 DEF Next

------------------------------------------------------------------------------
(* The invariant holds: with it the properties are facts about one state.  *)
THEOREM Inductive == Spec => []IInv
  BY Start, Step, PTL DEF Spec

(* From the end of ZSBL the configuration names the socket that the pins    *)
(* name, for every configuration that the flash may hold: zsbl_set_bc_rom   *)
(* and storage_load_bc leave nothing that plat_bc_fix did not see, and only *)
(* an FSBL that spills takes it away.                                       *)
THEOREM SocketDecided == Spec => []SocketFromPins
<1>1. IInv => SocketFromPins
  <2> SUFFICES ASSUME IInv, pc >= Len(ZsblCalls), ~Spills(image)
               PROVE  conf.socket_id = socket.id /\ conf.socket_cnt = socket.cnt
    BY DEF SocketFromPins, InFsbl
  <2>1. pc > 0
    BY FirstCall DEF IInv, Given
  <2> QED
    BY <2>1 DEF IInv, Fixed
<1> QED
  BY <1>1, Inductive, PTL

(* A debug boot leaves the FSBL in RAM as the debugger put it there, in     *)
(* every build and for every configuration in the flash.                    *)
THEOREM DebugFsblKept == Spec => []DebugKeepsFsbl
<1>1. IInv => DebugKeepsFsbl
  BY DEF IInv, DebugKeepsFsbl
<1> QED
  BY <1>1, Inductive, PTL

==============================================================================
