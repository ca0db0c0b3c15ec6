------------------------------ MODULE HartBoot -------------------------------
(***************************************************************************)
(* Every core's way from reset to OpenSBI: zsbl_mc.S, zsbl_pc.S and fsbl.S.*)
(*                                                                         *)
(* A socket has one management core (MC) and a number of processor cores   *)
(* (PC).  The build chooses who prepares the machine:                      *)
(*   - PC_ACTS_AS_MC: all PCs leave reset by themselves; the one whose id  *)
(*     within the socket is 0 loads FSBL and releases the others through   *)
(*     the share word (plat-grape);                                        *)
(*   - MC_ACTS_AS_PC: the MC is alone and continues as a PC (plat-banana); *)
(*   - neither: the MC loads FSBL, prepares the board and then takes the   *)
(*     good PCs of its socket out of reset (plat-apple).                   *)
(* In FSBL the PCs pass three sections -- chiplink, share-zone, OpenSBI -- *)
(* that one elected hart executes while the others poll `_pc_stage'.       *)
(*                                                                         *)
(* On-chip RAM is private to a socket (each socket's bootconf holds that   *)
(* socket's id), so the share word and `_pc_stage', which is a word of the *)
(* FSBL image, are indexed by socket.  DDR is one address space.           *)
(***************************************************************************)
EXTENDS Integers, FiniteSets

CONSTANTS
  Core,        \* all cores, MCs and PCs
  Socket,      \* all sockets
  Socket0,     \* the socket that holds the hart with mhartid 0
  SocketOf,    \* the socket of a core
  McOf,        \* the MC of a socket: marchid = SOC_CORE_TYPE_MC
  LeaderOf,    \* the core with mhartid & SOC_CORE_HARTID_MASK_SOCKET = 0
  PcActsAsMc,  \* PC_ACTS_AS_MC is defined
  McActsAsPc,  \* MC_ACTS_AS_PC is defined
  BistOn,      \* work_mode makes fsbl_run_bist test serial and storage
  Preloaded    \* debug boot: FSBL and OpenSBI are already in memory

ASSUME BuildAssumption ==
  /\ PcActsAsMc \in BOOLEAN
  /\ McActsAsPc \in BOOLEAN
  /\ ~(PcActsAsMc /\ McActsAsPc)     \* the #error of fsbl.S
  /\ BistOn \in BOOLEAN
  /\ Preloaded \in BOOLEAN

ASSUME CoreAssumption ==
  /\ Socket0 \in Socket
  /\ SocketOf \in [Core -> Socket]
  /\ McOf \in [Socket -> Core]
  /\ LeaderOf \in [Socket -> Core]
  /\ \A s \in Socket : SocketOf[McOf[s]] = s /\ SocketOf[LeaderOf[s]] = s
  /\ \A s \in Socket : LeaderOf[s] = McOf[s] <=> McActsAsPc

VARIABLES
  pc,          \* what each core executes
  section,     \* the FSBL section a core is in: 1, 2 or 3
  good,        \* the PCs that the partial-good codes leave usable
  running,     \* the cores out of reset
  share,       \* the word at PLAT_RAM_SHARE_BASE of each socket
  stage,       \* `_pc_stage' of each socket
  fsbl,        \* the FSBL image is complete in each socket's RAM
  opensbi,     \* the OpenSBI image is complete in DDR
  ddrUp,       \* sockets whose plat_ddrctrl_init was done
  chiplinkUp,  \* sockets whose plat_chiplink_init was done
  shareZone    \* sockets whose words of the share-zone were written

vars == <<pc, section, good, running, share, stage, fsbl, opensbi,
          ddrUp, chiplinkUp, shareZone>>

------------------------------------------------------------------------------
IsMc(c) == c = McOf[SocketOf[c]]
IsLeader(c) == c = LeaderOf[SocketOf[c]]
Hart0 == LeaderOf[Socket0]
Pc == {c \in Core : ~IsMc(c)}

(* The core of a socket that runs the ZSBL functions. *)
Booter(s) == IF PcActsAsMc THEN LeaderOf[s] ELSE McOf[s]

(* The three sections of FSBL, in order; section k is entered with stage    *)
(* 2k-1 and left with stage 2k (FSBL_STAGE_*_START and *_END).              *)
Chiplink == 1
ShareZone == 2
OpenSbi == 3
Section == {Chiplink, ShareZone, OpenSbi}
StartStage(k) == 2 * k - 1
EndStage_Off(k) == 2 * k + 1          \* slip: stages counted from 1
EndStage(k) == 2 * k
Stage == 0 .. 6

(* Slip: section 3 is entered by every hart. *)
Elected_Unchecked(k, c) == IF k = OpenSbi THEN TRUE ELSE IsLeader(c)

(* One hart per socket runs sections 1 and 2, one hart of all section 3. *)
Elected(k, c) == IF k = OpenSbi THEN c = Hart0 ELSE IsLeader(c)

ZsblLabel == {"reset", "zsbl_funcs", "release", "wait_funcs_end", "goto_fsbl"}
SetupLabel == {"board_init", "run_bist", "mc_start", "start_pc",
               "mc_final", "mc_idle"}
SectionLabel == {"enter", "work", "publish", "wait"}
Label == ZsblLabel \cup SetupLabel \cup SectionLabel \cup {"goto_opensbi"}

Goto(c, label) == pc' = [pc EXCEPT ![c] = label]

(* RAM holds anything at power-on or after a restart, what an earlier boot  *)
(* left behind included; a preloaded FSBL image brings its `_pc_stage' = 0. *)
Init ==
  /\ pc = [c \in Core |-> "reset"]
  /\ section = [c \in Core |-> Chiplink]
  /\ good \in IF PcActsAsMc THEN {Pc} ELSE SUBSET Pc
  /\ running = IF PcActsAsMc THEN good ELSE {McOf[s] : s \in Socket}
  /\ share \in [Socket -> {0, 1}]
  /\ stage \in IF Preloaded THEN {[s \in Socket |-> 0]} ELSE [Socket -> Stage]
  /\ fsbl = [s \in Socket |-> Preloaded]
  /\ opensbi = Preloaded
  /\ ddrUp = {}
  /\ chiplinkUp = {}
  /\ shareZone = {}

------------------------------------------------------------------------------
(* ZSBL *)

(* Slip: only the leader clears the share word. *)
ZsblPcStart_LeaderClears(c) ==
  /\ c \in running
  /\ pc[c] = "reset"
  /\ ~IsMc(c)
  /\ IF PcActsAsMc
       THEN IF IsLeader(c)
              THEN /\ share' = [share EXCEPT ![SocketOf[c]] = 0]
                   /\ Goto(c, "zsbl_funcs")
              ELSE Goto(c, "wait_funcs_end") /\ UNCHANGED share
       ELSE /\ Goto(c, "goto_fsbl")
            /\ UNCHANGED share
  /\ UNCHANGED <<section, good, running, stage, fsbl, opensbi,
                 ddrUp, chiplinkUp, shareZone>>

(* Slip: every PC runs the ZSBL functions, none waits. *)
ZsblPcStart_NoWait(c) ==
  /\ c \in running
  /\ pc[c] = "reset"
  /\ ~IsMc(c)
  /\ share' = [share EXCEPT ![SocketOf[c]] = 0]
  /\ Goto(c, IF PcActsAsMc THEN "zsbl_funcs" ELSE "goto_fsbl")
  /\ UNCHANGED <<section, good, running, stage, fsbl, opensbi,
                 ddrUp, chiplinkUp, shareZone>>

(* The first instructions of a PC.  With PC_ACTS_AS_MC every PC, whatever   *)
(* its id, clears the share word before it looks at its id.                 *)
ZsblPcStart(c) ==
  /\ c \in running
  /\ pc[c] = "reset"
  /\ ~IsMc(c)
  /\ IF PcActsAsMc
       THEN /\ share' = [share EXCEPT ![SocketOf[c]] = 0]
            /\ Goto(c, IF IsLeader(c) THEN "zsbl_funcs" ELSE "wait_funcs_end")
       ELSE /\ Goto(c, "goto_fsbl")
            /\ UNCHANGED share
  /\ UNCHANGED <<section, good, running, stage, fsbl, opensbi,
                 ddrUp, chiplinkUp, shareZone>>

ZsblMcStart(c) ==
  /\ c \in running
  /\ pc[c] = "reset"
  /\ IsMc(c)
  /\ Goto(c, "zsbl_funcs")
  /\ UNCHANGED <<section, good, running, share, stage, fsbl, opensbi,
                 ddrUp, chiplinkUp, shareZone>>

(* Slip: the image is loaded without its `_pc_stage' word. *)
ZsblFuncsDone_StaleStage(c) ==
  /\ pc[c] = "zsbl_funcs"
  /\ fsbl' = [fsbl EXCEPT ![SocketOf[c]] = TRUE]
  /\ Goto(c, IF PcActsAsMc THEN "release" ELSE "goto_fsbl")
  /\ UNCHANGED <<section, good, running, share, stage, opensbi,
                 ddrUp, chiplinkUp, shareZone>>

(* The end of call_funcs: bootconf, console and storage are set up and      *)
(* storage_load_fsbl has written the image, `_pc_stage' with it.            *)
ZsblFuncsDone(c) ==
  /\ pc[c] = "zsbl_funcs"
  /\ IF Preloaded
       THEN UNCHANGED <<fsbl, stage>>
       ELSE /\ fsbl' = [fsbl EXCEPT ![SocketOf[c]] = TRUE]
            /\ stage' = [stage EXCEPT ![SocketOf[c]] = 0]
  /\ Goto(c, IF PcActsAsMc THEN "release" ELSE "goto_fsbl")
  /\ UNCHANGED <<section, good, running, share, opensbi,
                 ddrUp, chiplinkUp, shareZone>>

ZsblRelease(c) ==
  /\ pc[c] = "release"
  /\ share' = [share EXCEPT ![SocketOf[c]] = 1]
  /\ Goto(c, "goto_fsbl")
  /\ UNCHANGED <<section, good, running, stage, fsbl, opensbi,
                 ddrUp, chiplinkUp, shareZone>>

ZsblWaitEnd(c) ==
  /\ pc[c] = "wait_funcs_end"
  /\ share[SocketOf[c]] # 0
  /\ Goto(c, "goto_fsbl")
  /\ UNCHANGED <<section, good, running, share, stage, fsbl, opensbi,
                 ddrUp, chiplinkUp, shareZone>>

------------------------------------------------------------------------------
(* FSBL, up to pc_start *)

(* Slip: the leader skips the block of pc_acts_as_mc. *)
FsblStart_NoBoard(c) ==
  /\ pc[c] = "goto_fsbl"
  /\ Goto(c, IF IsMc(c) THEN "mc_start"
             ELSE IF ~PcActsAsMc \/ IsLeader(c) THEN "run_bist" ELSE "enter")
  /\ UNCHANGED <<section, good, running, share, stage, fsbl, opensbi,
                 ddrUp, chiplinkUp, shareZone>>

(* The jump to FSBL, whose common entry sorts cores by type and, with       *)
(* PC_ACTS_AS_MC, by id; without it every PC goes on to fsbl_run_bist.      *)
FsblStart(c) ==
  /\ pc[c] = "goto_fsbl"
  /\ Goto(c, IF IsMc(c) THEN "mc_start"
             ELSE IF ~PcActsAsMc THEN "run_bist"
             ELSE IF IsLeader(c) THEN "board_init" ELSE "enter")
  /\ UNCHANGED <<section, good, running, share, stage, fsbl, opensbi,
                 ddrUp, chiplinkUp, shareZone>>

(* pc_acts_as_mc: print, power, clock and the DDR controller. *)
FsblBoardInit(c) ==
  /\ pc[c] = "board_init"
  /\ ddrUp' = ddrUp \cup {SocketOf[c]}
  /\ Goto(c, "run_bist")
  /\ UNCHANGED <<section, good, running, share, stage, fsbl, opensbi,
                 chiplinkUp, shareZone>>

FsblBistDone(c) ==
  /\ pc[c] = "run_bist"
  /\ Goto(c, "enter")
  /\ UNCHANGED <<section, good, running, share, stage, fsbl, opensbi,
                 ddrUp, chiplinkUp, shareZone>>

(* Slip: plat_ddrctrl_init is not called. *)
McBoardInit_NoDdr(c) ==
  /\ pc[c] = "mc_start"
  /\ Goto(c, IF McActsAsPc THEN "mc_final" ELSE "start_pc")
  /\ UNCHANGED <<section, good, running, share, stage, fsbl, opensbi,
                 ddrUp, chiplinkUp, shareZone>>

(* mc_start: print, power, clock, partial-good register, DDR controller. *)
McBoardInit(c) ==
  /\ pc[c] = "mc_start"
  /\ ddrUp' = ddrUp \cup {SocketOf[c]}
  /\ Goto(c, IF McActsAsPc THEN "mc_final" ELSE "start_pc")
  /\ UNCHANGED <<section, good, running, share, stage, fsbl, opensbi,
                 chiplinkUp, shareZone>>

(* Slip: a core is started without regard to its socket. *)
McStartPc_AnySocket(c) ==
  /\ pc[c] = "start_pc"
  /\ running' = running \cup good
  /\ Goto(c, "mc_final")
  /\ UNCHANGED <<section, good, share, stage, fsbl, opensbi,
                 ddrUp, chiplinkUp, shareZone>>

McStartPc(c) ==
  /\ pc[c] = "start_pc"
  /\ running' = running \cup {h \in good : SocketOf[h] = SocketOf[c]}
  /\ Goto(c, "mc_final")
  /\ UNCHANGED <<section, good, share, stage, fsbl, opensbi,
                 ddrUp, chiplinkUp, shareZone>>

(* plat_mc_fsbl_final sleeps forever, or on plat-banana calls pc_start. *)
McFinal(c) ==
  /\ pc[c] = "mc_final"
  /\ Goto(c, IF McActsAsPc THEN "enter" ELSE "mc_idle")
  /\ UNCHANGED <<section, good, running, share, stage, fsbl, opensbi,
                 ddrUp, chiplinkUp, shareZone>>

------------------------------------------------------------------------------
(* FSBL, the three sections of pc_start *)

(* Leaving section k: on to the next one, after the last one to OpenSBI. *)
Leave(k, c) ==
  IF k = OpenSbi
    THEN Goto(c, "goto_opensbi") /\ UNCHANGED section
    ELSE Goto(c, "enter") /\ section' = [section EXCEPT ![c] = k + 1]

SectionEnter(c) ==
  LET k == section[c] IN
  /\ pc[c] = "enter"
  /\ IF Elected(k, c)
       THEN /\ stage' = [stage EXCEPT ![SocketOf[c]] = StartStage(k)]
            /\ Goto(c, "work")
       ELSE /\ Goto(c, "wait")
            /\ UNCHANGED stage
  /\ UNCHANGED <<section, good, running, share, fsbl, opensbi,
                 ddrUp, chiplinkUp, shareZone>>

(* plat_chiplink_init, plat_setup_sz or storage_load_opensbi returns. *)
SectionWork(c) ==
  LET k == section[c] IN
  /\ pc[c] = "work"
  /\ Goto(c, "publish")
  /\ chiplinkUp' = IF k = Chiplink THEN chiplinkUp \cup {SocketOf[c]} ELSE chiplinkUp
  /\ shareZone' = IF k = ShareZone THEN shareZone \cup {SocketOf[c]} ELSE shareZone
  /\ opensbi' = (opensbi \/ k = OpenSbi)
  /\ UNCHANGED <<section, good, running, share, stage, fsbl, ddrUp>>

(* Slip: a section that ends republishes its START stage. *)
SectionPublish_Start(c) ==
  LET k == section[c] IN
  /\ pc[c] = "publish"
  /\ stage' = [stage EXCEPT ![SocketOf[c]] = StartStage(k)]
  /\ Leave(k, c)
  /\ UNCHANGED <<good, running, share, fsbl, opensbi,
                 ddrUp, chiplinkUp, shareZone>>

SectionPublish(c) ==
  LET k == section[c] IN
  /\ pc[c] = "publish"
  /\ stage' = [stage EXCEPT ![SocketOf[c]] = EndStage(k)]
  /\ Leave(k, c)
  /\ UNCHANGED <<good, running, share, fsbl, opensbi,
                 ddrUp, chiplinkUp, shareZone>>

(* Slip: `ble' for `blt', with the START stage: a waiter leaves too early. *)
SectionWaitEnd_Early(c) ==
  LET k == section[c] IN
  /\ pc[c] = "wait"
  /\ stage[SocketOf[c]] >= StartStage(k)
  /\ Leave(k, c)
  /\ UNCHANGED <<good, running, share, stage, fsbl, opensbi,
                 ddrUp, chiplinkUp, shareZone>>

SectionWaitEnd(c) ==
  LET k == section[c] IN
  /\ pc[c] = "wait"
  /\ stage[SocketOf[c]] >= EndStage(k)
  /\ Leave(k, c)
  /\ UNCHANGED <<good, running, share, stage, fsbl, opensbi,
                 ddrUp, chiplinkUp, shareZone>>

------------------------------------------------------------------------------
CoreStep(c) ==
  \/ ZsblPcStart(c) \/ ZsblMcStart(c) \/ ZsblFuncsDone(c)
  \/ ZsblRelease(c) \/ ZsblWaitEnd(c)
  \/ FsblStart(c) \/ FsblBoardInit(c) \/ FsblBistDone(c)
  \/ McBoardInit(c) \/ McStartPc(c) \/ McFinal(c)
  \/ SectionEnter(c) \/ SectionWork(c) \/ SectionPublish(c) \/ SectionWaitEnd(c)

Next == \E c \in Core : CoreStep(c)

Spec == Init /\ [][Next]_vars

(* A core out of reset executes its program: no step waits for anything but *)
(* a word that it polls.                                                    *)
Fairness == \A c \in Core : WF_vars(CoreStep(c))
FairSpec == Spec /\ Fairness

------------------------------------------------------------------------------
(* Properties *)

TypeOK ==
  /\ pc \in [Core -> Label]
  /\ section \in [Core -> Section]
  /\ good \in SUBSET Pc
  /\ running \in SUBSET Core
  /\ share \in [Socket -> {0, 1}]
  /\ stage \in [Socket -> Stage]
  /\ fsbl \in [Socket -> BOOLEAN]
  /\ opensbi \in BOOLEAN
  /\ ddrUp \in SUBSET Socket
  /\ chiplinkUp \in SUBSET Socket
  /\ shareZone \in SUBSET Socket

InZsbl(c) == pc[c] \in ZsblLabel
InOpenSbi(c) == pc[c] = "goto_opensbi"
InFsbl(c) == ~InZsbl(c) /\ ~InOpenSbi(c)

(* What section k is to achieve for a core of socket s. *)
Done(k, s) ==
  /\ k = Chiplink => s \in chiplinkUp
  /\ k = ShareZone => s \in shareZone
  /\ k = OpenSbi => opensbi

(* No core jumps into memory that holds no image, although RAM starts with  *)
(* whatever an earlier boot left: neither a stale share word nor a stale    *)
(* `_pc_stage' lets a core pass (goto_fsbl, goto_opensbi).                  *)
NoWildJump ==
  \A c \in Core : /\ InFsbl(c) \/ pc[c] = "goto_fsbl" => fsbl[SocketOf[c]]
                  /\ InOpenSbi(c) => opensbi

(* A core is beyond a section only when the work of the section is done, on *)
(* its own socket for chiplink and share-zone (the three polling loops).    *)
BarrierSound ==
  \A c \in Core : \A k \in Section :
    section[c] > k \/ InOpenSbi(c) => Done(k, SocketOf[c])

(* The code that uses the storage controller and the console of a socket:   *)
(* it takes no lock.  mc_start holds the probe of STORAGE_PROBE.            *)
InStorage(c) ==
  \/ pc[c] \in {"zsbl_funcs", "mc_start"}
  \/ pc[c] = "run_bist" /\ BistOn
  \/ pc[c] = "work" /\ section[c] = OpenSbi

(* Two cores of a socket never use its storage controller together.  It     *)
(* does not hold for an MC build whose PCs run fsbl_run_bist (all do).      *)
StorageExclusive ==
  \A c, d \in Core :
    InStorage(c) /\ InStorage(d) /\ SocketOf[c] = SocketOf[d] => c = d

(* The share-zone and OpenSBI are written to DDR only after plat_ddrctrl_   *)
(* init: without PC_ACTS_AS_MC another core, the MC, must have run it.      *)
(* On every platform of the repository this function is a stub, so it is    *)
(* the order of the calls that is kept, for the code that will be in it.    *)
DdrBeforeUse ==
  \A c \in Core :
    pc[c] = "work" /\ section[c] \in {ShareZone, OpenSbi} /\ SocketOf[c] = Socket0
      => Socket0 \in ddrUp

(* `_pc_stage' of a loaded FSBL never goes back, so a hart that polls late  *)
(* misses nothing.                                                          *)
StageMonotonic ==
  [][\A s \in Socket : fsbl[s] => stage'[s] >= stage[s]]_vars

(* The boot flow implements the promise of the two loaders. *)
Promise == INSTANCE BootPromise
  WITH at <- [c \in Core |-> IF InZsbl(c) THEN "zsbl"
                             ELSE IF InOpenSbi(c) THEN "opensbi" ELSE "fsbl"]

PromiseSpec == Promise!Spec

(* The cores that are to boot, and the two ways the code strands them.      *)
Booting == IF McActsAsPc THEN {McOf[s] : s \in Socket} ELSE good
LeadersGood == McActsAsPc \/ \A s \in Socket : LeaderOf[s] \in good

LateReset ==
  /\ PcActsAsMc
  /\ \E c \in running : pc[c] = "reset" /\ share[SocketOf[c]] = 1
                        /\ pc[LeaderOf[SocketOf[c]]] \notin {"reset", "zsbl_funcs"}

(* Every core of socket 0 reaches OpenSBI, whatever the interleaving, when  *)
(* hart 0 is good and no hart is still in reset once hart 0 released them.  *)
Socket0Arrives ==
  [](LeadersGood /\ ~LateReset)
    => <>(\A c \in Booting : SocketOf[c] = Socket0 => InOpenSbi(c))

(* What fsbl.S says of its last label: "Goto OpenSBI at all harts".         *)
AllHartsReachOpenSbi == LeadersGood => <>(\A c \in Booting : InOpenSbi(c))

(* What fsbl.S says of its first section: "Configure chiplink at 1 hart per *)
(* socket", for each socket with a hart out of reset.  The call counts:     *)
(* plat_chiplink_init is a stub on every platform of the repository.        *)
ChiplinkConfigured ==
  \A s \in Socket : (\E c \in running \cap Pc : SocketOf[c] = s) ~> s \in chiplinkUp

==============================================================================
