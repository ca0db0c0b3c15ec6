---------------------------- MODULE HartBootProofs ----------------------------
(***************************************************************************)
(* Proofs about HartBoot for every number of sockets and cores.  The       *)
(* inductive invariant says which core may be where (Roles), what memory   *)
(* holds when a core runs there (Loaded), what the polled words mean       *)
(* (Words, Sections) and that each image is written once (Once).           *)
(***************************************************************************)
EXTENDS HartBoot, TLAPS

(* Only the core that is meant to runs the code of a role. *)
Roles ==
  \A c \in Core :
    /\ pc[c] # "reset" => c \in running
    /\ pc[c] = "zsbl_funcs" => c = Booter(SocketOf[c])
    /\ pc[c] \in {"release", "board_init"} => PcActsAsMc /\ IsLeader(c)
    /\ pc[c] = "start_pc" => ~McActsAsPc
    /\ pc[c] = "run_bist" => ~IsMc(c) /\ (~PcActsAsMc \/ IsLeader(c))
    /\ pc[c] \in {"mc_start", "start_pc", "mc_final", "mc_idle"} => IsMc(c)
    /\ pc[c] \in {"work", "publish"} => Elected(section[c], c)
    /\ pc[c] \notin SectionLabel \cup {"goto_opensbi"} => section[c] = Chiplink
    /\ pc[c] = "goto_opensbi" => section[c] = OpenSbi

(* A PC runs beside its MC only once the MC has left the storage alone. *)
Started ==
  \A c \in running :
    /\ PcActsAsMc => ~IsMc(c)
    /\ McActsAsPc => IsMc(c)
    /\ ~PcActsAsMc /\ ~IsMc(c) =>
         /\ fsbl[SocketOf[c]]
         /\ pc[McOf[SocketOf[c]]] \in {"mc_final", "mc_idle"}

Loaded ==
  \A c \in Core :
    InFsbl(c) \/ InOpenSbi(c) \/ pc[c] \in {"release", "goto_fsbl"}
      => fsbl[SocketOf[c]]

(* The two polled words: what a core may conclude from them. *)
Words ==
  /\ \A c \in Core :
       pc[c] = "wait_funcs_end" /\ share[SocketOf[c]] # 0 => fsbl[SocketOf[c]]
  /\ \A s \in Socket, k \in Section :
       fsbl[s] /\ stage[s] >= EndStage(k) => Done(k, s)

Sections ==
  \A c \in Core, k \in Section :
    section[c] > k \/ (section[c] = k /\ pc[c] \in {"publish", "goto_opensbi"})
      => Done(k, SocketOf[c])

(* An image is not in memory before the one core that loads it is done. *)
Once ==
  ~Preloaded =>
    /\ \A s \in Socket : fsbl[s] => pc[Booter(s)] \notin {"reset", "zsbl_funcs"}
    /\ opensbi => /\ section[Hart0] = OpenSbi
                  /\ pc[Hart0] \in {"publish", "goto_opensbi"}

(* Images that are there from the start come with a fresh `_pc_stage'.      *)
Preload == Preloaded => \A s \in Socket : fsbl[s]

(* The leader, or with an MC every PC, works on a board that is set up. *)
BoardUp ==
  \A c \in Core :
    /\ pc[c] \in {"start_pc", "mc_final", "mc_idle"} => SocketOf[c] \in ddrUp
    /\ PcActsAsMc /\ pc[c] = "run_bist" => SocketOf[c] \in ddrUp
    /\ IsLeader(c) /\ pc[c] \in SectionLabel \cup {"goto_opensbi"}
         => SocketOf[c] \in ddrUp

IInv ==
  /\ TypeOK
  /\ Roles
  /\ Started
  /\ Loaded
  /\ Words
  /\ Sections
  /\ Once
  /\ Preload
  /\ BoardUp

(* The vocabulary of the labels, stages and roles is expanded everywhere.   *)
USE DEF Label, ZsblLabel, SetupLabel, SectionLabel, Section, Chiplink,
        ShareZone, OpenSbi, StartStage, EndStage, Stage, Goto, Leave, Done,
        Pc, IsMc, IsLeader, Hart0, Booter, Elected, InZsbl, InFsbl, InOpenSbi

------------------------------------------------------------------------------
(* Whatever RAM holds, a core in reset has concluded nothing from it. *)
LEMMA InitInv == Init => IInv
<1> USE BuildAssumption, CoreAssumption
<1> SUFFICES ASSUME Init PROVE IInv
  OBVIOUS
<1>1. TypeOK
  BY DEF Init, TypeOK
<1>2. Roles
  BY DEF Init, Roles
<1>3. Started
  BY DEF Init, Started
<1>4. Loaded
  BY DEF Init, Loaded
<1>5. Words
  BY DEF Init, Words
<1>6. Sections
  BY DEF Init, Sections
<1>7. Once
  BY DEF Init, Once
<1>8. Preload
  BY DEF Init, Preload
<1>9. BoardUp
  BY DEF Init, BoardUp
<1>10. QED
  BY <1>1, <1>2, <1>3, <1>4, <1>5, <1>6, <1>7, <1>8, <1>9 DEF IInv

(* A PC that starts clears the share word, so it can only wait for a new 1. *)
LEMMA ZsblPcStartInv == ASSUME NEW c \in Core, IInv, ZsblPcStart(c) PROVE IInv'
<1> USE BuildAssumption, CoreAssumption DEF IInv, ZsblPcStart
<1>0. SocketOf[c] \in Socket
  OBVIOUS
<1>1. TypeOK'
  BY <1>0, SMTT(20) DEF TypeOK
<1>2. Roles'
  BY <1>0, SMTT(20) DEF TypeOK, Roles, Started
<1>3. Started'
  BY <1>0, SMTT(20) DEF TypeOK, Roles, Started
<1>4. Loaded'
  BY <1>0, SMTT(20) DEF TypeOK, Started, Loaded, Words
<1>5. Words'
  BY <1>0, SMTT(20) DEF TypeOK, Loaded, Words
<1>6. Sections'
  BY <1>0, SMTT(20) DEF TypeOK, Loaded, Words, Sections
<1>7. Once'
  BY <1>0, SMTT(20) DEF TypeOK, Roles, Once
<1>8. Preload'
  BY <1>0, SMTT(20) DEF TypeOK, Preload
<1>9. BoardUp'
  BY <1>0, SMTT(20) DEF TypeOK, Roles, Started, BoardUp
<1>10. QED
  BY <1>1, <1>2, <1>3, <1>4, <1>5, <1>6, <1>7, <1>8, <1>9

(* The MC starts alone. *)
LEMMA ZsblMcStartInv == ASSUME NEW c \in Core, IInv, ZsblMcStart(c) PROVE IInv'
<1> USE BuildAssumption, CoreAssumption DEF IInv, ZsblMcStart
<1>0. SocketOf[c] \in Socket
  OBVIOUS
<1>1. TypeOK'
  BY <1>0, SMTT(20) DEF TypeOK
<1>2. Roles'
  BY <1>0, SMTT(20) DEF TypeOK, Roles, Started
<1>3. Started'
  BY <1>0, SMTT(20) DEF TypeOK, Roles, Started
<1>4. Loaded'
  BY <1>0, SMTT(20) DEF TypeOK, Started, Loaded, Words
<1>5. Words'
  BY <1>0, SMTT(20) DEF TypeOK, Loaded, Words
<1>6. Sections'
  BY <1>0, SMTT(20) DEF TypeOK, Loaded, Words, Sections
<1>7. Once'
  BY <1>0, SMTT(20) DEF TypeOK, Roles, Once
<1>8. Preload'
  BY <1>0, SMTT(20) DEF TypeOK, Preload
<1>9. BoardUp'
  BY <1>0, SMTT(20) DEF TypeOK, Roles, Started, BoardUp
<1>10. QED
  BY <1>1, <1>2, <1>3, <1>4, <1>5, <1>6, <1>7, <1>8, <1>9

(* The image brings its own `_pc_stage': stale stage words mean nothing more. *)
LEMMA ZsblFuncsDoneInv == ASSUME NEW c \in Core, IInv, ZsblFuncsDone(c) PROVE IInv'
<1> USE BuildAssumption, CoreAssumption DEF IInv
<1> DEFINE s == SocketOf[c]
<1>0. s \in Socket /\ c \in Core /\ pc[c] = "zsbl_funcs" /\ c = Booter(s)
  BY DEF TypeOK, Roles, ZsblFuncsDone
<1>a. /\ pc' = [pc EXCEPT ![c] = IF PcActsAsMc THEN "release" ELSE "goto_fsbl"]
      /\ UNCHANGED <<section, good, running, share, opensbi, ddrUp, chiplinkUp, shareZone>>
  BY DEF ZsblFuncsDone
<1>b. /\ fsbl' \in [Socket -> BOOLEAN]
      /\ fsbl'[s]
      /\ \A r \in Socket \ {s} : fsbl'[r] = fsbl[r]
  <2>1. CASE Preloaded
    BY <2>1, <1>0 DEF ZsblFuncsDone, TypeOK, Preload
  <2>2. CASE ~Preloaded
    BY <2>2, <1>0 DEF ZsblFuncsDone, TypeOK
  <2>3. QED BY <2>1, <2>2
<1>c. /\ stage' \in [Socket -> Stage]
      /\ (stage'[s] = stage[s] /\ Preloaded) \/ stage'[s] = 0
      /\ \A r \in Socket \ {s} : stage'[r] = stage[r]
  <2>1. CASE Preloaded
    BY <2>1, <1>0 DEF ZsblFuncsDone, TypeOK
  <2>2. CASE ~Preloaded
    <3>1. stage' = [stage EXCEPT ![s] = 0]
      BY <2>2 DEF ZsblFuncsDone
    <3>2. QED BY <1>0, <3>1 DEF TypeOK
  <2>3. QED BY <2>1, <2>2
<1>1. TypeOK'
  BY <1>0, <1>a, <1>b, <1>c DEF TypeOK
<1>2. Roles'
  BY <1>0, <1>a DEF TypeOK, Roles, Started
<1>3. Started'
  BY <1>0, <1>a, <1>b DEF TypeOK, Roles, Started
<1>4. Loaded'
  BY <1>0, <1>a, <1>b DEF TypeOK, Loaded
<1>5. Words'
  BY <1>0, <1>a, <1>b, <1>c DEF TypeOK, Words, Preload
<1>6. Sections'
  BY <1>0, <1>a DEF TypeOK, Roles, Sections
<1>7. Once'
  BY <1>0, <1>a, <1>b DEF TypeOK, Roles, Once
<1>8. BoardUp'
  BY <1>0, <1>a DEF TypeOK, Roles, BoardUp
<1>9. Preload'
  BY <1>0, <1>b DEF Preload
<1>10. QED BY <1>1, <1>2, <1>3, <1>4, <1>5, <1>6, <1>7, <1>8, <1>9

(* The share word becomes 1 when the image is there. *)
LEMMA ZsblReleaseInv == ASSUME NEW c \in Core, IInv, ZsblRelease(c) PROVE IInv'
<1> USE BuildAssumption, CoreAssumption DEF IInv, ZsblRelease
<1>0. SocketOf[c] \in Socket
  OBVIOUS
<1>1. TypeOK'
  BY <1>0, SMTT(20) DEF TypeOK
<1>2. Roles'
  BY <1>0, SMTT(20) DEF TypeOK, Roles, Started
<1>3. Started'
  BY <1>0, SMTT(20) DEF TypeOK, Roles, Started
<1>4. Loaded'
  BY <1>0, SMTT(20) DEF TypeOK, Started, Loaded, Words
<1>5. Words'
  BY <1>0, SMTT(20) DEF TypeOK, Loaded, Words
<1>6. Sections'
  BY <1>0, SMTT(20) DEF TypeOK, Loaded, Words, Sections
<1>7. Once'
  BY <1>0, SMTT(20) DEF TypeOK, Roles, Once
<1>8. Preload'
  BY <1>0, SMTT(20) DEF TypeOK, Preload
<1>9. BoardUp'
  BY <1>0, SMTT(20) DEF TypeOK, Roles, Started, BoardUp
<1>10. QED
  BY <1>1, <1>2, <1>3, <1>4, <1>5, <1>6, <1>7, <1>8, <1>9

(* A released hart finds the image. *)
LEMMA ZsblWaitEndInv == ASSUME NEW c \in Core, IInv, ZsblWaitEnd(c) PROVE IInv'
<1> USE BuildAssumption, CoreAssumption DEF IInv, ZsblWaitEnd
<1>0. SocketOf[c] \in Socket
  OBVIOUS
<1>1. TypeOK'
  BY <1>0, SMTT(20) DEF TypeOK
<1>2. Roles'
  BY <1>0, SMTT(20) DEF TypeOK, Roles, Started
<1>3. Started'
  BY <1>0, SMTT(20) DEF TypeOK, Roles, Started
<1>4. Loaded'
  BY <1>0, SMTT(20) DEF TypeOK, Started, Loaded, Words
<1>5. Words'
  BY <1>0, SMTT(20) DEF TypeOK, Loaded, Words
<1>6. Sections'
  BY <1>0, SMTT(20) DEF TypeOK, Loaded, Words, Sections
<1>7. Once'
  BY <1>0, SMTT(20) DEF TypeOK, Roles, Once
<1>8. Preload'
  BY <1>0, SMTT(20) DEF TypeOK, Preload
<1>9. BoardUp'
  BY <1>0, SMTT(20) DEF TypeOK, Roles, Started, BoardUp
<1>10. QED
  BY <1>1, <1>2, <1>3, <1>4, <1>5, <1>6, <1>7, <1>8, <1>9

(* The entry of FSBL gives each core its role. *)
LEMMA FsblStartInv == ASSUME NEW c \in Core, IInv, FsblStart(c) PROVE IInv'
<1> USE BuildAssumption, CoreAssumption DEF IInv, FsblStart
<1>0. SocketOf[c] \in Socket
  OBVIOUS
<1>1. TypeOK'
  BY <1>0, SMTT(20) DEF TypeOK
<1>2. Roles'
  BY <1>0, SMTT(20) DEF TypeOK, Roles, Started
<1>3. Started'
  BY <1>0, SMTT(20) DEF TypeOK, Roles, Started
<1>4. Loaded'
  BY <1>0, SMTT(20) DEF TypeOK, Started, Loaded, Words
<1>5. Words'
  BY <1>0, SMTT(20) DEF TypeOK, Loaded, Words
<1>6. Sections'
  BY <1>0, SMTT(20) DEF TypeOK, Loaded, Words, Sections
<1>7. Once'
  BY <1>0, SMTT(20) DEF TypeOK, Roles, Once
<1>8. Preload'
  BY <1>0, SMTT(20) DEF TypeOK, Preload
<1>9. BoardUp'
  BY <1>0, SMTT(20) DEF TypeOK, Roles, Started, BoardUp
<1>10. QED
  BY <1>1, <1>2, <1>3, <1>4, <1>5, <1>6, <1>7, <1>8, <1>9

(* The leader brings DDR up. *)
LEMMA FsblBoardInitInv == ASSUME NEW c \in Core, IInv, FsblBoardInit(c) PROVE IInv'
<1> USE BuildAssumption, CoreAssumption DEF IInv, FsblBoardInit
<1>0. SocketOf[c] \in Socket
  OBVIOUS
<1>1. TypeOK'
  BY <1>0, SMTT(20) DEF TypeOK
<1>2. Roles'
  BY <1>0, SMTT(20) DEF TypeOK, Roles, Started
<1>3. Started'
  BY <1>0, SMTT(20) DEF TypeOK, Roles, Started
<1>4. Loaded'
  BY <1>0, SMTT(20) DEF TypeOK, Started, Loaded, Words
<1>5. Words'
  BY <1>0, SMTT(20) DEF TypeOK, Loaded, Words
<1>6. Sections'
  BY <1>0, SMTT(20) DEF TypeOK, Loaded, Words, Sections
<1>7. Once'
  BY <1>0, SMTT(20) DEF TypeOK, Roles, Once
<1>8. Preload'
  BY <1>0, SMTT(20) DEF TypeOK, Preload
<1>9. BoardUp'
  BY <1>0, SMTT(20) DEF TypeOK, Roles, Started, BoardUp
<1>10. QED
  BY <1>1, <1>2, <1>3, <1>4, <1>5, <1>6, <1>7, <1>8, <1>9

(* The self test changes nothing the invariant speaks of. *)
LEMMA FsblBistDoneInv == ASSUME NEW c \in Core, IInv, FsblBistDone(c) PROVE IInv'
<1> USE BuildAssumption, CoreAssumption DEF IInv, FsblBistDone
<1>0. SocketOf[c] \in Socket
  OBVIOUS
<1>1. TypeOK'
  BY <1>0, SMTT(20) DEF TypeOK
<1>2. Roles'
  BY <1>0, SMTT(20) DEF TypeOK, Roles, Started
<1>3. Started'
  BY <1>0, SMTT(20) DEF TypeOK, Roles, Started
<1>4. Loaded'
  BY <1>0, SMTT(20) DEF TypeOK, Started, Loaded, Words
<1>5. Words'
  BY <1>0, SMTT(20) DEF TypeOK, Loaded, Words
<1>6. Sections'
  BY <1>0, SMTT(20) DEF TypeOK, Loaded, Words, Sections
<1>7. Once'
  BY <1>0, SMTT(20) DEF TypeOK, Roles, Once
<1>8. Preload'
  BY <1>0, SMTT(20) DEF TypeOK, Preload
<1>9. BoardUp'
  <2>1. SocketOf[c] \in ddrUp
    <3>1. c \in running /\ ~IsMc(c)
      BY DEF Roles
    <3>2. CASE PcActsAsMc
      BY <3>2 DEF BoardUp
    <3>3. CASE ~PcActsAsMc
      <4>1. pc[McOf[SocketOf[c]]] \in {"mc_final", "mc_idle"}
        BY <3>1, <3>3 DEF Started
      <4>2. SocketOf[McOf[SocketOf[c]]] = SocketOf[c] /\ McOf[SocketOf[c]] \in Core
        BY <1>0
      <4>3. QED
        BY <4>1, <4>2 DEF BoardUp
    <3>4. QED
      BY <3>2, <3>3
  <2>2. QED
    BY <1>0, <2>1 DEF TypeOK, BoardUp
<1>10. QED
  BY <1>1, <1>2, <1>3, <1>4, <1>5, <1>6, <1>7, <1>8, <1>9

(* The MC brings DDR up. *)
LEMMA McBoardInitInv == ASSUME NEW c \in Core, IInv, McBoardInit(c) PROVE IInv'
<1> USE BuildAssumption, CoreAssumption DEF IInv, McBoardInit
<1>0. SocketOf[c] \in Socket
  OBVIOUS
<1>1. TypeOK'
  BY <1>0, SMTT(20) DEF TypeOK
<1>2. Roles'
  BY <1>0, SMTT(20) DEF TypeOK, Roles, Started
<1>3. Started'
  BY <1>0, SMTT(20) DEF TypeOK, Roles, Started
<1>4. Loaded'
  BY <1>0, SMTT(20) DEF TypeOK, Started, Loaded, Words
<1>5. Words'
  BY <1>0, SMTT(20) DEF TypeOK, Loaded, Words
<1>6. Sections'
  BY <1>0, SMTT(20) DEF TypeOK, Loaded, Words, Sections
<1>7. Once'
  BY <1>0, SMTT(20) DEF TypeOK, Roles, Once
<1>8. Preload'
  BY <1>0, SMTT(20) DEF TypeOK, Preload
<1>9. BoardUp'
  BY <1>0, SMTT(20) DEF TypeOK, Roles, Started, BoardUp
<1>10. QED
  BY <1>1, <1>2, <1>3, <1>4, <1>5, <1>6, <1>7, <1>8, <1>9

(* The PCs that the MC starts find the image and the board. *)
LEMMA McStartPcInv == ASSUME NEW c \in Core, IInv, McStartPc(c) PROVE IInv'
<1> USE BuildAssumption, CoreAssumption DEF IInv, McStartPc
<1>0. SocketOf[c] \in Socket
  OBVIOUS
<1>1. TypeOK'
  BY <1>0, SMTT(20) DEF TypeOK
<1>2. Roles'
  BY <1>0, SMTT(20) DEF TypeOK, Roles, Started
<1>3. Started'
  BY <1>0, SMTT(20) DEF TypeOK, Roles, Started, Loaded
<1>4. Loaded'
  BY <1>0, SMTT(20) DEF TypeOK, Started, Loaded, Words
<1>5. Words'
  BY <1>0, SMTT(20) DEF TypeOK, Loaded, Words
<1>6. Sections'
  BY <1>0, SMTT(20) DEF TypeOK, Loaded, Words, Sections
<1>7. Once'
  BY <1>0, SMTT(20) DEF TypeOK, Roles, Once
<1>8. Preload'
  BY <1>0, SMTT(20) DEF TypeOK, Preload
<1>9. BoardUp'
  BY <1>0, SMTT(20) DEF TypeOK, Roles, Started, BoardUp
<1>10. QED
  BY <1>1, <1>2, <1>3, <1>4, <1>5, <1>6, <1>7, <1>8, <1>9

(* The MC stops, or goes on as the leader. *)
LEMMA McFinalInv == ASSUME NEW c \in Core, IInv, McFinal(c) PROVE IInv'
<1> USE BuildAssumption, CoreAssumption DEF IInv, McFinal
<1>0. SocketOf[c] \in Socket
  OBVIOUS
<1>1. TypeOK'
  BY <1>0, SMTT(20) DEF TypeOK
<1>2. Roles'
  BY <1>0, SMTT(20) DEF TypeOK, Roles, Started
<1>3. Started'
  BY <1>0, SMTT(20) DEF TypeOK, Roles, Started
<1>4. Loaded'
  BY <1>0, SMTT(20) DEF TypeOK, Started, Loaded, Words
<1>5. Words'
  BY <1>0, SMTT(20) DEF TypeOK, Loaded, Words
<1>6. Sections'
  BY <1>0, SMTT(20) DEF TypeOK, Loaded, Words, Sections
<1>7. Once'
  BY <1>0, SMTT(20) DEF TypeOK, Roles, Once
<1>8. Preload'
  BY <1>0, SMTT(20) DEF TypeOK, Preload
<1>9. BoardUp'
  BY <1>0, SMTT(20) DEF TypeOK, Roles, Started, BoardUp
<1>10. QED
  BY <1>1, <1>2, <1>3, <1>4, <1>5, <1>6, <1>7, <1>8, <1>9

(* A START stage implies no more than the END stage before it. *)
LEMMA SectionEnterInv == ASSUME NEW c \in Core, IInv, SectionEnter(c) PROVE IInv'
<1> USE BuildAssumption, CoreAssumption DEF IInv, SectionEnter
<1>0. SocketOf[c] \in Socket
  OBVIOUS
<1>1. TypeOK'
  BY <1>0, SMTT(20) DEF TypeOK
<1>2. Roles'
  BY <1>0, SMTT(20) DEF TypeOK, Roles, Started
<1>3. Started'
  BY <1>0, SMTT(20) DEF TypeOK, Roles, Started
<1>4. Loaded'
  BY <1>0, SMTT(20) DEF TypeOK, Started, Loaded, Words
<1>5. Words'
  <2> DEFINE k == section[c]
             r == SocketOf[c]
  <2>0. k \in Section /\ r \in Socket /\ pc[c] = "enter"
    BY DEF TypeOK, SectionEnter
  <2>a. /\ UNCHANGED <<share, fsbl, opensbi, chiplinkUp, shareZone>>
        /\ \A d \in Core : pc'[d] = "wait_funcs_end" => pc[d] = "wait_funcs_end"
        /\ \A s \in Socket \ {r} : stage'[s] = stage[s]
        /\ stage'[r] = StartStage(k) \/ stage'[r] = stage[r]
    BY <2>0 DEF TypeOK, SectionEnter
  <2>1. SUFFICES ASSUME NEW s \in Socket, NEW j \in Section,
                        fsbl[s], stage'[s] >= EndStage(j)
                 PROVE  Done(j, s)
    BY <2>a DEF Words
  <2>2. CASE s # r \/ stage'[s] = stage[s]
    BY <2>1, <2>2, <2>a DEF Words
  <2>3. CASE s = r /\ stage'[s] = StartStage(k)
    <3>1. k > j
      BY <2>0, <2>1, <2>3
    <3>2. QED BY <2>0, <2>1, <2>3, <3>1 DEF Sections
  <2>4. QED BY <2>a, <2>2, <2>3
<1>6. Sections'
  BY <1>0, SMTT(20) DEF TypeOK, Loaded, Words, Sections
<1>7. Once'
  BY <1>0, SMTT(20) DEF TypeOK, Roles, Once
<1>8. Preload'
  BY <1>0, SMTT(20) DEF TypeOK, Preload
<1>9. BoardUp'
  BY <1>0, SMTT(20) DEF TypeOK, Roles, Started, BoardUp
<1>10. QED
  BY <1>1, <1>2, <1>3, <1>4, <1>5, <1>6, <1>7, <1>8, <1>9

(* The elected hart does the work of its section. *)
LEMMA SectionWorkInv == ASSUME NEW c \in Core, IInv, SectionWork(c) PROVE IInv'
<1> USE BuildAssumption, CoreAssumption DEF IInv, SectionWork
<1>0. SocketOf[c] \in Socket
  OBVIOUS
<1>1. TypeOK'
  BY <1>0, SMTT(20) DEF TypeOK
<1>2. Roles'
  BY <1>0, SMTT(20) DEF TypeOK, Roles, Started
<1>3. Started'
  BY <1>0, SMTT(20) DEF TypeOK, Roles, Started
<1>4. Loaded'
  BY <1>0, SMTT(20) DEF TypeOK, Started, Loaded, Words
<1>5. Words'
  BY <1>0, SMTT(20) DEF TypeOK, Loaded, Words
<1>6. Sections'
  BY <1>0, SMTT(20) DEF TypeOK, Loaded, Words, Sections
<1>7. Once'
  BY <1>0, SMTT(20) DEF TypeOK, Roles, Once
<1>8. Preload'
  BY <1>0, SMTT(20) DEF TypeOK, Preload
<1>9. BoardUp'
  BY <1>0, SMTT(20) DEF TypeOK, Roles, Started, BoardUp
<1>10. QED
  BY <1>1, <1>2, <1>3, <1>4, <1>5, <1>6, <1>7, <1>8, <1>9

(* An END stage is published when the work is done. *)
LEMMA SectionPublishInv == ASSUME NEW c \in Core, IInv, SectionPublish(c) PROVE IInv'
<1> USE BuildAssumption, CoreAssumption DEF IInv
<1> DEFINE k == section[c]
           r == SocketOf[c]
<1>0. k \in Section /\ r \in Socket /\ pc[c] = "publish" /\ Elected(k, c) /\ Done(k, r)
  BY DEF TypeOK, SectionPublish, Roles, Sections
<1>a. /\ UNCHANGED <<good, running, share, fsbl, opensbi, ddrUp, chiplinkUp, shareZone>>
      /\ stage' = [stage EXCEPT ![r] = EndStage(k)]
      /\ pc' = [pc EXCEPT ![c] = IF k = OpenSbi THEN "goto_opensbi" ELSE "enter"]
      /\ section' = [section EXCEPT ![c] = IF k = OpenSbi THEN k ELSE k + 1]
  BY <1>0 DEF SectionPublish, TypeOK
<1>1. TypeOK'
  BY <1>0, <1>a DEF TypeOK
<1>2. Roles'
  BY <1>0, <1>a DEF TypeOK, Roles
<1>3. Started'
  BY <1>0, <1>a DEF TypeOK, Started
<1>4. Loaded'
  BY <1>0, <1>a DEF TypeOK, Loaded
<1>5. Words'
  <2>1. SUFFICES ASSUME NEW s \in Socket, NEW j \in Section,
                        fsbl[s], stage'[s] >= EndStage(j)
                 PROVE  Done(j, s)
    BY <1>0, <1>a DEF Words, TypeOK
  <2>2. CASE s # r
    BY <1>a, <2>1, <2>2 DEF Words, TypeOK
  <2>3. CASE s = r
    <3>1. k >= j
      BY <1>0, <1>a, <2>1, <2>3 DEF TypeOK
    <3>2. QED BY <1>0, <2>1, <2>3, <3>1 DEF Sections
  <2>4. QED BY <2>2, <2>3
<1>6. Sections'
  BY <1>0, <1>a DEF TypeOK, Sections
<1>7. Once'
  BY <1>0, <1>a DEF TypeOK, Once
<1>8. BoardUp'
  BY <1>0, <1>a DEF TypeOK, BoardUp
<1>9. Preload'
  BY <1>a DEF Preload
<1>10. QED BY <1>1, <1>2, <1>3, <1>4, <1>5, <1>6, <1>7, <1>8, <1>9

(* A waiter that reads an END stage learns that the work is done. *)
LEMMA SectionWaitEndInv == ASSUME NEW c \in Core, IInv, SectionWaitEnd(c) PROVE IInv'
<1> USE BuildAssumption, CoreAssumption DEF IInv, SectionWaitEnd
<1>0. SocketOf[c] \in Socket
  OBVIOUS
<1>1. TypeOK'
  BY <1>0, SMTT(20) DEF TypeOK
<1>2. Roles'
  BY <1>0, SMTT(20) DEF TypeOK, Roles, Started
<1>3. Started'
  BY <1>0, SMTT(20) DEF TypeOK, Roles, Started
<1>4. Loaded'
  BY <1>0, SMTT(20) DEF TypeOK, Started, Loaded, Words
<1>5. Words'
  BY <1>0, SMTT(20) DEF TypeOK, Loaded, Words
<1>6. Sections'
  BY <1>0, SMTT(20) DEF TypeOK, Loaded, Words, Sections
<1>7. Once'
  BY <1>0, SMTT(20) DEF TypeOK, Roles, Once
<1>8. Preload'
  BY <1>0, SMTT(20) DEF TypeOK, Preload
<1>9. BoardUp'
  BY <1>0, SMTT(20) DEF TypeOK, Roles, Started, BoardUp
<1>10. QED
  BY <1>1, <1>2, <1>3, <1>4, <1>5, <1>6, <1>7, <1>8, <1>9

LEMMA StutterInv == ASSUME IInv, UNCHANGED vars PROVE IInv'
<1> USE DEF vars, IInv
<1>1. TypeOK'
  BY DEF TypeOK
<1>2. Roles'
  BY DEF Roles
<1>3. Started'
  BY DEF Started
<1>4. Loaded'
  BY DEF Loaded
<1>5. Words'
  BY DEF Words
<1>6. Sections'
  BY DEF Sections
<1>7. Once'
  BY DEF Once
<1>8. Preload'
  BY DEF Preload
<1>9. BoardUp'
  BY DEF BoardUp
<1>10. QED
  BY <1>1, <1>2, <1>3, <1>4, <1>5, <1>6, <1>7, <1>8, <1>9

(* The invariant holds in every reachable state. *)
THEOREM Inductive == Spec => []IInv
<1>1. Init => IInv
  BY InitInv
<1>2. IInv /\ [Next]_vars => IInv'
  <2> SUFFICES ASSUME IInv, [Next]_vars PROVE IInv'
    OBVIOUS
  <2>1. CASE UNCHANGED vars
    BY <2>1, StutterInv
  <2>2. ASSUME NEW c \in Core, CoreStep(c) PROVE IInv'
    <3>1. CASE ZsblPcStart(c)
      BY <3>1, ZsblPcStartInv
    <3>2. CASE ZsblMcStart(c)
      BY <3>2, ZsblMcStartInv
    <3>3. CASE ZsblFuncsDone(c)
      BY <3>3, ZsblFuncsDoneInv
    <3>4. CASE ZsblRelease(c)
      BY <3>4, ZsblReleaseInv
    <3>5. CASE ZsblWaitEnd(c)
      BY <3>5, ZsblWaitEndInv
    <3>6. CASE FsblStart(c)
      BY <3>6, FsblStartInv
    <3>7. CASE FsblBoardInit(c)
      BY <3>7, FsblBoardInitInv
    <3>8. CASE FsblBistDone(c)
      BY <3>8, FsblBistDoneInv
    <3>9. CASE McBoardInit(c)
      BY <3>9, McBoardInitInv
    <3>10. CASE McStartPc(c)
      BY <3>10, McStartPcInv
    <3>11. CASE McFinal(c)
      BY <3>11, McFinalInv
    <3>12. CASE SectionEnter(c)
      BY <3>12, SectionEnterInv
    <3>13. CASE SectionWork(c)
      BY <3>13, SectionWorkInv
    <3>14. CASE SectionPublish(c)
      BY <3>14, SectionPublishInv
    <3>15. CASE SectionWaitEnd(c)
      BY <3>15, SectionWaitEndInv
    <3> QED
      BY <2>2, <3>1, <3>2, <3>3, <3>4, <3>5, <3>6, <3>7, <3>8,
         <3>9, <3>10, <3>11, <3>12, <3>13, <3>14, <3>15
         DEF CoreStep
  <2>3. QED
    BY <2>1, <2>2 DEF Next
<1>3. QED
  BY <1>1, <1>2, PTL DEF Spec

------------------------------------------------------------------------------
(* Every variable keeps its type. *)
THEOREM TypeCorrect == Spec => []TypeOK
<1>1. IInv => TypeOK
  BY DEF IInv
<1>2. QED
  BY <1>1, Inductive, PTL

(* No core of any machine runs an image that is not there, however RAM and  *)
(* the polled words were left by an earlier boot.                           *)
THEOREM ImagesBeforeJumps == Spec => []NoWildJump
<1>1. IInv => NoWildJump
  BY DEF IInv, TypeOK, Roles, Loaded, Sections, NoWildJump
<1>2. QED
  BY <1>1, Inductive, PTL

(* The three polling loops are barriers for any number of harts. *)
THEOREM Barriers == Spec => []BarrierSound
<1>1. IInv => BarrierSound
  BY DEF IInv, TypeOK, Roles, Sections, BarrierSound
<1>2. QED
  BY <1>1, Inductive, PTL

(* Storage needs no lock, provided the self test is off or one hart runs it. *)
THEOREM StorageNeedsNoLock ==
  ASSUME PcActsAsMc \/ ~BistOn
  PROVE  Spec => []StorageExclusive
<1>1. IInv => StorageExclusive
  <2> SUFFICES ASSUME IInv, NEW c \in Core, NEW d \in Core,
                      InStorage(c), InStorage(d), SocketOf[c] = SocketOf[d]
               PROVE  c = d
    BY DEF StorageExclusive
  <2> USE BuildAssumption, CoreAssumption DEF IInv, InStorage, Roles, Started
  <2>1. CASE PcActsAsMc
    <3>1. IsLeader(c) /\ IsLeader(d)
      BY <2>1
    <3>2. QED
      BY <3>1
  <2>2. CASE ~PcActsAsMc
    BY <2>2
  <2>3. QED
    BY <2>1, <2>2
<1>2. QED
  BY <1>1, Inductive, PTL

(* DDR is up before a core of its socket writes the share-zone or OpenSBI. *)
THEOREM DdrFirst == Spec => []DdrBeforeUse
<1>1. IInv => DdrBeforeUse
  BY CoreAssumption DEF IInv, Roles, BoardUp, DdrBeforeUse
<1>2. QED
  BY <1>1, Inductive, PTL

------------------------------------------------------------------------------
(* How far the stage of a socket is, from where its leader is: the leader   *)
(* alone stores to it, for section 3 on socket 0 as well.                   *)
StageBound ==
  \A s \in Socket : fsbl[s] =>
    LET l == LeaderOf[s] IN
    /\ pc[l] \notin SectionLabel \cup {"goto_opensbi"} => stage[s] = 0
    /\ pc[l] = "enter" => stage[s] <= 2 * (section[l] - 1)
    /\ pc[l] \in {"work", "publish"} => stage[s] <= StartStage(section[l])
    /\ pc[l] = "wait" => section[l] = OpenSbi

(* A step either leaves a socket's stage alone or stores a later one.       *)
LEMMA StepStage ==
  ASSUME IInv, StageBound, NEW c \in Core, CoreStep(c)
  PROVE  /\ StageBound'
         /\ \A s \in Socket : fsbl[s] => stage'[s] >= stage[s]
<1> USE BuildAssumption, CoreAssumption
<1>0. TypeOK /\ SocketOf[c] \in Socket
  BY DEF IInv
<1>1. CASE ZsblFuncsDone(c)
  <2>1. c = Booter(SocketOf[c])
    BY <1>1 DEF IInv, Roles, ZsblFuncsDone
  <2>2. CASE Preloaded
    <3>1. UNCHANGED <<fsbl, stage, section>> /\ pc' = [pc EXCEPT ![c] = pc'[c]]
      BY <1>0, <1>1, <2>2 DEF ZsblFuncsDone, TypeOK
    <3>2. pc[c] = "zsbl_funcs" /\ pc'[c] \in {"release", "goto_fsbl"}
      BY <1>0, <1>1 DEF ZsblFuncsDone, TypeOK
    <3>3. QED
      BY <1>0, <3>1, <3>2 DEF StageBound, TypeOK
  <2>3. CASE ~Preloaded
    <3>1. ~fsbl[SocketOf[c]]
      BY <1>0, <1>1, <2>1, <2>3 DEF IInv, Once, ZsblFuncsDone
    <3>2. pc[LeaderOf[SocketOf[c]]] \in ZsblLabel
      BY <1>0, <3>1 DEF IInv, Loaded, TypeOK
    <3>3. QED
      BY <1>0, <1>1, <2>3, <3>1, <3>2 DEF ZsblFuncsDone, StageBound, TypeOK
  <2>4. QED
    BY <2>2, <2>3
<1>2. CASE SectionEnter(c)
  BY <1>0, <1>2 DEF SectionEnter, StageBound, IInv, Loaded, TypeOK
<1>3. CASE SectionWork(c)
  BY <1>0, <1>3 DEF SectionWork, StageBound, TypeOK
<1>4. CASE SectionPublish(c)
  BY <1>0, <1>4 DEF SectionPublish, StageBound, IInv, Roles, TypeOK
<1>5. CASE SectionWaitEnd(c)
  BY <1>0, <1>5 DEF SectionWaitEnd, StageBound, IInv, Roles, TypeOK
<1>6. CASE \/ ZsblPcStart(c) \/ ZsblMcStart(c) \/ ZsblRelease(c) \/ ZsblWaitEnd(c)
           \/ FsblStart(c) \/ FsblBoardInit(c) \/ FsblBistDone(c)
           \/ McBoardInit(c) \/ McStartPc(c) \/ McFinal(c)
  <2>1. UNCHANGED <<stage, fsbl, section>>
    BY <1>6 DEF ZsblPcStart, ZsblMcStart, ZsblRelease, ZsblWaitEnd, FsblStart,
                FsblBoardInit, FsblBistDone, McBoardInit, McStartPc, McFinal
  <2>2. /\ pc[c] \notin SectionLabel \cup {"goto_opensbi"}
        /\ pc'[c] \notin {"work", "publish", "wait"}
        /\ \A d \in Core : d # c => pc'[d] = pc[d]
    BY <1>0, <1>6 DEF ZsblPcStart, ZsblMcStart, ZsblRelease, ZsblWaitEnd, FsblStart,
                FsblBoardInit, FsblBistDone, McBoardInit, McStartPc, McFinal, TypeOK
  <2>3. section[c] = Chiplink
    BY <2>2 DEF IInv, Roles
  <2>4. QED
    BY <1>0, <2>1, <2>2, <2>3 DEF StageBound, TypeOK
<1>7. QED
  BY <1>1, <1>2, <1>3, <1>4, <1>5, <1>6 DEF CoreStep

(* The stage of a loaded FSBL only grows, on any number of sockets.         *)
THEOREM StageGrows == Spec => StageMonotonic
<1>1. Init => StageBound
  BY BuildAssumption, CoreAssumption DEF Init, StageBound
<1>2. IInv /\ StageBound /\ [Next]_vars
        => StageBound' /\ [\A s \in Socket : fsbl[s] => stage'[s] >= stage[s]]_vars
  <2> SUFFICES ASSUME IInv, StageBound, [Next]_vars
               PROVE  StageBound'
                      /\ [\A s \in Socket : fsbl[s] => stage'[s] >= stage[s]]_vars
    OBVIOUS
  <2>1. CASE UNCHANGED vars
    BY <2>1 DEF vars, StageBound
  <2>2. CASE Next
    BY <2>2, StepStage DEF Next
  <2>3. QED
    BY <2>1, <2>2
<1>3. QED
  BY <1>1, <1>2, Inductive, PTL DEF Spec, StageMonotonic

------------------------------------------------------------------------------
(* Each step of a core is a step of the promise or changes nothing of it.   *)
LEMMA StepRefines ==
  ASSUME IInv, NEW c \in Core, CoreStep(c)
  PROVE  [Promise!Next]_(Promise!vars)
<1> USE BuildAssumption, CoreAssumption
<1> DEFINE At(d) == IF InZsbl(d) THEN "zsbl" ELSE IF InOpenSbi(d) THEN "opensbi" ELSE "fsbl"
           s == SocketOf[c]
<1>0. s \in Socket /\ TypeOK
  BY DEF IInv
<1>1. CASE ZsblPcStart(c) \/ ZsblMcStart(c) \/ ZsblRelease(c) \/ ZsblWaitEnd(c)
  <2>1. UNCHANGED <<fsbl, opensbi>> /\ \A d \in Core : At(d)' = At(d)
    BY <1>0, <1>1 DEF ZsblPcStart, ZsblMcStart, ZsblRelease, ZsblWaitEnd, TypeOK
  <2>2. QED
    BY <2>1 DEF Promise!vars
<1>2. CASE ZsblFuncsDone(c)
  <2>1. UNCHANGED opensbi /\ \A d \in Core : At(d)' = At(d)
    BY <1>0, <1>2 DEF ZsblFuncsDone, TypeOK
  <2>2. CASE Preloaded
    BY <1>2, <2>1, <2>2 DEF ZsblFuncsDone, Promise!vars
  <2>3. CASE ~Preloaded
    <3>1. fsbl' = [fsbl EXCEPT ![s] = TRUE]
      BY <1>2, <2>3 DEF ZsblFuncsDone
    <3>2. ~fsbl[s]
      BY <1>0, <1>2, <2>3 DEF ZsblFuncsDone, IInv, Roles, Once
    <3>3. \A d \in Core : SocketOf[d] = s => At(d) = "zsbl"
      BY <3>2 DEF IInv, Loaded
    <3>4. Promise!LoadFsbl(s)
      BY <2>1, <3>1, <3>3 DEF Promise!LoadFsbl
    <3>5. QED
      BY <1>0, <3>4 DEF Promise!Next
  <2>4. QED
    BY <2>2, <2>3
<1>3. CASE FsblStart(c)
  <2>1. UNCHANGED <<fsbl, opensbi>> /\ At(c) = "zsbl" /\ At(c)' = "fsbl"
    BY <1>0, <1>3 DEF FsblStart, TypeOK
  <2>2. \A d \in Core \ {c} : At(d)' = At(d)
    BY <1>0, <1>3 DEF FsblStart, TypeOK
  <2>3. fsbl[s]
    BY <1>3 DEF FsblStart, IInv, Loaded
  <2>4. [d \in Core |-> At(d)]' = [[d \in Core |-> At(d)] EXCEPT ![c] = "fsbl"]
    <3>1. \A d \in Core : At(d)' = IF d = c THEN "fsbl" ELSE At(d)
      BY <2>1, <2>2
    <3>2. [d \in Core |-> At(d)'] = [d \in Core |-> IF d = c THEN "fsbl" ELSE At(d)]
      BY <3>1, Zenon
    <3>3. QED
      BY <3>2, Zenon
  <2>5. Promise!EnterFsbl(c)
    BY <2>1, <2>3, <2>4 DEF Promise!EnterFsbl
  <2>6. QED
    BY <2>5 DEF Promise!Next
<1>4. CASE FsblBoardInit(c) \/ FsblBistDone(c) \/ McBoardInit(c) \/ McStartPc(c)
             \/ McFinal(c) \/ SectionEnter(c)
  <2>1. UNCHANGED <<fsbl, opensbi>> /\ \A d \in Core : At(d)' = At(d)
    BY <1>0, <1>4 DEF FsblBoardInit, FsblBistDone, McBoardInit, McStartPc, McFinal,
                      SectionEnter, TypeOK
  <2>2. QED
    BY <2>1 DEF Promise!vars
<1>5. CASE SectionWork(c)
  <2>1. UNCHANGED fsbl /\ At(c) = "fsbl" /\ \A d \in Core : At(d)' = At(d)
    BY <1>0, <1>5 DEF SectionWork, TypeOK
  <2>2. CASE opensbi' = opensbi
    BY <2>1, <2>2 DEF Promise!vars
  <2>3. CASE opensbi' # opensbi
    <3>1. opensbi' = TRUE /\ ~opensbi
      BY <1>0, <1>5, <2>3 DEF SectionWork, TypeOK
    <3>2. \A d \in Core : At(d) # "opensbi"
      BY <3>1 DEF IInv, TypeOK, Roles, Sections
    <3>3. Promise!LoadOpenSbi
      BY <2>1, <3>1, <3>2 DEF Promise!LoadOpenSbi
    <3>4. QED
      BY <3>3 DEF Promise!Next
  <2>4. QED
    BY <2>2, <2>3
<1>6. CASE SectionPublish(c) \/ SectionWaitEnd(c)
  <2>1. UNCHANGED <<fsbl, opensbi>> /\ At(c) = "fsbl"
        /\ \A d \in Core \ {c} : At(d)' = At(d)
    BY <1>0, <1>6 DEF SectionPublish, SectionWaitEnd, TypeOK
  <2>2. CASE section[c] = OpenSbi
    <3>1. At(c)' = "opensbi"
      BY <1>0, <1>6, <2>2 DEF SectionPublish, SectionWaitEnd, TypeOK
    <3>2. opensbi
      <4>1. CASE SectionPublish(c)
        BY <2>2, <4>1 DEF SectionPublish, IInv, Sections
      <4>2. CASE SectionWaitEnd(c)
        <5>1. fsbl[s] /\ stage[s] >= EndStage(OpenSbi)
          BY <2>2, <4>2 DEF SectionWaitEnd, IInv, Loaded
        <5>2. QED
          BY <1>0, <5>1 DEF IInv, Words
      <4>3. QED
        BY <1>6, <4>1, <4>2
    <3>3. [d \in Core |-> At(d)]' = [[d \in Core |-> At(d)] EXCEPT ![c] = "opensbi"]
      <4>1. \A d \in Core : At(d)' = IF d = c THEN "opensbi" ELSE At(d)
        BY <2>1, <3>1
      <4>2. [d \in Core |-> At(d)'] = [d \in Core |-> IF d = c THEN "opensbi" ELSE At(d)]
        BY <4>1, Zenon
      <4>3. QED
        BY <4>2, Zenon
    <3>4. Promise!EnterOpenSbi(c)
      BY <2>1, <3>2, <3>3 DEF Promise!EnterOpenSbi
    <3>5. QED
      BY <3>4 DEF Promise!Next
  <2>3. CASE section[c] # OpenSbi
    <3>1. \A d \in Core : At(d)' = At(d)
      BY <1>0, <1>6, <2>1, <2>3 DEF SectionPublish, SectionWaitEnd, TypeOK
    <3>2. QED
      BY <2>1, <3>1 DEF Promise!vars
  <2>4. QED
    BY <2>2, <2>3
<1>7. QED
  BY <1>1, <1>2, <1>3, <1>4, <1>5, <1>6 DEF CoreStep

(* The boot flow implements BootPromise: an image is complete before a core *)
(* runs it and is never written again under a core that runs it.            *)
THEOREM Implements == Spec => PromiseSpec
<1>1. Init => Promise!Init
  <2> SUFFICES ASSUME Init PROVE Promise!Init
    OBVIOUS
  <2>1. \A c \in Core : InZsbl(c)
    BY DEF Init
  <2>2. fsbl = [s \in Socket |-> Preloaded] /\ opensbi = Preloaded /\ Preloaded \in BOOLEAN
    BY BuildAssumption DEF Init
  <2>3. QED
    BY <2>1, <2>2, Zenon DEF Promise!Init
<1>2. IInv /\ [Next]_vars => [Promise!Next]_(Promise!vars)
  <2> SUFFICES ASSUME IInv, [Next]_vars PROVE [Promise!Next]_(Promise!vars)
    OBVIOUS
  <2>1. CASE UNCHANGED vars
    BY <2>1 DEF vars, Promise!vars
  <2>2. CASE Next
    BY <2>2, StepRefines DEF Next
  <2>3. QED
    BY <2>1, <2>2
<1>3. QED
  BY <1>1, <1>2, Inductive, PTL DEF Spec, PromiseSpec, Promise!Spec

==============================================================================
