----------------------------- MODULE DwI2cProofs ------------------------------
(***************************************************************************)
(* Proofs about DwI2c for every depth of the FIFO, every length and number *)
(* of calls and every bus clock.  The inductive invariant follows one call *)
(* through the TX FIFO, the bus and the RX FIFO: Phases says what is left  *)
(* of a call when the next begins, Reading that at most one byte is asked  *)
(* for ahead, Writing that wire, bus and FIFO together are a prefix of the *)
(* message, and Holding that the bus is given away behind the last command *)
(* only.  With it each step is one of I2cPromise, or none.                 *)
(***************************************************************************)
EXTENDS DwI2c, TLAPS

Cmd == [byte : Int, stop : BOOLEAN, none : {FALSE}]

Reads == {"read", "rx_finish", "rx_busy", "rx_flush"}
Writes == {"write", "tx_finish", "tx_raw", "tx_busy"}
Places == {"off", Idle, "bus_busy", "set_address", "address"} \cup Reads \cup Writes

Types ==
  /\ hold \in BOOLEAN /\ at \in Places /\ call \in Call
  /\ alen \in 0 .. call.alen /\ len \in 0 .. call.len
  /\ active \in BOOLEAN /\ buf \in Seq(Nat) /\ calls \in Nat
  /\ tx \in Seq(Cmd) /\ rx \in Seq(Nat) /\ cur \in Cmd \cup {NoCommand}
  /\ ma \in BOOLEAN /\ stopDet \in BOOLEAN /\ abrt \in BOOLEAN /\ enable \in BOOLEAN
  /\ wire \in Seq(Int) /\ sent \in Nat /\ transfers \in Nat

(* Neither FIFO nor the bus holds anything. *)
Quiescent == tx = <<>> /\ rx = <<>> /\ cur.none /\ ~ma

(* What the place of the driver says of the call and of the controller. *)
Phases ==
  /\ at \in {"off", Idle, "bus_busy", "set_address"} => Quiescent
  /\ at \in {"bus_busy", "set_address"} =>
       /\ alen = call.alen /\ len = call.len
       /\ buf = <<>> /\ wire = <<>> /\ sent = 0 /\ transfers = 0
  /\ at = "address" => len = call.len
  /\ at \in {"off", Idle} \cup Reads \cup Writes => alen = 0
  /\ at \in Reads => IsRead
  /\ at \in Writes => ~IsRead
  /\ at \in ({"off", Idle} \cup Reads \cup Writes) \ {"read", "write"} => len = 0
  /\ active => at = "read" /\ len > 0
  /\ ~cur.none => ma
  /\ at = "rx_flush" => tx = <<>> /\ ~ma

(* One byte is read at a time: a read command is in the FIFO, or on the     *)
(* bus, or its byte is in the RX FIFO, and active tells.                    *)
Reading ==
  /\ IsRead => Len(buf) + len = call.len
  /\ IsRead => \A k \in 1 .. Len(buf) : buf[k] = k
  /\ ~IsRead => buf = <<>>
  /\ IsRead => sent = Len(buf) + Len(rx)
  /\ Len(rx) <= 1
  /\ rx # <<>> => active /\ rx[1] = sent
  /\ \A k \in 1 .. Len(tx) :
       tx[k].byte = 0 => k = Len(tx) /\ active /\ rx = <<>> /\ (cur.none \/ cur.byte # 0)
  /\ ~cur.none /\ cur.byte = 0 => active /\ rx = <<>> /\ tx = <<>>

(* The byte of the message at a position, and how many were queued so far. *)
MessageByte(k) == IF k <= call.alen THEN k - call.alen - 1 ELSE k - call.alen
Queued == (call.alen - alen) + (IF IsRead THEN 0 ELSE call.len - len)

OnBus == IF cur.none \/ cur.byte = 0 THEN 0 ELSE 1
InFifo == IF tx # <<>> /\ tx[Len(tx)].byte = 0 THEN Len(tx) - 1 ELSE Len(tx)

Writing ==
  ~abrt =>
    /\ \A k \in 1 .. Len(wire) : wire[k] = MessageByte(k)
    /\ OnBus = 1 => cur.byte = MessageByte(Len(wire) + 1)
    /\ \A k \in 1 .. Len(tx) :
         tx[k].byte # 0 => tx[k].byte = MessageByte(Len(wire) + OnBus + k)
    /\ Len(wire) + OnBus + InFifo = Queued

(* The last command of the call was queued. *)
AllQueued == alen = 0 /\ (len = 0 \/ (len = 1 /\ active))

Holding ==
  hold /\ ~abrt =>
    /\ \A k \in 1 .. Len(tx) : tx[k].stop => k = Len(tx) /\ AllQueued
    /\ ~cur.none /\ cur.stop => tx = <<>> /\ AllQueued
    /\ transfers <= 1
    /\ transfers = 0 => ~ma /\ wire = <<>> /\ sent = 0
    /\ transfers = 1 /\ ~ma => tx = <<>> /\ AllQueued

(* A transfer takes a command, and the FIFO holds the others.  *)
Pending == IF active THEN 1 ELSE 0
Counting ==
  /\ transfers + Len(tx) <= (call.alen - alen) + (call.len - len) + Pending
  /\ Len(tx) <= TxDepth

(* After a byte was refused nothing is on its way to the device.  *)
Held == abrt => tx = <<>> /\ cur.none

IInv == Types /\ Phases /\ Reading /\ Writing /\ Holding /\ Counting /\ Held

(* The counts in the registers are those of the frequency asked for.  *)
Setting ==
  /\ setups \in Nat
  /\ con \in SUBSET {1, 2}
  /\ scl \in [Mode -> Word16 \X Word16]
  /\ setups > 0 => asked \in Freqs /\ scl[ModeFor(asked[2])] = Counts(asked)

USE DEF Idle, Reads, Writes, Places, IsRead

------------------------------------------------------------------------------
(* Arguments and commands are of their types. *)
LEMMA CallType ==
  \A c \in Call : /\ c.alen \in Nat /\ c.len \in Nat
                  /\ c.alen <= MaxAlen /\ c.len <= MaxLen
                  /\ c.op \in {"read_mem", "write_mem", "read_bytes", "write_bytes", "read_vip"}
<1> SUFFICES ASSUME NEW c \in Call
             PROVE  /\ c.alen \in Nat /\ c.len \in Nat
                    /\ c.alen <= MaxAlen /\ c.len <= MaxLen
                    /\ c.op \in {"read_mem", "write_mem", "read_bytes", "write_bytes", "read_vip"}
  OBVIOUS
<1>1. MaxAlen \in Nat /\ MaxLen \in Nat
  BY I2cAssumption DEF I2cAssumption
<1>2. c.alen \in 0 .. MaxAlen
  <2>1. CASE c \in [op : {"read_mem", "write_mem"}, alen : 0 .. MaxAlen, len : 0 .. MaxLen,
                    stop : {TRUE}]
    BY <2>1
  <2>2. CASE c.alen = 0
    BY <1>1, <2>2
  <2> QED
    BY <2>1, <2>2 DEF Call
<1>3. c.len \in 0 .. MaxLen
  BY DEF Call
<1>4. c.op \in {"read_mem", "write_mem", "read_bytes", "write_bytes", "read_vip"}
  BY DEF Call
<1> QED
  BY <1>1, <1>2, <1>3, <1>4

LEMMA CommandType ==
  /\ \A c \in Cmd : c.byte \in Int /\ c.stop \in BOOLEAN /\ ~c.none
  /\ \A b \in Int, s \in BOOLEAN :
       /\ Command(b, s) \in Cmd
       /\ Command(b, s).byte = b /\ Command(b, s).stop = s /\ ~Command(b, s).none
  /\ NoCommand.none /\ NoCommand.byte = 0
  BY DEF Cmd, Command, NoCommand

LEMMA Sequences ==
  /\ \A S : <<>> \in Seq(S)
  /\ \A S : \A s \in Seq(S), e \in S : Append(s, e) \in Seq(S)
  /\ \A S : \A s \in Seq(S) : s # <<>> => Head(s) \in S /\ Tail(s) \in Seq(S)
  OBVIOUS

LEMMA OneByte ==
  ASSUME NEW s \in Seq(Nat), s # <<>>, Len(s) <= 1
  PROVE  Len(s) = 1 /\ Head(s) = s[1] /\ Tail(s) = <<>>
<1>1. Len(s) \in Nat /\ Len(s) # 0
  OBVIOUS
<1>2. Len(s) = 1
  <2>1. \A n \in Nat : n <= 1 /\ n # 0 => n = 1
    OBVIOUS
  <2> QED
    BY <1>1, <2>1, Zenon
<1>3. Tail(s) \in Seq(Nat) /\ Len(Tail(s)) = 0
  BY <1>2
<1>4. Tail(s) = <<>>
  BY <1>3
<1>5. Head(s) = s[1]
  OBVIOUS
<1> QED
  BY <1>2, <1>4, <1>5

LEMMA StopBitType == Types => StopBit \in BOOLEAN
  BY DEF Types, StopBit, Call

LEMMA InitIInv == Init => IInv /\ Setting
<1> SUFFICES ASSUME Init PROVE IInv /\ Setting
  OBVIOUS
<1>1. call \in Call
  <2>1. MaxAlen \in Nat /\ MaxLen \in Nat /\ TxDepth \in Nat
    BY I2cAssumption DEF I2cAssumption
  <2> QED
    BY <2>1 DEF Init, Call
<1>2. Types
  <2>1. call.alen = 0 /\ call.len = 0
    BY DEF Init
  <2>2. /\ hold \in BOOLEAN /\ enable \in BOOLEAN /\ stopDet \in BOOLEAN
    BY I2cAssumption DEF I2cAssumption, Init
  <2>3. alen \in 0 .. call.alen /\ len \in 0 .. call.len
    BY <2>1 DEF Init
  <2>4. /\ at \in Places /\ active \in BOOLEAN /\ calls \in Nat
        /\ ma \in BOOLEAN /\ abrt \in BOOLEAN /\ sent \in Nat /\ transfers \in Nat
    BY DEF Init
  <2>5. /\ buf \in Seq(Nat) /\ rx \in Seq(Nat) /\ wire \in Seq(Int) /\ tx \in Seq(Cmd)
        /\ cur \in Cmd \cup {NoCommand}
    BY DEF Init
  <2> QED
    BY <1>1, <2>2, <2>3, <2>4, <2>5 DEF Types
<1>3. Phases /\ Reading
  BY CommandType DEF Init, Phases, Quiescent, Reading
<1>4. Writing /\ Holding
  BY CommandType DEF Init, Writing, Holding, OnBus, InFifo, Queued, AllQueued, MessageByte
<1>5. Counting /\ Held
  BY I2cAssumption DEF Init, I2cAssumption, Counting, Pending, Held
<1>6. Setting
  <2>1. con \in SUBSET {1, 2} /\ setups = 0
    BY DEF Init, Bits
  <2>2. scl \in [Mode -> Word16 \X Word16]
    <3>1. 0 \in Word16
      BY SMT DEF Word16
    <3> QED
      BY <3>1 DEF Init
  <2>3. setups \in Nat /\ ~(setups > 0)
    BY <2>1
  <2> QED
    BY <2>1, <2>2, <2>3, Zenon DEF Setting
<1> QED
  BY <1>2, <1>3, <1>4, <1>5, <1>6 DEF IInv

------------------------------------------------------------------------------
(* One step per action.  Where nothing of a part changes one fact serves all.  *)
LEMMA DataCmdType ==
  ASSUME Types, NEW c \in Cmd, DataCmd(c)
  PROVE  /\ tx' \in Seq(Cmd)
         /\ tx' = tx \/ (~abrt /\ Len(tx) < TxDepth /\ tx' = Append(tx, c))
<1>1. TxDepth \in Nat /\ Len(tx) \in Nat
  BY I2cAssumption DEF I2cAssumption, Types
<1>2. CASE abrt \/ Len(tx) >= TxDepth
  BY <1>2 DEF DataCmd, Types
<1>3. CASE ~abrt /\ Len(tx) < TxDepth
  BY <1>1, <1>3 DEF DataCmd, Types
<1> QED
  BY <1>1, <1>2, <1>3 DEF Types

LEMMA DataCmdPlaces ==
  ASSUME Types, NEW c \in Cmd, DataCmd(c), NEW k \in 1 .. Len(tx')
  PROVE  \/ k \in 1 .. Len(tx) /\ tx'[k] = tx[k]
         \/ k = Len(tx') /\ tx'[k] = c
<1>1. CASE tx' = tx
  BY <1>1
<1>2. CASE tx' = Append(tx, c)
  BY <1>2 DEF Types
<1> QED
  BY <1>1, <1>2, DataCmdType

LEMMA TypesStep == Types /\ [Next]_vars => Types'
<1> SUFFICES ASSUME Types, [Next]_vars PROVE Types'
  OBVIOUS
<1> USE DEF Types, driver, speed, ctrl, history, Keep, Quiet
<1>1. CASE dw_i2c_master_init
  BY <1>1 DEF dw_i2c_master_init
<1>2. CASE dw_i2c_set_address
  BY <1>2 DEF dw_i2c_set_address
<1>3. ASSUME NEW f \in Freqs, dw_i2c_set_frequency(f) PROVE Types'
  BY <1>3 DEF dw_i2c_set_frequency
<1>4. ASSUME NEW c \in Call, Begin(c) PROVE Types'
  <2>1. alen' \in 0 .. call'.alen /\ len' \in 0 .. call'.len
    BY <1>4, CallType DEF Begin
  <2>2. buf' \in Seq(Nat) /\ wire' \in Seq(Int) /\ sent' \in Nat /\ transfers' \in Nat
    BY <1>4, Sequences DEF Begin
  <2>3. call' \in Call /\ at' \in Places /\ active' \in BOOLEAN /\ calls' \in Nat
    <3>1. call' = c /\ at' = "bus_busy" /\ active' = FALSE /\ calls' = calls + 1
      BY <1>4 DEF Begin
    <3>2. call' \in Call
      BY <3>1
    <3>3. at' \in Places
      BY <3>1
    <3>4. active' \in BOOLEAN
      BY <3>1
    <3>5. calls' \in Nat
      BY <3>1
    <3> QED
      BY <3>2, <3>3, <3>4, <3>5
  <2>4. UNCHANGED <<hold, enable, tx, rx, cur, ma, stopDet, abrt>>
    BY <1>4 DEF Begin
  <2> QED
    BY <2>1, <2>2, <2>3, <2>4
<1>5. ASSUME NEW p, NEW q \in Places, WaitForBb(p, q) PROVE Types'
  BY <1>5 DEF WaitForBb
<1>6. CASE i2c_setaddress
  BY <1>6, Sequences, CommandType DEF i2c_setaddress
<1>7. CASE PutAddress
  <2>1. Command(-alen, FALSE) \in Cmd
    <3>1. -alen \in Int
      BY CallType
    <3> QED
      BY <3>1, CommandType
  <2>2. tx' \in Seq(Cmd)
    BY <1>7, <2>1, DataCmdType DEF PutAddress
  <2>3. alen' \in 0 .. call.alen /\ at' \in Places
    <3>1. call.alen \in Nat
      BY CallType
    <3>2. CASE alen > 0
      BY <1>7, <3>1, <3>2 DEF PutAddress
    <3>3. CASE ~(alen > 0)
      BY <1>7, <3>1, <3>3 DEF PutAddress
    <3> QED
      BY <3>2, <3>3
  <2> QED
    BY <1>7, <2>2, <2>3 DEF PutAddress
<1>8. CASE ReadCommand
  <2>1. Command(0, StopBit) \in Cmd
    BY StopBitType, CommandType
  <2> QED
    BY <1>8, <2>1, DataCmdType DEF ReadCommand
<1>9. CASE ReadByte
  <2>1. Head(rx) \in Nat /\ rx' \in Seq(Nat)
    BY <1>9, Sequences DEF ReadByte
  <2>2. buf' \in Seq(Nat)
    BY <1>9, <2>1, Sequences DEF ReadByte
  <2>3. len' \in 0 .. call.len
    BY <1>9, CallType DEF ReadByte
  <2> QED
    BY <1>9, <2>1, <2>2, <2>3 DEF ReadByte
<1>10. CASE WriteByte
  <2>1. Command(call.len - len + 1, StopBit) \in Cmd
    <3>1. call.len - len + 1 \in Int
      BY CallType
    <3> QED
      BY <3>1, StopBitType, CommandType
  <2> QED
    BY <1>10, <2>1, DataCmdType, CallType DEF WriteByte
<1>11. CASE LoopEnd \/ RxStop \/ i2c_flush_rxfifo \/ TxStatus \/ TxStop
  BY <1>11 DEF LoopEnd, RxStop, i2c_flush_rxfifo, TxStatus, TxStop
<1>12. CASE Take
  BY <1>12 DEF Take
<1>13. CASE Transmit
  <2>1. cur \in Cmd /\ cur.byte \in Int
    BY <1>13, CommandType DEF Transmit
  <2>2. rx' \in Seq(Nat) /\ sent' \in Nat
    <3>1. sent + 1 \in Nat
      OBVIOUS
    <3>2. CASE cur.byte = 0
      BY <1>13, <3>1, <3>2, Sequences DEF Transmit
    <3>3. CASE cur.byte # 0
      BY <1>13, <3>3 DEF Transmit
    <3> QED
      BY <3>2, <3>3
  <2>3. wire' \in Seq(Int)
    BY <1>13, <2>1, Sequences DEF Transmit
  <2> QED
    BY <1>13, <2>2, <2>3 DEF Transmit, Stopped
<1>14. CASE Abort
  BY <1>14, Sequences, CommandType DEF Abort, Stopped
<1>15. CASE EmptyStop
  BY <1>15 DEF EmptyStop, Stopped
<1>16. CASE UNCHANGED vars
  BY <1>16 DEF vars
<1> QED
  BY <1>1, <1>2, <1>3, <1>4, <1>5, <1>6, <1>7, <1>8, <1>9, <1>10, <1>11, <1>12, <1>13, <1>14,
     <1>15, <1>16 DEF Next, Caller, Driver, Controller

(* What a call consists of; the other steps only move the driver on.  *)
flow == <<hold, call, alen, len, active, buf, tx, rx, cur, ma, abrt, wire, sent, transfers>>

Flows ==
  \/ \E c \in Call : Begin(c)
  \/ i2c_setaddress \/ PutAddress \/ ReadCommand \/ ReadByte \/ WriteByte
  \/ Take \/ Transmit \/ Abort \/ EmptyStop

LEMMA Moves == [Next]_vars => UNCHANGED flow \/ Flows
<1> SUFFICES ASSUME [Next]_vars, ~Flows PROVE UNCHANGED flow
  OBVIOUS
<1> USE DEF flow, driver, speed, ctrl, history, Keep
<1>1. CASE dw_i2c_master_init \/ dw_i2c_set_address \/ \E f \in Freqs : dw_i2c_set_frequency(f)
  BY <1>1 DEF dw_i2c_master_init, dw_i2c_set_address, dw_i2c_set_frequency
<1>2. CASE \/ WaitForBb("bus_busy", "set_address") \/ WaitForBb("rx_busy", "rx_flush")
           \/ WaitForBb("tx_busy", Idle) \/ LoopEnd \/ RxStop \/ i2c_flush_rxfifo
           \/ TxStatus \/ TxStop
  BY <1>2 DEF WaitForBb, LoopEnd, RxStop, i2c_flush_rxfifo, TxStatus, TxStop
<1>3. CASE UNCHANGED vars
  BY <1>3 DEF vars
<1> QED
  BY <1>1, <1>2, <1>3 DEF Flows, Next, Caller, Driver, Controller

LEMMA PhasesStep == Types /\ Phases /\ Reading /\ [Next]_vars => Phases'
<1> SUFFICES ASSUME Types, Phases, Reading, [Next]_vars PROVE Phases'
  OBVIOUS
<1> USE DEF Phases, Quiescent, driver, speed, ctrl, history, Keep, Quiet
<1>0. rx # <<>> => at = "read" /\ len > 0
  BY DEF Reading
<1>1. CASE dw_i2c_master_init
  BY <1>1 DEF dw_i2c_master_init
<1>2. CASE dw_i2c_set_address
  BY <1>2 DEF dw_i2c_set_address
<1>3. ASSUME NEW f \in Freqs, dw_i2c_set_frequency(f) PROVE Phases'
  BY <1>3 DEF dw_i2c_set_frequency
<1>4. ASSUME NEW c \in Call, Begin(c) PROVE Phases'
  BY <1>4 DEF Begin
<1>5. CASE \/ WaitForBb("bus_busy", "set_address") \/ WaitForBb("rx_busy", "rx_flush")
           \/ WaitForBb("tx_busy", Idle)
  BY <1>0, <1>5 DEF WaitForBb, BusFree
<1>6. CASE i2c_setaddress
  BY <1>6, CommandType DEF i2c_setaddress
<1>7. CASE PutAddress
  <2>1. CASE alen > 0
    BY <1>7, <2>1 DEF PutAddress
  <2>2. CASE ~(alen > 0)
    <3>1. alen = 0
      BY <2>2, CallType DEF Types
    <3> QED
      BY <1>7, <2>2, <3>1 DEF PutAddress
  <2> QED
    BY <2>1, <2>2
<1>8. CASE ReadCommand
  BY <1>8 DEF ReadCommand
<1>9. CASE ReadByte
  BY <1>9 DEF ReadByte, Types
<1>10. CASE WriteByte
  BY <1>10 DEF WriteByte, Types
<1>11. CASE LoopEnd
  BY <1>11 DEF LoopEnd
<1>12. CASE RxStop \/ i2c_flush_rxfifo \/ TxStatus \/ TxStop
  BY <1>12 DEF RxStop, i2c_flush_rxfifo, TxStatus, TxStop
<1>13. CASE Take
  BY <1>13 DEF Take
<1>14. CASE Transmit
  BY <1>14, CommandType DEF Transmit, Stopped
<1>15. CASE Abort
  BY <1>15, CommandType DEF Abort, Stopped
<1>16. CASE EmptyStop
  BY <1>16 DEF EmptyStop, Stopped
<1>17. CASE UNCHANGED vars
  BY <1>17 DEF vars
<1> QED
  BY <1>1, <1>2, <1>3, <1>4, <1>5, <1>6, <1>7, <1>8, <1>9, <1>10, <1>11, <1>12, <1>13, <1>14,
     <1>15, <1>16, <1>17 DEF Next, Caller, Driver, Controller

LEMMA ReadingStep == Types /\ Phases /\ Reading /\ [Next]_vars => Reading'
<1> SUFFICES ASSUME Types, Phases, Reading, [Next]_vars PROVE Reading'
  OBVIOUS
<1> USE DEF Reading, driver, speed, ctrl, history, Keep, Quiet
<1>0. CASE UNCHANGED flow
  BY <1>0 DEF flow
<1>1. ASSUME NEW c \in Call, Begin(c) PROVE Reading'
  BY <1>1, CallType DEF Begin, Phases, Quiescent
<1>2. CASE i2c_setaddress
  BY <1>2, CommandType DEF i2c_setaddress, Phases, Quiescent
<1>3. CASE PutAddress
  <2>1. rx = <<>> /\ ~active
    BY <1>3 DEF PutAddress, Phases
  <2>2. \A k \in 1 .. Len(tx') : tx'[k].byte # 0
    <3>1. CASE alen > 0
      <4>1. -alen \in Int /\ -alen # 0
        BY <3>1, CallType DEF Types
      <4> QED
      <5>1. /\ Command(-alen, FALSE) \in Cmd /\ Command(-alen, FALSE).byte # 0
              /\ DataCmd(Command(-alen, FALSE))
        BY <1>3, <3>1, <4>1, CommandType DEF PutAddress
      <5> QED
        BY <2>1, <5>1, DataCmdPlaces
    <3>2. CASE ~(alen > 0)
      BY <1>3, <2>1, <3>2 DEF PutAddress
    <3> QED
      BY <3>1, <3>2
  <2> QED
    BY <1>3, <2>1, <2>2 DEF PutAddress
<1>4. CASE ReadCommand
  <2>1. Command(0, StopBit) \in Cmd
    BY StopBitType, CommandType
  <2>2. rx = <<>> /\ \A k \in 1 .. Len(tx) : tx[k].byte # 0
    BY <1>4 DEF ReadCommand
  <2>3. cur.none \/ cur.byte # 0
    BY <1>4 DEF ReadCommand
  <2>4. \A k \in 1 .. Len(tx') : tx'[k].byte = 0 => k = Len(tx')
    <3>1. DataCmd(Command(0, StopBit))
      BY <1>4 DEF ReadCommand
    <3> QED
      BY <2>1, <2>2, <3>1, DataCmdPlaces
  <2> QED
    BY <1>4, <2>2, <2>3, <2>4 DEF ReadCommand
<1>5. CASE ReadByte
  <2>1. Len(rx) = 1 /\ rx' = <<>> /\ Head(rx) = sent /\ IsRead
    <3>1. rx # <<>> /\ active /\ rx' = Tail(rx)
      BY <1>5 DEF ReadByte
    <3>2. IsRead /\ rx[1] = sent
      BY <3>1 DEF Phases
    <3>3. rx \in Seq(Nat) /\ Len(rx) <= 1
      BY DEF Types
    <3> QED
      BY <3>1, <3>2, <3>3, OneByte
  <2>2. buf' = Append(buf, sent) /\ sent = Len(buf) + 1
    BY <1>5, <2>1 DEF ReadByte, Types
  <2>3. \A k \in 1 .. Len(buf') : buf'[k] = k
    BY <2>1, <2>2 DEF Types
  <2>4. \A k \in 1 .. Len(tx) : tx[k].byte # 0
    BY <1>5 DEF ReadByte
  <2>5. cur.none \/ cur.byte # 0
    BY <2>1
  <2>6. Len(buf') + len' = call.len /\ Len(buf') = sent
    BY <1>5, <2>1, <2>2, CallType DEF ReadByte, Types
  <2> QED
    BY <1>5, <2>1, <2>3, <2>4, <2>5, <2>6 DEF ReadByte
<1>6. CASE WriteByte
  <2>1. rx = <<>> /\ ~active /\ ~IsRead
    BY <1>6 DEF WriteByte, Phases
  <2>2. \A k \in 1 .. Len(tx') : tx'[k].byte # 0
    <3>1. call.len - len + 1 \in Int /\ call.len - len + 1 # 0
      BY CallType DEF Types
    <3>2. Command(call.len - len + 1, StopBit) \in Cmd
      BY <3>1, StopBitType, CommandType
    <3> QED
      <4>1. Command(call.len - len + 1, StopBit).byte # 0
        BY <3>1, StopBitType, CommandType
      <4>2. DataCmd(Command(call.len - len + 1, StopBit))
        BY <1>6 DEF WriteByte
      <4> QED
        BY <2>1, <3>2, <4>1, <4>2, DataCmdPlaces
  <2> QED
    BY <1>6, <2>1, <2>2 DEF WriteByte
<1>7. CASE Take
  <2>1. cur' = tx[1] /\ tx' = Tail(tx) /\ ~cur'.none
    BY <1>7, CommandType DEF Take, Types
  <2>2. \A k \in 1 .. Len(tx') : tx'[k].byte = 0 =>
          k = Len(tx') /\ active /\ rx = <<>> /\ cur'.byte # 0
    BY <1>7, <2>1 DEF Take, Types
  <2>3. ASSUME cur'.byte = 0 PROVE active /\ rx = <<>> /\ tx' = <<>>
    <3>1. tx # <<>> /\ tx \in Seq(Cmd) /\ Len(tx) \in Nat
      BY <1>7 DEF Take, Types
    <3>2. 1 \in 1 .. Len(tx)
      BY <3>1
    <3>3. tx[1].byte = 0
      BY <2>1, <2>3
    <3>4. Len(tx) = 1 /\ active /\ rx = <<>>
      BY <3>2, <3>3
    <3>5. Len(tx') = 0 /\ tx' \in Seq(Cmd)
      BY <2>1, <3>1, <3>4
    <3> QED
      BY <3>4, <3>5
  <2> QED
    BY <1>7, <2>1, <2>2, <2>3 DEF Take
<1>8. CASE Transmit
  <2>1. CASE cur.byte = 0
    <3>1. active /\ rx = <<>> /\ tx = <<>> /\ IsRead
      BY <1>8, <2>1 DEF Transmit, Phases
    <3>2. rx' = <<sent + 1>> /\ sent' = sent + 1
      BY <1>8, <2>1, <3>1 DEF Transmit, Types
    <3> QED
      BY <1>8, <3>1, <3>2, CommandType DEF Transmit, Types
  <2>2. CASE cur.byte # 0
    BY <1>8, <2>2, CommandType DEF Transmit
  <2> QED
    BY <2>1, <2>2
<1>9. CASE Abort
  BY <1>9, CommandType DEF Abort
<1>10. CASE EmptyStop
  BY <1>10 DEF EmptyStop
<1> QED
  BY <1>0, <1>1, <1>2, <1>3, <1>4, <1>5, <1>6, <1>7, <1>8, <1>9, <1>10, Moves DEF Flows

LEMMA DataCmdLength ==
  ASSUME Types, NEW c \in Cmd, DataCmd(c)
  PROVE  \/ Len(tx') = Len(tx)
         \/ Len(tx') = Len(tx) + 1 /\ Len(tx) < TxDepth
<1>1. CASE tx' = tx
  BY <1>1
<1>2. CASE Len(tx) < TxDepth /\ tx' = Append(tx, c)
  BY <1>2 DEF Types
<1> QED
  BY <1>1, <1>2, DataCmdType

LEMMA OneMore ==
  \A t, m, n, a, l, p \in Int :
    t + n <= a + l + p /\ m <= n + 1 => /\ t + m <= (a + 1) + l + p
                                       /\ t + m <= a + (l + 1) + p
  OBVIOUS

LEMMA CountingStep == Types /\ Phases /\ Counting /\ [Next]_vars => Counting'
<1> SUFFICES ASSUME Types, Phases, Counting, [Next]_vars PROVE Counting'
  OBVIOUS
<1> USE DEF Counting, driver, speed, ctrl, history, Keep, Quiet
<1>a. /\ alen \in Nat /\ len \in Nat /\ call.alen \in Nat /\ call.len \in Nat
      /\ Len(tx) \in Nat /\ transfers \in Nat /\ TxDepth \in Nat
      /\ call.alen - alen >= 0 /\ call.len - len >= 0
  BY CallType, I2cAssumption, SMTT(30) DEF Types, I2cAssumption
<1>0. CASE UNCHANGED flow
  BY <1>0 DEF flow, Pending
<1>1. ASSUME NEW c \in Call, Begin(c) PROVE Counting'
  <2>1. Len(tx') = 0 /\ transfers' = 0 /\ Pending' = 0
    BY <1>1 DEF Begin, Phases, Quiescent, Pending
  <2>2. call'.alen - alen' = 0 /\ call'.len - len' = 0
    BY <1>1, CallType DEF Begin
  <2> QED
    BY <1>a, <2>1, <2>2
<1>2. CASE i2c_setaddress
  BY <1>2, <1>a DEF i2c_setaddress, Phases, Pending
<1>3. CASE PutAddress
  <2>1. CASE alen > 0
    <3>1. Command(-alen, FALSE) \in Cmd
      <4>1. -alen \in Int
        BY <1>a
      <4> QED
        BY <4>1, CommandType
    <3>2. DataCmd(Command(-alen, FALSE)) /\ alen' = alen - 1
      BY <1>3, <2>1 DEF PutAddress
    <3>3. \/ Len(tx') = Len(tx)
          \/ Len(tx') = Len(tx) + 1 /\ Len(tx) < TxDepth
      BY <3>1, <3>2, DataCmdLength
    <3>4. UNCHANGED <<call, len, active, transfers>>
      BY <1>3 DEF PutAddress
    <3>5. /\ Len(tx') <= Len(tx) + 1 /\ Len(tx') <= TxDepth
          /\ call'.alen - alen' = (call.alen - alen) + 1
          /\ call'.len - len' = call.len - len
      BY <1>a, <3>2, <3>3, <3>4
    <3>6. Len(tx') \in Nat
      BY <1>a, <3>3
    <3> QED
      <4>1. Pending' = Pending /\ Pending \in {0, 1} /\ transfers' = transfers
        BY <3>4 DEF Pending
      <4> QED
        <5>1. transfers + Len(tx') <= ((call.alen - alen) + 1) + (call.len - len) + Pending
          <6>1. /\ transfers \in Int /\ Len(tx') \in Int /\ Len(tx) \in Int /\ Pending \in Int
                /\ call.alen - alen \in Int /\ call.len - len \in Int
            BY <1>a, <3>5, <3>6, <4>1
          <6>2. transfers + Len(tx) <= (call.alen - alen) + (call.len - len) + Pending
            OBVIOUS
          <6> QED
            BY <3>5, <6>1, <6>2, OneMore
        <5>2. Len(tx') <= TxDepth
          BY <3>5
        <5> QED
          BY <5>1, <5>2, <3>5, <4>1
  <2>2. CASE ~(alen > 0)
    BY <1>3, <2>2, <1>a DEF PutAddress, Pending
  <2> QED
    BY <2>1, <2>2
<1>4. CASE ReadCommand
  <2>1. Command(0, StopBit) \in Cmd
    BY StopBitType, CommandType
  <2>2. /\ ~active /\ active' = TRUE /\ DataCmd(Command(0, StopBit))
        /\ UNCHANGED <<call, alen, len, transfers>>
    BY <1>4 DEF ReadCommand, Keep
  <2>3. \/ Len(tx') = Len(tx)
        \/ Len(tx') = Len(tx) + 1 /\ Len(tx) < TxDepth
    BY <2>1, <2>2, DataCmdLength
  <2>4. Pending = 0 /\ Pending' = 1
    BY <2>2 DEF Pending
  <2>5. Len(tx') \in Nat /\ Len(tx') <= Len(tx) + 1 /\ Len(tx') <= TxDepth
    BY <1>a, <2>3
  <2>6. transfers + Len(tx') <= (call.alen - alen) + (call.len - len) + 1
    BY <1>a, <2>4, <2>5
  <2>7. transfers' + Len(tx') <= (call'.alen - alen') + (call'.len - len') + Pending'
    BY <2>2, <2>4, <2>6
  <2> QED
    BY <2>5, <2>7
<1>5. CASE ReadByte
  <2>1. /\ len' = len - 1 /\ Pending = 1 /\ Pending' = 0
        /\ UNCHANGED <<call, alen, tx, transfers>>
    BY <1>5 DEF ReadByte, Pending
  <2>2. (call.len - len') + 0 = (call.len - len) + 1
    BY <1>a, <2>1
  <2>3. transfers + Len(tx) <= (call.alen - alen) + (call.len - len') + 0
    BY <1>a, <2>1, <2>2
  <2> QED
    BY <2>1, <2>3
<1>6. CASE WriteByte
  <2>1. Command(call.len - len + 1, StopBit) \in Cmd
    <3>1. call.len - len + 1 \in Int
      BY <1>a
    <3> QED
      BY <3>1, StopBitType, CommandType
  <2>2. DataCmd(Command(call.len - len + 1, StopBit)) /\ len' = len - 1 /\ len > 0
    BY <1>6 DEF WriteByte
  <2>3. \/ Len(tx') = Len(tx)
        \/ Len(tx') = Len(tx) + 1 /\ Len(tx) < TxDepth
    BY <2>1, <2>2, DataCmdLength
  <2>4. UNCHANGED <<call, alen, active, transfers>>
    BY <1>6 DEF WriteByte
  <2>5. /\ Len(tx') <= Len(tx) + 1 /\ Len(tx') <= TxDepth
        /\ call'.alen - alen' = call.alen - alen
        /\ call'.len - len' = (call.len - len) + 1
    BY <1>a, <2>2, <2>3, <2>4
  <2>6. Len(tx') \in Nat
    BY <1>a, <2>3
  <2> QED
    <3>1. Pending' = Pending /\ Pending \in {0, 1} /\ transfers' = transfers
      BY <2>4 DEF Pending
    <3> QED
      <4>1. transfers + Len(tx') <= (call.alen - alen) + ((call.len - len) + 1) + Pending
        <5>1. /\ transfers \in Int /\ Len(tx') \in Int /\ Len(tx) \in Int /\ Pending \in Int
              /\ call.alen - alen \in Int /\ call.len - len \in Int
          BY <1>a, <2>5, <2>6, <3>1
        <5>2. transfers + Len(tx) <= (call.alen - alen) + (call.len - len) + Pending
          OBVIOUS
        <5> QED
          BY <2>5, <5>1, <5>2, OneMore
      <4>2. Len(tx') <= TxDepth
        BY <2>5
      <4> QED
        BY <4>1, <4>2, <2>5, <3>1
<1>7. CASE Take
  <2>1. Len(tx') = Len(tx) - 1
    BY <1>7 DEF Take, Types
  <2> QED
    BY <1>7, <1>a, <2>1, SMTT(30) DEF Take, Pending
<1>8. CASE Transmit
  BY <1>8, <1>a DEF Transmit, Pending
<1>9. CASE Abort
  <2>1. Len(tx') = 0
    BY <1>9 DEF Abort
  <2> QED
    BY <1>9, <1>a, <2>1 DEF Abort, Pending
<1>10. CASE EmptyStop
  BY <1>10, <1>a DEF EmptyStop, Pending
<1> QED
  BY <1>0, <1>1, <1>2, <1>3, <1>4, <1>5, <1>6, <1>7, <1>8, <1>9, <1>10, Moves DEF Flows

LEMMA HoldingStep ==
  Types /\ Phases /\ Reading /\ Holding /\ [Next]_vars => Holding'
<1> SUFFICES ASSUME Types, Phases, Reading, Holding, [Next]_vars, hold', ~abrt' PROVE Holding'
  BY DEF Holding
<1> USE DEF Holding, AllQueued, driver, speed, ctrl, history, Keep, Quiet
<1>a. /\ alen \in Nat /\ len \in Nat /\ Len(tx) \in Nat /\ transfers \in Nat
  BY CallType DEF Types
<1>0. CASE UNCHANGED flow
  BY <1>0 DEF flow
<1>1. ASSUME NEW c \in Call, Begin(c) PROVE Holding'
  BY <1>1 DEF Begin, Phases, Quiescent
<1>2. CASE i2c_setaddress
  BY <1>2, CommandType DEF i2c_setaddress, Phases
<1>3. CASE PutAddress
  <2>1. CASE alen > 0
    <3>1. Command(-alen, FALSE) \in Cmd /\ ~Command(-alen, FALSE).stop
      <4>1. -alen \in Int
        BY <1>a
      <4> QED
        BY <4>1, CommandType
    <3>2. /\ DataCmd(Command(-alen, FALSE)) /\ hold /\ ~abrt
          /\ UNCHANGED <<cur, ma, transfers, wire, sent>>
      BY <1>3, <2>1 DEF PutAddress
    <3>3. ~AllQueued
      BY <2>1
    <3>4. \A k \in 1 .. Len(tx') : ~tx'[k].stop
      BY <3>1, <3>2, <3>3, DataCmdPlaces
    <3> QED
      BY <3>2, <3>3, <3>4
  <2>2. CASE ~(alen > 0)
    BY <1>3, <2>2 DEF PutAddress
  <2> QED
    BY <2>1, <2>2
<1>4. CASE ReadCommand
  <2>1. Command(0, StopBit) \in Cmd /\ Command(0, StopBit).stop = StopBit
    BY StopBitType, CommandType
  <2>2. ~AllQueued /\ hold /\ ~abrt /\ DataCmd(Command(0, StopBit)) /\ alen = 0
    BY <1>4, <1>a DEF ReadCommand, Phases
  <2>3. StopBit => AllQueued'
    BY <1>4, <2>2 DEF ReadCommand, StopBit
  <2>4. \A k \in 1 .. Len(tx') : tx'[k].stop => k = Len(tx') /\ AllQueued'
    BY <2>1, <2>2, <2>3, DataCmdPlaces
  <2> QED
    BY <1>4, <2>2, <2>4 DEF ReadCommand
<1>5. CASE ReadByte
  <2>1. AllQueued => AllQueued'
    BY <1>5, <1>a DEF ReadByte
  <2> QED
    BY <1>5, <2>1 DEF ReadByte
<1>6. CASE WriteByte
  <2>1. /\ Command(call.len - len + 1, StopBit) \in Cmd
        /\ Command(call.len - len + 1, StopBit).stop = StopBit
    <3>1. call.len - len + 1 \in Int
      BY CallType DEF Types
    <3> QED
      BY <3>1, StopBitType, CommandType
  <2>2. /\ ~AllQueued /\ hold /\ ~abrt /\ alen = 0
        /\ DataCmd(Command(call.len - len + 1, StopBit))
    BY <1>6, <1>a DEF WriteByte, Phases
  <2>3. StopBit => AllQueued'
    BY <1>6, <2>2 DEF WriteByte, StopBit
  <2>4. \A k \in 1 .. Len(tx') : tx'[k].stop => k = Len(tx') /\ AllQueued'
    BY <2>1, <2>2, <2>3, DataCmdPlaces
  <2> QED
    BY <1>6, <2>2, <2>4 DEF WriteByte
<1>7. CASE Take
  <2>1. /\ cur' = tx[1] /\ tx' = Tail(tx) /\ tx # <<>> /\ cur.none
        /\ UNCHANGED <<alen, len, active, wire, sent>>
    BY <1>7 DEF Take, Types
  <2>2. \A k \in 1 .. Len(tx') : tx'[k].stop => k = Len(tx') /\ AllQueued
    BY <1>7, <2>1 DEF Take, Types
  <2>3. cur'.stop => tx' = <<>> /\ AllQueued
    BY <1>7, <2>1 DEF Take, Types
  <2>4. transfers' = 1 /\ ma'
    BY <1>7, <1>a DEF Take, Types
  <2> QED
    BY <1>7, <2>1, <2>2, <2>3, <2>4 DEF Take
<1>8. CASE Transmit
  <2>1. ma /\ transfers = 1
    BY <1>8, <1>a DEF Transmit, Phases
  <2>2. cur.stop => tx = <<>> /\ AllQueued
    BY <1>8 DEF Transmit
  <2> QED
    BY <1>8, <2>1, <2>2, CommandType DEF Transmit, Stopped
<1>9. CASE Abort
  BY <1>9 DEF Abort
<1>10. CASE EmptyStop
  BY <1>10 DEF EmptyStop
<1> QED
  BY <1>0, <1>1, <1>2, <1>3, <1>4, <1>5, <1>6, <1>7, <1>8, <1>9, <1>10, Moves DEF Flows

LEMMA InFifoAll ==
  ASSUME Types, \A k \in 1 .. Len(tx) : tx[k].byte # 0
  PROVE  InFifo = Len(tx)
<1>1. CASE tx = <<>>
  BY <1>1 DEF InFifo
<1>2. CASE tx # <<>>
  <2>1. Len(tx) \in 1 .. Len(tx)
    BY <1>2 DEF Types
  <2> QED
    BY <2>1 DEF InFifo
<1> QED
  BY <1>1, <1>2

(* The bytes of the message, and how a command that is queued continues it. *)
LEMMA WritingQueues ==
  ASSUME Types, Phases, Writing, ~abrt, ~abrt', ~active,
         NEW c \in Cmd, DataCmd(c), Len(tx) < TxDepth,
         \A k \in 1 .. Len(tx) : tx[k].byte # 0,
         UNCHANGED <<call, cur, wire>>,
         \/ c.byte = 0 /\ Queued' = Queued
         \/ c.byte = MessageByte(Queued + 1) /\ c.byte # 0 /\ Queued' = Queued + 1
  PROVE  Writing'
<1>1. tx' = Append(tx, c) /\ Len(tx) \in Nat
  BY I2cAssumption DEF DataCmd, Types, I2cAssumption
<1>2. Len(tx') = Len(tx) + 1 /\ tx'[Len(tx) + 1] = c /\ \A k \in 1 .. Len(tx) : tx'[k] = tx[k]
  BY <1>1 DEF Types
<1>3. InFifo = Len(tx)
  BY InFifoAll
<1>4. InFifo' = IF c.byte = 0 THEN Len(tx) ELSE Len(tx) + 1
  <2>1. tx' # <<>> /\ Len(tx') = Len(tx) + 1 /\ tx'[Len(tx')] = c
    <3>1. Len(tx) + 1 # 0 /\ Len(<<>>) = 0
      BY <1>1
    <3> QED
      BY <1>2, <3>1
  <2>2. (Len(tx) + 1) - 1 = Len(tx)
    BY <1>1
  <2> QED
    BY <2>1, <2>2 DEF InFifo
<1>5. OnBus' = OnBus /\ OnBus \in {0, 1} /\ Len(wire) \in Nat
  BY DEF OnBus, Types
<1>6. Len(wire) + OnBus + Len(tx) = Queued
  BY <1>3 DEF Writing
<1>7. \A k \in 1 .. Len(tx') :
        tx'[k].byte # 0 => tx'[k].byte = MessageByte(Len(wire) + OnBus + k)
  <2> SUFFICES ASSUME NEW k \in 1 .. Len(tx'), tx'[k].byte # 0
               PROVE  tx'[k].byte = MessageByte(Len(wire) + OnBus + k)
    OBVIOUS
  <2>1. CASE k \in 1 .. Len(tx)
    BY <1>2, <2>1 DEF Writing
  <2>2. CASE k = Len(tx) + 1
    <3>1. Len(wire) + OnBus + k = Queued + 1
      BY <1>1, <1>5, <1>6, <2>2
    <3> QED
      BY <1>2, <2>2, <3>1
  <2> QED
    BY <1>1, <1>2, <2>1, <2>2
<1>8. \A k : MessageByte(k)' = MessageByte(k)
  BY DEF MessageByte
<1>9. Len(wire) + OnBus + InFifo' = Queued'
  <2>1. CASE c.byte = 0
    BY <1>4, <1>6, <2>1
  <2>2. CASE c.byte # 0
    <3>1. Queued' = Queued + 1 /\ InFifo' = Len(tx) + 1
      BY <1>4, <2>2
    <3> QED
      BY <1>1, <1>5, <1>6, <3>1
  <2> QED
    BY <2>1, <2>2
<1> QED
  BY <1>5, <1>7, <1>8, <1>9 DEF Writing

LEMMA WritingStep ==
  Types /\ Phases /\ Reading /\ Writing /\ [Next]_vars => Writing'
<1> SUFFICES ASSUME Types, Phases, Reading, Writing, [Next]_vars, ~abrt' PROVE Writing'
  BY DEF Writing
<1> USE DEF driver, speed, ctrl, history, Keep, Quiet
<1>a. /\ alen \in Nat /\ len \in Nat /\ call.alen \in Nat /\ call.len \in Nat
      /\ call.alen < TxDepth /\ TxDepth \in Nat /\ Len(tx) \in Nat /\ Len(wire) \in Nat
      /\ alen <= call.alen /\ len <= call.len /\ OnBus \in {0, 1}
  BY CallType, I2cAssumption DEF Types, I2cAssumption, OnBus
<1>b. ~active => (\A k \in 1 .. Len(tx) : tx[k].byte # 0) /\ InFifo = Len(tx)
  BY InFifoAll DEF Reading
<1>c. ~active /\ ~abrt => Len(tx) <= Queued
  BY <1>a, <1>b DEF Writing
<1>0. CASE UNCHANGED flow
  BY <1>0 DEF flow, Writing, OnBus, InFifo, Queued, MessageByte
<1>1. ASSUME NEW c \in Call, Begin(c) PROVE Writing'
  <2>1. Queued' = 0 /\ Len(wire') = 0 /\ Len(tx') = 0 /\ tx' = <<>> /\ cur'.none
    BY <1>1, CallType DEF Begin, Queued, Phases, Quiescent
  <2> QED
    BY <2>1 DEF Writing, OnBus, InFifo
<1>2. CASE i2c_setaddress
  <2>1. Queued' = 0 /\ Len(wire') = 0 /\ Len(tx') = 0 /\ tx' = <<>> /\ cur'.none
    BY <1>2, <1>a, CommandType DEF i2c_setaddress, Queued, Phases
  <2> QED
    BY <2>1 DEF Writing, OnBus, InFifo
<1>3. CASE PutAddress
  <2>1. ~active /\ len = call.len /\ ~abrt
    BY <1>3 DEF PutAddress, Phases
  <2>2. CASE alen > 0
    <3>1. Queued = call.alen - alen
      BY <1>a, <2>1 DEF Queued
    <3>2. -alen \in Int
      BY <1>a
    <3>3. Command(-alen, FALSE) \in Cmd /\ Command(-alen, FALSE).byte = -alen
      BY <3>2, CommandType
    <3>4. DataCmd(Command(-alen, FALSE)) /\ UNCHANGED <<call, cur, wire, len>> /\ alen' = alen - 1
      BY <1>3, <2>2 DEF PutAddress
    <3>5. MessageByte(Queued + 1) = -alen /\ -alen # 0
      BY <1>a, <2>2, <3>1 DEF MessageByte
    <3>6. Queued' = Queued + 1
      BY <1>a, <2>1, <3>1, <3>4 DEF Queued
    <3>7. Len(tx) < TxDepth
      BY <1>a, <1>c, <2>1, <3>1
    <3> QED
      BY <1>b, <2>1, <3>3, <3>4, <3>5, <3>6, <3>7, WritingQueues
  <2>3. CASE ~(alen > 0)
    BY <1>3, <2>3 DEF PutAddress, Writing, OnBus, InFifo, Queued, MessageByte
  <2> QED
    BY <2>2, <2>3
<1>4. CASE ReadCommand
  <2>1. ~active /\ ~abrt /\ IsRead /\ alen = 0
    BY <1>4 DEF ReadCommand, Phases
  <2>2. Command(0, StopBit) \in Cmd /\ Command(0, StopBit).byte = 0
    BY StopBitType, CommandType
  <2>3. DataCmd(Command(0, StopBit)) /\ UNCHANGED <<call, cur, wire, len, alen>>
    BY <1>4 DEF ReadCommand
  <2>4. Queued = call.alen /\ Queued' = Queued
    BY <1>a, <2>1, <2>3 DEF Queued
  <2>5. Len(tx) < TxDepth
    BY <1>a, <1>c, <2>1, <2>4
  <2> QED
    BY <1>b, <2>1, <2>2, <2>3, <2>4, <2>5, WritingQueues
<1>5. CASE ReadByte
  <2>1. IsRead /\ UNCHANGED <<call, alen, tx, cur, wire, abrt>>
    BY <1>5 DEF ReadByte, Phases
  <2> QED
    BY <2>1 DEF Writing, OnBus, InFifo, Queued, MessageByte
<1>6. CASE WriteByte
  <2>1. ~active /\ ~abrt /\ ~IsRead /\ alen = 0 /\ len > 0 /\ Len(tx) < TxDepth
    BY <1>6 DEF WriteByte, Phases
  <2>2. call.len - len + 1 \in Int /\ call.len - len + 1 # 0
    BY <1>a
  <2>3. /\ Command(call.len - len + 1, StopBit) \in Cmd
        /\ Command(call.len - len + 1, StopBit).byte = call.len - len + 1
    BY <2>2, StopBitType, CommandType
  <2>4. /\ DataCmd(Command(call.len - len + 1, StopBit)) /\ len' = len - 1
        /\ UNCHANGED <<call, cur, wire, alen>>
    BY <1>6 DEF WriteByte
  <2>5. Queued = call.alen + (call.len - len)
    BY <1>a, <2>1 DEF Queued
  <2>6. Queued' = Queued + 1
    <3>1. Queued' = call.alen + (call.len - len')
      BY <1>a, <2>1, <2>4 DEF Queued
    <3>2. call.len - len' = (call.len - len) + 1
      BY <1>a, <2>4
    <3> QED
      BY <1>a, <2>5, <3>1, <3>2
  <2>7. MessageByte(Queued + 1) = call.len - len + 1
    BY <1>a, <2>5 DEF MessageByte
  <2> QED
    BY <1>b, <2>1, <2>2, <2>3, <2>4, <2>6, <2>7, WritingQueues
<1>7. CASE Take
  <2>1. /\ tx # <<>> /\ cur.none /\ ~abrt /\ cur' = tx[1] /\ tx' = Tail(tx) /\ ~cur'.none
        /\ UNCHANGED <<call, alen, len, wire>>
    BY <1>7, CommandType DEF Take, Types
  <2>2. /\ Len(tx') = Len(tx) - 1 /\ Len(tx) > 0
        /\ \A k \in 1 .. Len(tx') : tx'[k] = tx[k + 1]
    BY <2>1 DEF Types
  <2>3. OnBus = 0 /\ Queued' = Queued /\ \A k : MessageByte(k)' = MessageByte(k)
    BY <2>1 DEF OnBus, Queued, MessageByte
  <2>4. CASE tx[1].byte = 0
    <3>1. Len(tx) = 1
      BY <1>a, <2>2, <2>4 DEF Reading
    <3>2. OnBus' = 0 /\ InFifo = 0 /\ InFifo' = 0 /\ Len(tx') = 0
      <4>1. Len(tx') = 0 /\ tx' \in Seq(Cmd)
        BY <2>1, <2>2, <3>1 DEF Types
      <4>2. tx' = <<>>
        BY <4>1
      <4>3. InFifo = 0 /\ InFifo' = 0
        BY <2>1, <2>4, <3>1, <4>1, <4>2 DEF InFifo
      <4> QED
        BY <2>1, <2>4, <4>1, <4>3 DEF OnBus
    <3>3. Len(wire) + OnBus' + InFifo' = Queued'
      BY <2>1, <2>3, <3>2 DEF Writing
    <3>4. \A k \in 1 .. Len(wire') : wire'[k] = MessageByte(k)'
      BY <2>1, <2>3 DEF Writing
    <3>5. \A k : k \notin 1 .. Len(tx')
      BY <3>2
    <3>6. ~(OnBus' = 1)
      BY <3>2
    <3> QED
      BY <3>3, <3>4, <3>5, <3>6, <2>1, Zenon DEF Writing
  <2>5. CASE tx[1].byte # 0
    <3>1. OnBus' = 1
      BY <2>1, <2>5 DEF OnBus
    <3>2. InFifo' = InFifo - 1
      <4>1. CASE Len(tx) = 1
        <5>1. tx' = <<>> /\ Len(tx') = 0
          <6>1. Len(tx') = 0 /\ tx' \in Seq(Cmd)
            BY <2>1, <2>2, <4>1 DEF Types
          <6> QED
            BY <6>1
        <5> QED
          BY <2>1, <2>5, <4>1, <5>1 DEF InFifo
      <4>2. CASE Len(tx) > 1
        <5>1. tx'[Len(tx')] = tx[Len(tx)] /\ tx' # <<>>
          BY <1>a, <2>2, <4>2
        <5> QED
          BY <1>a, <2>1, <2>2, <5>1 DEF InFifo
      <4> QED
        BY <1>a, <2>2, <4>1, <4>2
    <3>3. \A k \in 1 .. Len(tx') :
            tx'[k].byte # 0 => tx'[k].byte = MessageByte(Len(wire) + 1 + k)
      <4> SUFFICES ASSUME NEW k \in 1 .. Len(tx'), tx'[k].byte # 0
                   PROVE  tx'[k].byte = MessageByte(Len(wire) + 1 + k)
        OBVIOUS
      <4>1. k + 1 \in 1 .. Len(tx) /\ tx'[k] = tx[k + 1]
        BY <1>a, <2>2
      <4>2. Len(wire) + 0 + (k + 1) = Len(wire) + 1 + k
        BY <1>a
      <4> QED
        BY <2>1, <2>3, <4>1, <4>2 DEF Writing
    <3>4. cur'.byte = MessageByte(Len(wire) + 1)
      <4>1. 1 \in 1 .. Len(tx) /\ Len(wire) + 0 + 1 = Len(wire) + 1
        BY <1>a, <2>2
      <4> QED
        BY <2>1, <2>3, <2>5, <4>1 DEF Writing
    <3>5. Len(wire) + 1 + InFifo' = Queued'
      <4>1. Len(wire) + 0 + InFifo = Queued
        BY <2>1, <2>3 DEF Writing
      <4>2. InFifo \in Int
        BY <1>a DEF InFifo
      <4> QED
        BY <1>a, <2>3, <3>2, <4>1, <4>2
    <3> QED
      BY <2>1, <2>3, <3>1, <3>3, <3>4, <3>5 DEF Writing
  <2> QED
    BY <2>4, <2>5
<1>8. CASE Transmit
  <2>1. ~abrt /\ ~cur.none /\ OnBus' = 0 /\ UNCHANGED <<call, alen, len, tx>>
    BY <1>8, CommandType DEF Transmit, OnBus
  <2>2. InFifo' = InFifo /\ Queued' = Queued /\ \A k : MessageByte(k)' = MessageByte(k)
    BY <2>1 DEF InFifo, Queued, MessageByte
  <2>3. CASE cur.byte = 0
    <3>1. OnBus = 0 /\ wire' = wire
      BY <1>8, <2>3 DEF Transmit, OnBus
    <3> QED
      BY <2>1, <2>2, <3>1 DEF Writing
  <2>4. CASE cur.byte # 0
    <3>1. OnBus = 1 /\ wire' = Append(wire, cur.byte) /\ cur.byte \in Int
      BY <1>8, <2>1, <2>4, CommandType DEF Transmit, OnBus, Types
    <3>2. /\ Len(wire') = Len(wire) + 1 /\ wire'[Len(wire) + 1] = cur.byte
          /\ \A k \in 1 .. Len(wire) : wire'[k] = wire[k]
      BY <3>1 DEF Types
    <3>3. \A k \in 1 .. Len(wire') : wire'[k] = MessageByte(k)
      BY <1>a, <2>1, <3>1, <3>2 DEF Writing
    <3>4. Len(wire') + 0 = Len(wire) + OnBus
      BY <1>a, <3>1, <3>2
    <3> QED
      BY <2>1, <2>2, <3>3, <3>4 DEF Writing
  <2> QED
    BY <2>3, <2>4
<1>9. CASE Abort
  BY <1>9 DEF Abort
<1>10. CASE EmptyStop
  BY <1>10 DEF EmptyStop, Writing, OnBus, InFifo, Queued, MessageByte
<1> QED
  BY <1>0, <1>1, <1>2, <1>3, <1>4, <1>5, <1>6, <1>7, <1>8, <1>9, <1>10, Moves DEF Flows

LEMMA HeldStep == Types /\ Held /\ [Next]_vars => Held'
<1> SUFFICES ASSUME Types, Held, [Next]_vars PROVE Held'
  OBVIOUS
<1> USE DEF Held
<1>1. CASE UNCHANGED flow
  BY <1>1 DEF flow
<1>2. CASE i2c_setaddress \/ Abort
  BY <1>2, CommandType DEF i2c_setaddress, Abort
<1>3. CASE (\E c \in Call : Begin(c)) \/ ReadByte \/ EmptyStop
  BY <1>3 DEF Begin, ctrl, ReadByte, EmptyStop
<1>4. CASE PutAddress \/ ReadCommand \/ WriteByte
  BY <1>4 DEF PutAddress, ReadCommand, WriteByte, DataCmd
<1>5. CASE Take \/ Transmit
  BY <1>5, CommandType DEF Take, Transmit
<1> QED
  BY <1>1, <1>2, <1>3, <1>4, <1>5, Moves DEF Flows

------------------------------------------------------------------------------
(* The speed is set beside all this.  *)
LEMMA CountsType == \A f \in Freqs : Counts(f) \in Word16 \X Word16
<1> SUFFICES ASSUME NEW f \in Freqs PROVE Counts(f) \in Word16 \X Word16
  OBVIOUS
<1>1. f[1] \in Nat /\ f[2] \in Nat \ {0}
  BY I2cAssumption DEF I2cAssumption
<1>2. Ratio(f) \in Int
  BY <1>1 DEF Ratio
<1>3. ASSUME NEW x \in Int PROVE Reg16(x) \in Word16
  <2> DEFINE Top == 65535
  <2>1. Word16 = 0 .. Top
    BY DEF Word16
  <2>2. Top \in Int /\ Reg16(x) \in Int /\ 0 <= Reg16(x) /\ Reg16(x) <= Top
    BY SMTT(30) DEF Reg16
  <2> HIDE DEF Top
  <2> QED
    BY <2>1, <2>2
<1>4. ASSUME NEW r \in Int PROVE r \div 22 \in Int /\ r \div 19 \in Int /\ r \div 87 \in Int
  BY SMTT(30)
<1> QED
  BY <1>2, <1>3, <1>4, SMT DEF Counts

LEMMA SettingStep == Setting /\ [Next]_vars => Setting'
<1> SUFFICES ASSUME Setting, [Next]_vars PROVE Setting'
  OBVIOUS
<1> USE DEF driver, speed, ctrl, history, Keep, Quiet
<1>1. ASSUME NEW f \in Freqs, dw_i2c_set_frequency(f) PROVE Setting'
  <2>1. ModeFor(f[2]) \in Mode
    BY DEF ModeFor, Mode
  <2>2. Counts(f) \in Word16 \X Word16
    BY CountsType
  <2>3. scl' = [scl EXCEPT ![ModeFor(f[2])] = Counts(f)] /\ asked' = f /\ setups' = setups + 1
    BY <1>1 DEF dw_i2c_set_frequency
  <2>4. scl' \in [Mode -> Word16 \X Word16] /\ scl'[ModeFor(f[2])] = Counts(f)
    BY <2>1, <2>2, <2>3, Zenon DEF Setting
  <2>5. con' \in SUBSET {1, 2}
    BY <1>1 DEF dw_i2c_set_frequency, Setting, Bits, ModeFor
  <2>6. setups' \in Nat
    BY <2>3 DEF Setting
  <2> QED
    BY <2>3, <2>4, <2>5, <2>6, Zenon DEF Setting
<1>2. CASE dw_i2c_master_init
  BY <1>2 DEF dw_i2c_master_init, Setting, Bits
<1>3. CASE UNCHANGED speed
  BY <1>3, Zenon DEF Setting
<1>4. CASE UNCHANGED vars
  BY <1>3, <1>4 DEF vars
<1>5. CASE dw_i2c_set_address \/ \E c \in Call : Begin(c)
  BY <1>3, <1>5 DEF dw_i2c_set_address, Begin
<1>6. CASE Driver
  BY <1>3, <1>6 DEF Driver, WaitForBb, i2c_setaddress, PutAddress, ReadCommand, ReadByte, WriteByte,
     LoopEnd, RxStop, i2c_flush_rxfifo, TxStatus, TxStop
<1>7. CASE Controller
  BY <1>3, <1>7 DEF Controller, Take, Transmit, Abort, EmptyStop
<1> QED
  BY <1>1, <1>2, <1>4, <1>5, <1>6, <1>7 DEF Next, Caller

(* The message of a call, and how much of it the device has received.  *)
LEMMA Messages ==
  ASSUME Types
  PROVE  /\ call.alen \in Nat /\ call.len \in Nat /\ Payload \in Nat
         /\ Message \in Seq(Int) /\ Len(Message) = call.alen + Payload
         /\ \A k \in 1 .. call.alen + Payload : Message[k] = MessageByte(k)
<1>1. call.alen \in Nat /\ call.len \in Nat
  BY CallType DEF Types
<1>2. Payload \in Nat
  BY <1>1 DEF Payload
<1>3. Message = [k \in 1 .. call.alen + Payload |-> MessageByte(k)]
  BY DEF Message, MessageByte
<1>4. \A k \in 1 .. call.alen + Payload : MessageByte(k) \in Int
  BY <1>1, <1>2 DEF MessageByte
<1> QED
  BY <1>1, <1>2, <1>3, <1>4

LEMMA Arrived ==
  ASSUME Types, Writing, ~abrt, OnBus = 0, InFifo = 0, Queued = call.alen + Payload
  PROVE  wire = Message
<1>1. Len(wire) = call.alen + Payload
  BY Messages DEF Writing, Types
<1>2. wire \in Seq(Int) /\ \A k \in 1 .. call.alen + Payload : wire[k] = MessageByte(k)
  BY <1>1 DEF Writing, Types
<1>3. wire = [k \in 1 .. call.alen + Payload |-> MessageByte(k)]
  BY <1>1, <1>2, Messages
<1> QED
  BY <1>3 DEF Message, MessageByte

LEMMA StillToGo ==
  ASSUME IInv, ~cur.none, cur.byte # 0
  PROVE  ~abrt /\ cur.byte = MessageByte(Len(wire) + 1) /\ Len(wire) < call.alen + Payload
<1> USE DEF IInv
<1>1. ~abrt
  BY DEF Held
<1>2. OnBus = 1 /\ InFifo \in Nat /\ Len(wire) \in Nat
  BY DEF OnBus, InFifo, Types
<1>3. Queued <= call.alen + Payload
  BY Messages, SMTT(30) DEF Queued, Payload, Types
<1>4. Len(wire) + 1 + InFifo = Queued
  BY <1>1, <1>2 DEF Writing
<1>5. Queued \in Int
  BY <1>2, <1>4
<1>6. cur.byte = MessageByte(Len(wire) + 1)
  BY <1>1, <1>2 DEF Writing
<1> QED
  BY <1>1, <1>2, <1>3, <1>4, <1>5, <1>6, Messages

(* The inductive invariant: one call on its way through both FIFOs, and the *)
(* registers of the speed, in every state of dw_i2c.c and its controller.   *)
THEOREM Inductive == Spec => [](IInv /\ Setting)
<1>1. IInv /\ Setting /\ [Next]_vars => (IInv /\ Setting)'
  BY TypesStep, PhasesStep, ReadingStep, WritingStep, HoldingStep, CountingStep, HeldStep,
     SettingStep DEF IInv
<1> QED
  BY InitIInv, <1>1, PTL DEF Spec

(* The values of the driver's variables, of both FIFOs (never more than they *)
(* hold) and of the registers, at every depth and length.                    *)
THEOREM TypeCorrect == Spec => []TypeOK
<1>1. IInv /\ Setting => TypeOK
  <2> SUFFICES ASSUME IInv, Setting PROVE TypeOK
    OBVIOUS
  <2> USE DEF IInv
  <2>1. /\ call.alen \in Nat /\ call.len \in Nat /\ call.alen <= MaxAlen /\ call.len <= MaxLen
        /\ alen \in 0 .. call.alen /\ len \in 0 .. call.len /\ MaxAlen \in Nat /\ MaxLen \in Nat
    BY CallType, I2cAssumption DEF Types, I2cAssumption
  <2>2. alen \in 0 .. MaxAlen /\ len \in 0 .. MaxLen
    BY <2>1
  <2>3. Len(buf) <= MaxLen /\ Len(rx) <= MaxLen
    <3>1. Len(buf) \in Nat /\ Len(rx) \in Nat /\ Len(rx) <= 1
      BY DEF Types, Reading
    <3>2. Len(buf) <= MaxLen
      <4>1. CASE IsRead
        BY <2>1, <3>1, <4>1 DEF Reading
      <4>2. CASE ~IsRead
        BY <2>1, <4>2 DEF Reading
      <4> QED
        BY <4>1, <4>2
    <3>3. Len(rx) <= MaxLen
      <4>1. CASE rx = <<>>
        BY <2>1, <4>1
      <4>2. CASE rx # <<>>
        <5>1. len > 0
          BY <4>2 DEF Phases, Reading
        <5> QED
          BY <2>1, <3>1, <5>1
      <4> QED
        BY <4>1, <4>2
    <3> QED
      BY <3>2, <3>3
  <2>4. transfers \in 0 .. MaxAlen + MaxLen
    <3>1. Pending <= len /\ Pending \in {0, 1}
      BY <2>1 DEF Pending, Phases
    <3>2. transfers \in Nat /\ Len(tx) \in Nat
      BY DEF Types
    <3>3. transfers + Len(tx) <= (call.alen - alen) + (call.len - len) + Pending
      BY DEF Counting
    <3> QED
      BY <2>1, <3>1, <3>2, <3>3
  <2> QED
    BY <2>2, <2>3, <2>4 DEF TypeOK, Types, Setting, Counting
<1> QED
  BY <1>1, Inductive, PTL

(* A read never brings a byte too many, whatever the order in which the      *)
(* driver polls and the controller answers, and the bytes of a read that     *)
(* returns are its own.                                                      *)
THEOREM ReadsExact == Spec => []ReadExact
<1>1. IInv => ReadExact
  <2> SUFFICES ASSUME IInv, IsRead PROVE ReadExact
    BY DEF ReadExact
  <2> USE DEF IInv
  <2>1. /\ call.len \in Nat /\ len \in Nat /\ len <= call.len /\ Len(buf) \in Nat /\ sent \in Nat
    BY CallType DEF Types
  <2>2. sent <= call.len
    <3>1. CASE rx = <<>>
      BY <2>1, <3>1 DEF Reading
    <3>2. CASE rx # <<>>
      <4>1. len > 0 /\ Len(rx) = 1
        BY <3>2, OneByte DEF Types, Phases, Reading
      <4> QED
        BY <2>1, <4>1 DEF Reading
    <3> QED
      BY <3>1, <3>2
  <2>3. ASSUME Returned PROVE buf = [k \in 1 .. call.len |-> k] /\ rx = <<>>
    <3>1. len = 0 /\ rx = <<>>
      BY <2>3 DEF Returned, Phases, Quiescent
    <3>2. Len(buf) = call.len /\ \A k \in 1 .. call.len : buf[k] = k
      BY <2>1, <3>1 DEF Reading
    <3>3. buf \in Seq(Nat)
      BY DEF Types
    <3> QED
      BY <3>1, <3>2, <3>3
  <2> QED
    BY <2>2, <2>3 DEF ReadExact
<1> QED
  BY <1>1, Inductive, PTL

(* What a call that returned was to write has reached the device, although   *)
(* the driver never waits for the last byte itself.                          *)
THEOREM WritesComplete == Spec => []WriteComplete
<1>1. IInv => WriteComplete
  <2> SUFFICES ASSUME IInv, Returned, ~abrt PROVE wire = Message /\ ~ma
    BY DEF WriteComplete
  <2> USE DEF IInv
  <2>1. tx = <<>> /\ cur.none /\ ~ma /\ alen = 0 /\ len = 0
    BY DEF Returned, Phases, Quiescent
  <2>2. Queued = call.alen + Payload
    BY <2>1, Messages DEF Queued, Payload
  <2>3. OnBus = 0 /\ InFifo = 0
    BY <2>1 DEF OnBus, InFifo
  <2> QED
    BY <2>1, <2>2, <2>3, Arrived
<1> QED
  BY <1>1, Inductive, PTL

(* The build that holds the bus needs one transfer for a call, however long  *)
(* the driver takes between two commands.                                    *)
THEOREM OneTransfer == Spec => []HoldsOneTransfer
<1>1. IInv => HoldsOneTransfer
  <2> SUFFICES ASSUME IInv, Returned, ~abrt, hold, call.len > 0 PROVE transfers = 1
    BY DEF HoldsOneTransfer
  <2> USE DEF IInv
  <2>1. tx = <<>> /\ cur.none /\ rx = <<>> /\ alen = 0 /\ len = 0
    BY DEF Returned, Phases, Quiescent
  <2>2. call.len \in Nat /\ call.alen \in Nat /\ transfers \in Nat /\ transfers <= 1
    BY CallType DEF Types, Holding
  <2>3. ASSUME transfers = 0 PROVE FALSE
    <3>1. wire = <<>> /\ sent = 0
      BY <2>3 DEF Holding
    <3>2. CASE IsRead
      BY <2>1, <2>2, <3>1, <3>2 DEF Reading, Types
    <3>3. CASE ~IsRead
      <4>1. OnBus = 0 /\ InFifo = 0 /\ Len(wire) = 0
        BY <2>1, <3>1 DEF OnBus, InFifo
      <4>2. Queued = call.alen + call.len
        BY <2>1, <2>2, <3>3 DEF Queued
      <4> QED
        BY <2>2, <4>1, <4>2 DEF Writing
    <3> QED
      BY <3>2, <3>3
  <2> QED
    BY <2>2, <2>3
<1> QED
  BY <1>1, Inductive, PTL

(* In the two slower modes the clock is the one asked for, up to a factor of *)
(* two, at every bus clock that is fast enough.                              *)
THEOREM SclClose == Spec => []SclBounded
<1>1. Setting => SclBounded
  <2> SUFFICES ASSUME Setting, setups > 0, ModeFor(asked[2]) # "HS", Enough(asked),
                      Ratio(asked) < 65536
               PROVE  LET c == scl[ModeFor(asked[2])]
                          period == (c[1] + 12) + (c[2] + 1)
                      IN  period <= Ratio(asked) /\ Ratio(asked) < 2 * period
    BY DEF SclBounded
  <2> DEFINE r == Ratio(asked)
  <2>1. asked \in Freqs /\ scl[ModeFor(asked[2])] = Counts(asked)
    BY DEF Setting
  <2>2. asked[1] \in Nat /\ asked[2] \in Nat \ {0}
    BY <2>1, I2cAssumption DEF I2cAssumption
  <2>3. r \in Nat
    BY <2>2, SMT DEF Ratio
  <2>4. CASE ModeFor(asked[2]) = "FS"
    <3>1. /\ r >= 57 /\ r < 65536
      BY <2>4, SMT DEF Enough
    <3>2. Counts(asked) = <<Reg16((r \div 19) * 6 - 12), Reg16((r \div 19) * 13 - 1)>>
      BY <2>4 DEF Counts
    <3>3. /\ Reg16((r \div 19) * 6 - 12) = (r \div 19) * 6 - 12
          /\ Reg16((r \div 19) * 13 - 1) = (r \div 19) * 13 - 1
      BY <2>3, <3>1, SMT DEF Reg16
    <3>4. 19 * (r \div 19) <= r /\ r < 2 * (19 * (r \div 19)) /\ r \div 19 \in Int
      BY <2>3, <3>1, SMT
    <3> QED
      BY <2>1, <2>3, <3>2, <3>3, <3>4, SMT
  <2>5. CASE ModeFor(asked[2]) = "SS"
    <3>1. r >= 87 /\ r < 65536
      BY <2>5, SMT DEF Enough
    <3>2. Counts(asked) = <<Reg16((r \div 87) * 40 - 12), Reg16((r \div 87) * 47 - 1)>>
      BY <2>5 DEF Counts
    <3>3. /\ Reg16((r \div 87) * 40 - 12) = (r \div 87) * 40 - 12
          /\ Reg16((r \div 87) * 47 - 1) = (r \div 87) * 47 - 1
      BY <2>3, <3>1, SMT DEF Reg16
    <3>4. 87 * (r \div 87) <= r /\ r < 2 * (87 * (r \div 87)) /\ r \div 87 \in Int
      BY <2>3, <3>1, SMT
    <3> QED
      BY <2>1, <2>3, <3>2, <3>3, <3>4, SMT
  <2> QED
    BY <2>4, <2>5 DEF ModeFor
<1> QED
  BY <1>1, Inductive, PTL

------------------------------------------------------------------------------
(* The driver implements I2cPromise.  *)
(* A step of the driver that is none of the promise's. *)
LEMMA Stutters ==
  ASSUME UNCHANGED <<call, wire, sent, buf, abrt>>,
         at' \in {"off", Idle} <=> at \in {"off", Idle}
  PROVE  UNCHANGED Promise!vars
  BY DEF Promise!vars, Message, Payload

(* What is on the bus is the next byte of the message, or, when all of it   *)
(* has been received, a command to read a byte that is still wanted.        *)
LEMMA Transmits ==
  ASSUME IInv, Transmit
  PROVE  Promise!Next
<1> USE DEF IInv
<1>1. /\ ~cur.none /\ ~abrt /\ cur \in Cmd /\ cur.byte \in Int
      /\ at \notin {"off", Idle} /\ UNCHANGED <<call, at, buf, abrt>>
  BY CommandType DEF Transmit, Held, Types, Phases, Quiescent, Quiet, driver
<1>2. Message' = Message /\ UNCHANGED (IF IsRead THEN call.len ELSE 0)
  BY <1>1 DEF Message, Payload
<1>3. CASE cur.byte # 0
  <2>1. cur.byte = MessageByte(Len(wire) + 1) /\ Len(wire) < call.alen + Payload
    BY <1>1, <1>3, StillToGo
  <2>2. Message[Len(wire) + 1] = cur.byte /\ Len(wire) < Len(Message)
    BY <2>1, Messages DEF Types
  <2>3. wire' = Append(wire, cur.byte) /\ UNCHANGED sent
    BY <1>3 DEF Transmit
  <2>4. Promise!Deliver
    BY <1>1, <1>2, <2>2, <2>3 DEF Promise!Deliver
  <2> QED
    BY <2>4 DEF Promise!Next
<1>4. CASE cur.byte = 0
  <2>1. active /\ rx = <<>> /\ tx = <<>> /\ at = "read" /\ len > 0 /\ IsRead /\ alen = 0
    BY <1>1, <1>4 DEF Reading, Phases
  <2>2. OnBus = 0 /\ InFifo = 0 /\ Queued = call.alen + Payload
    BY <1>4, <2>1, Messages DEF OnBus, InFifo, Queued, Payload
  <2>3. wire = Message
    BY <1>1, <2>2, Arrived
  <2>4. sent < call.len
    BY <2>1, Messages DEF Reading, Types
  <2>5. sent' = sent + 1 /\ UNCHANGED wire
    BY <1>4 DEF Transmit
  <2>6. Promise!Supply
    BY <1>1, <1>2, <2>1, <2>3, <2>4, <2>5 DEF Promise!Supply
  <2> QED
    BY <2>6 DEF Promise!Next
<1> QED
  BY <1>3, <1>4

(* The message that a call begins with. *)
LEMMA MessageNext ==
  ASSUME Types'
  PROVE  Message' \in Seq(Int) /\ call'.len \in Nat
<1>1. call' \in Call
  BY DEF Types
<1>2. call'.alen \in Nat /\ call'.len \in Nat
  BY <1>1, CallType
<1>3. Payload' \in Nat
  BY <1>2 DEF Payload
<1> DEFINE Byte(i) == IF i <= call'.alen THEN i - call'.alen - 1 ELSE i - call'.alen
<1>4. Message' = [i \in 1 .. call'.alen + Payload' |-> Byte(i)]
  BY DEF Message
<1>5. \A i \in 1 .. call'.alen + Payload' : Byte(i) \in Int
  BY <1>2, <1>3
<1> HIDE DEF Byte
<1> QED
  BY <1>2, <1>3, <1>4, <1>5

(* What is refused is a byte that was still to be moved. *)
LEMMA Refuses ==
  ASSUME IInv, Abort
  PROVE  Promise!Next
<1> USE DEF IInv
<1>1. /\ ~cur.none /\ ~abrt /\ cur \in Cmd /\ cur.byte \in Int /\ abrt' = TRUE
      /\ at \notin {"off", Idle} /\ UNCHANGED <<call, at, buf, wire, sent>>
  BY CommandType DEF Abort, Held, Types, Phases, Quiescent, Quiet, driver, history
<1>2. UNCHANGED <<Message, IF IsRead THEN call.len ELSE 0>>
  BY <1>1 DEF Message, Payload
<1>3. wire # Message \/ sent < IF IsRead THEN call.len ELSE 0
  <2>1. CASE cur.byte # 0
    BY <1>1, <2>1, StillToGo, Messages DEF Types
  <2>2. CASE cur.byte = 0
    <3>1. active /\ rx = <<>> /\ len > 0 /\ IsRead
      BY <1>1, <2>2 DEF Reading, Phases
    <3> QED
      BY <3>1, Messages DEF Reading, Types
  <2> QED
    BY <2>1, <2>2
<1>4. Promise!Refuse
  BY <1>1, <1>2, <1>3 DEF Promise!Refuse
<1> QED
  BY <1>4 DEF Promise!Next

(* A call that returns has nothing more to write or to read.  *)
LEMMA Returns ==
  ASSUME IInv, IInv',
         \/ WaitForBb("tx_busy", Idle)
         \/ i2c_flush_rxfifo
  PROVE  Promise!Next
<1>1. /\ at \notin {"off", Idle} /\ at' = Idle /\ UNCHANGED <<call, wire, sent, buf, abrt>>
  BY DEF WaitForBb, i2c_flush_rxfifo, Keep, ctrl, history
<1>2. UNCHANGED <<Message, IF IsRead THEN call.len ELSE 0>>
  BY <1>1 DEF Message, Payload
<1>3. alen = 0 /\ len = 0 /\ rx' = <<>> /\ tx' = <<>> /\ cur'.none /\ alen' = 0 /\ len' = 0
  BY <1>1 DEF IInv, Phases, Quiescent, WaitForBb, i2c_flush_rxfifo
<1>4. UNCHANGED <<tx, cur, alen, len>>
  BY DEF WaitForBb, i2c_flush_rxfifo, ctrl
<1>5. wire = Message \/ abrt
  <2> SUFFICES ASSUME ~abrt PROVE wire = Message
    OBVIOUS
  <2>1. OnBus = 0 /\ InFifo = 0 /\ Queued = call.alen + Payload
    BY <1>3, <1>4, Messages DEF IInv, OnBus, InFifo, Queued, Payload
  <2> QED
    BY <2>1, Arrived DEF IInv
<1>6. Len(buf) = IF IsRead THEN call.len ELSE 0
  <2>1. Len(buf) \in Nat
    BY DEF IInv, Types
  <2>2. CASE IsRead
    BY <1>3, <2>1, <2>2, Messages DEF IInv, Reading
  <2>3. CASE ~IsRead
    BY <2>3 DEF IInv, Reading
  <2> QED
    BY <2>2, <2>3
<1>7. Promise!Return
  BY <1>1, <1>2, <1>5, <1>6 DEF Promise!Return
<1> QED
  BY <1>7 DEF Promise!Next

LEMMA StepImplements ==
  ASSUME IInv, IInv', [Next]_vars
  PROVE  [Promise!Next]_(Promise!vars)
<1> USE DEF Keep, Quiet, driver, ctrl, history
<1>1. ASSUME NEW c \in Call, Begin(c) PROVE Promise!Next
  <2>1. Message' \in Seq(Int) /\ (IF IsRead THEN call.len ELSE 0)' \in Nat
    <3>1. Types'
      BY DEF IInv
    <3>2. Message' \in Seq(Int) /\ call'.len \in Nat
      BY <3>1, MessageNext
    <3> QED
      BY <3>2
  <2>2. Promise!Begin
    BY <1>1, <2>1 DEF Begin, Promise!Begin
  <2> QED
    BY <2>2 DEF Promise!Next
<1>2. CASE i2c_setaddress
  <2>1. at = "set_address" /\ wire = <<>> /\ sent = 0
    BY <1>2 DEF i2c_setaddress, IInv, Phases
  <2>2. UNCHANGED <<call, wire, sent, buf>> /\ at' = "address"
    BY <1>2 DEF i2c_setaddress
  <2>3. CASE abrt' = abrt
    BY <2>1, <2>2, <2>3, Stutters
  <2>4. CASE abrt' = FALSE
    <3>1. UNCHANGED <<Message, IF IsRead THEN call.len ELSE 0>>
      BY <2>2 DEF Message, Payload
    <3>2. Promise!SetUp
      BY <2>1, <2>2, <2>4, <3>1 DEF Promise!SetUp
    <3> QED
      BY <3>2 DEF Promise!Next
  <2> QED
    BY <1>2, <2>3, <2>4 DEF i2c_setaddress
<1>3. CASE ReadByte
  <2>1. /\ at = "read" /\ rx # <<>> /\ IsRead /\ buf' = Append(buf, Head(rx))
        /\ UNCHANGED <<call, at, wire, sent, abrt>>
    BY <1>3 DEF ReadByte, IInv, Phases
  <2>2. Len(rx) = 1 /\ Head(rx) = rx[1] /\ rx[1] = sent
    BY <2>1, OneByte DEF IInv, Types, Reading
  <2>3. sent = Len(buf) + 1
    BY <2>1, <2>2 DEF IInv, Reading
  <2>4. Len(buf) < sent /\ buf' = Append(buf, Len(buf) + 1)
    BY <2>1, <2>2, <2>3 DEF IInv, Types
  <2>5. UNCHANGED <<Message, IF IsRead THEN call.len ELSE 0>>
    BY <2>1 DEF Message, Payload
  <2>6. Promise!Take
    BY <2>1, <2>4, <2>5 DEF Promise!Take
  <2> QED
    BY <2>6 DEF Promise!Next
<1>4. CASE Transmit
  BY <1>4, Transmits
<1>5. CASE Abort
  BY <1>5, Refuses
<1>6. CASE WaitForBb("tx_busy", Idle) \/ i2c_flush_rxfifo
  BY <1>6, Returns
<1>7. CASE \/ dw_i2c_master_init \/ dw_i2c_set_address
           \/ \E f \in Freqs : dw_i2c_set_frequency(f)
           \/ UNCHANGED vars
  BY <1>7, Stutters
     DEF dw_i2c_master_init, dw_i2c_set_address, dw_i2c_set_frequency, vars
<1>8. CASE \/ WaitForBb("bus_busy", "set_address") \/ WaitForBb("rx_busy", "rx_flush")
           \/ PutAddress \/ ReadCommand \/ WriteByte
           \/ LoopEnd \/ RxStop \/ TxStatus \/ TxStop
  BY <1>8, Stutters
     DEF WaitForBb, PutAddress, ReadCommand, WriteByte, LoopEnd, RxStop, TxStatus, TxStop
<1>9. CASE \/ Take \/ EmptyStop
  BY <1>9, Stutters DEF Take, EmptyStop
<1> QED
  BY <1>1, <1>2, <1>3, <1>4, <1>5, <1>6, <1>7, <1>8, <1>9 DEF Next, Caller, Driver, Controller

(* Whatever the order of polls and bus, a call of the driver carries its     *)
(* message to the device, takes from it what it wants and returns; nothing   *)
(* moves outside of a call, or after a refused byte.                         *)
THEOREM Implements == Spec => PromiseSpec
<1>1. Init => Promise!Init
  BY DEF Init, Promise!Init, Message, Payload
<1>2. IInv /\ IInv' /\ [Next]_vars => [Promise!Next]_(Promise!vars)
  BY StepImplements
<1> QED
  BY <1>1, <1>2, Inductive, PTL DEF Spec, PromiseSpec, Promise!Spec

==============================================================================
