-------------------------------- MODULE DwI2c ---------------------------------
(***************************************************************************)
(* The I2C driver dw_i2c.c and, beside it, the DesignWare I2C controller:  *)
(* the driver queues commands in the TX FIFO and polls status flags, the   *)
(* controller takes the commands to the bus and fills the RX FIFO.         *)
(*                                                                         *)
(* Bytes are numbered: -alen .. -1 are the address bytes of a call, high   *)
(* byte first, 1 .. len its data, and 0 is the command to read a byte; the *)
(* k-th byte that the device sends in a call is k.                         *)
(*                                                                         *)
(* Without CONFIG_DW_I2C_EMPTYFIFO_HOLD_MASTER the driver never asks for a *)
(* STOP: the controller makes one when its TX FIFO is empty.  With it the  *)
(* driver sets IC_STOP in the last command.                                *)
(***************************************************************************)
EXTENDS Integers, Sequences

CONSTANTS
  Holds,      \* EMPTYFIFO_HOLD_MASTER of the builds
  TxDepth,    \* depth of the TX FIFO
  MaxAlen,    \* bound of the alen argument
  MaxLen,     \* bound of the len argument
  MaxCalls,   \* bound of the calls made
  MaxSetups,  \* bound of the calls of dw_i2c_set_frequency
  Freqs       \* its arguments: <<apb_speed / 1000, i2c_khz>>

ASSUME I2cAssumption ==
  /\ Holds \subseteq BOOLEAN
  /\ TxDepth \in Nat \ {0}
  \* Neither the address bytes nor the first read command wait for TFNF.
  /\ MaxAlen \in 0 .. TxDepth - 1
  /\ MaxLen \in Nat /\ MaxCalls \in Nat /\ MaxSetups \in Nat
  /\ Freqs \subseteq Nat \X (Nat \ {0})

VARIABLES
  hold,       \* EMPTYFIFO_HOLD_MASTER
  at,         \* where the driver is
  call,       \* the call in progress
  alen, len,  \* the loop variables: address and data bytes to go
  active,     \* a read command was issued and its byte not taken yet
  buf,        \* what the caller's buffer received
  calls, setups,  \* calls made
  con, scl,   \* SPEED bits of IC_CON; per mode <<HCNT, LCNT>>
  asked,      \* what set_frequency was asked last
  enable,     \* IC_ENABLE
  tx, rx,     \* the two FIFOs
  cur,        \* the command on the bus
  ma,         \* STATUS.MA: the master is active
  stopDet, abrt,  \* RAW_INTR_STAT
  wire, sent, transfers  \* history of the call: bytes written to the device,
                         \* bytes it sent, transfers begun

driver == <<hold, at, call, alen, len, active, buf, calls>>
speed == <<setups, con, scl, asked>>
ctrl == <<enable, tx, rx, cur, ma, stopDet, abrt>>
history == <<wire, sent, transfers>>
vars == <<driver, speed, ctrl, history>>

Call ==
  [op : {"read_mem", "write_mem"}, alen : 0 .. MaxAlen, len : 0 .. MaxLen, stop : {TRUE}]
    \cup [op : {"read_bytes", "write_bytes"}, alen : {0}, len : 0 .. MaxLen, stop : BOOLEAN]
    \cup [op : {"read_vip"}, alen : {0}, len : 0 .. MaxLen, stop : {TRUE}]

IsRead == call.op \in {"read_mem", "read_bytes", "read_vip"}

Idle == "idle"
NoCommand == [byte |-> 0, stop |-> FALSE, none |-> TRUE]
Command(b, s) == [byte |-> b, stop |-> s, none |-> FALSE]

------------------------------------------------------------------------------
(* Speed.  The SPEED field of IC_CON is a set of bits: SS, FS, HS = 1, 2, 3 *)
Mode == {"SS", "FS", "HS"}
Bits(mode) == CASE mode = "SS" -> {1} [] mode = "FS" -> {2} [] mode = "HS" -> {1, 2}

ModeFor(khz) == IF khz >= 3400 THEN "HS" ELSE IF khz >= 400 THEN "FS" ELSE "SS"

Word16 == 0 .. 65535
Reg16(x) == x % 65536     \* uint32_t, stored to a register of 16 bits

(* bus_speed / speed, in whole SCL periods. *)
Ratio(f) == f[1] \div f[2]

(* Slip: the numbers of parts and of high parts are swapped. *)
Counts_Swapped(f) ==
  LET r == Ratio(f) IN
  CASE ModeFor(f[2]) = "HS" ->
         LET h == (r \div 6) * 22 - 8 IN <<Reg16(h), Reg16(2 * h)>>
    [] ModeFor(f[2]) = "FS" ->
         <<Reg16((r \div 6) * 19 - 12), Reg16((r \div 19) * 13 - 1)>>
    [] OTHER -> <<Reg16((r \div 40) * 87 - 12), Reg16((r \div 87) * 47 - 1)>>

(* USE_COUNT: the period is split into whole parts before it is shared out; *)
(* the low count of HS is computed once more from the high count.           *)
Counts(f) ==
  LET r == Ratio(f) IN
  CASE ModeFor(f[2]) = "HS" ->
         LET h == (r \div 22) * 6 - 8 IN <<Reg16(h), Reg16(2 * h)>>
    [] ModeFor(f[2]) = "FS" ->
         <<Reg16((r \div 19) * 6 - 12), Reg16((r \div 19) * 13 - 1)>>
    [] OTHER -> <<Reg16((r \div 87) * 40 - 12), Reg16((r \div 87) * 47 - 1)>>

(* The bits of the new mode are or-ed into the old ones.  IC_ENABLE is      *)
(* taken away meanwhile and given back: between calls both FIFOs are empty, *)
(* and if this clears a raw interrupt, the i2c_setaddress of the next call  *)
(* may as well, before any flag is read.                                    *)
dw_i2c_set_frequency(f) ==
  /\ at = Idle
  /\ setups < MaxSetups
  /\ setups' = setups + 1
  /\ con' = con \cup Bits(ModeFor(f[2]))
  /\ scl' = [scl EXCEPT ![ModeFor(f[2])] = Counts(f)]
  /\ asked' = f
  /\ UNCHANGED <<driver, ctrl, history>>

(* The own slave address; the controller is enabled whatever it was. *)
dw_i2c_set_address ==
  /\ at = Idle
  /\ enable' = TRUE
  /\ UNCHANGED <<driver, speed, tx, rx, cur, ma, stopDet, abrt, history>>

(* Registers are what an earlier program left until this sets them. *)
dw_i2c_master_init ==
  /\ at = "off"
  /\ at' = Idle
  /\ con' = Bits("SS")
  /\ enable' = TRUE
  /\ UNCHANGED <<hold, call, alen, len, active, buf, calls, setups, scl, asked,
                 tx, rx, cur, ma, stopDet, abrt, history>>

Init ==
  /\ hold \in Holds
  /\ at = "off"
  /\ call = [op |-> "read_vip", alen |-> 0, len |-> 0, stop |-> TRUE]
  /\ alen = 0 /\ len = 0 /\ active = FALSE /\ buf = <<>>
  /\ calls = 0 /\ setups = 0
  /\ con \in {Bits("SS"), Bits("FS"), Bits("HS")}
  /\ scl = [m \in Mode |-> <<0, 0>>]
  /\ asked = <<0, 1>>
  /\ enable \in BOOLEAN
  /\ tx = <<>> /\ rx = <<>> /\ cur = NoCommand
  /\ ma = FALSE
  /\ stopDet \in BOOLEAN /\ abrt = FALSE
  /\ wire = <<>> /\ sent = 0 /\ transfers = 0

------------------------------------------------------------------------------
(* The driver.  Each poll is enabled when the flag it waits for is up. *)
Begin(c) ==
  /\ at = Idle
  /\ calls < MaxCalls
  /\ at' = "bus_busy"
  /\ call' = c
  /\ alen' = c.alen /\ len' = c.len /\ active' = FALSE /\ buf' = <<>>
  /\ calls' = calls + 1
  /\ wire' = <<>> /\ sent' = 0 /\ transfers' = 0
  /\ UNCHANGED <<hold, speed, ctrl>>

(* Slip: an empty TX FIFO is taken for an idle bus. *)
BusFree_Tfe == tx = <<>>

(* The condition of i2c_wait_for_bb: ~MA and TFE. *)
BusFree == ~ma /\ tx = <<>>

Keep == UNCHANGED <<hold, call, calls, speed, history>>

WaitForBb(from, to) ==
  /\ at = from
  /\ BusFree
  /\ at' = to
  /\ Keep /\ UNCHANGED <<alen, len, active, buf, ctrl>>

(* IC_ENABLE goes to 0 and back to 1: this empties both FIFOs, ends what is *)
(* on the bus, and may clear the raw interrupts.                            *)
i2c_setaddress ==
  /\ at = "set_address"
  /\ at' = "address"
  /\ enable' = TRUE
  /\ tx' = <<>> /\ rx' = <<>> /\ cur' = NoCommand /\ ma' = FALSE
  /\ stopDet' \in {stopDet, FALSE}
  /\ abrt' \in {abrt, FALSE}
  /\ Keep /\ UNCHANGED <<alen, len, active, buf>>

(* A store to DATA_CMD: lost when the FIFO is full, and while it is held    *)
(* empty after TX_ABRT, which only a read of CLR_TX_ABRT would end.         *)
DataCmd(cmd) == tx' = IF abrt \/ Len(tx) >= TxDepth THEN tx ELSE Append(tx, cmd)

(* Slip: alen >= 0 for alen > 0. *)
PutAddress_Off ==
  /\ at = "address"
  /\ IF alen >= 0
       THEN /\ DataCmd(Command(-alen, FALSE))
            /\ alen' = alen - 1
            /\ UNCHANGED at
       ELSE /\ at' = IF IsRead THEN "read" ELSE "write"
            /\ UNCHANGED <<tx, alen>>
  /\ Keep /\ UNCHANGED <<len, active, buf, enable, rx, cur, ma, stopDet, abrt>>

(* The loop of i2c_xfer_init; the other calls have no address bytes. *)
PutAddress ==
  /\ at = "address"
  /\ IF alen > 0
       THEN /\ DataCmd(Command(-alen, FALSE))
            /\ alen' = alen - 1
            /\ UNCHANGED at
       ELSE /\ at' = IF IsRead THEN "read" ELSE "write"
            /\ UNCHANGED <<tx, alen>>
  /\ Keep /\ UNCHANGED <<len, active, buf, enable, rx, cur, ma, stopDet, abrt>>

StopBit_Late == hold /\ len = 0 /\ call.stop            \* slip: off by one
StopBit_Every == hold /\ call.stop                       \* slip: in each command

StopBit == hold /\ len = 1 /\ call.stop

(* Slip: a command is issued in every turn of the loop. *)
ReadCommand_Again ==
  /\ at = "read"
  /\ len > 0
  /\ Len(tx) < TxDepth
  /\ DataCmd(Command(0, StopBit))
  /\ active' = TRUE
  /\ Keep /\ UNCHANGED <<at, alen, len, buf, enable, rx, cur, ma, stopDet, abrt>>

ReadCommand ==
  /\ at = "read"
  /\ len > 0
  /\ ~active
  /\ DataCmd(Command(0, StopBit))
  /\ active' = TRUE
  /\ Keep /\ UNCHANGED <<at, alen, len, buf, enable, rx, cur, ma, stopDet, abrt>>

ReadByte ==
  /\ at = "read"
  /\ len > 0
  /\ active
  /\ rx # <<>>
  /\ buf' = Append(buf, Head(rx))
  /\ rx' = Tail(rx)
  /\ len' = len - 1
  /\ active' = FALSE
  /\ Keep /\ UNCHANGED <<at, alen, enable, tx, cur, ma, stopDet, abrt>>

(* Slip: the byte is queued without a look at TFNF. *)
WriteByte_Unchecked ==
  /\ at = "write"
  /\ len > 0
  /\ DataCmd(Command(call.len - len + 1, StopBit))
  /\ len' = len - 1
  /\ Keep /\ UNCHANGED <<at, alen, active, buf, enable, rx, cur, ma, stopDet, abrt>>

WriteByte ==
  /\ at = "write"
  /\ len > 0
  /\ Len(tx) < TxDepth      \* TFNF
  /\ DataCmd(Command(call.len - len + 1, StopBit))
  /\ len' = len - 1
  /\ Keep /\ UNCHANGED <<at, alen, active, buf, enable, rx, cur, ma, stopDet, abrt>>

LoopEnd ==
  /\ len = 0
  /\ \/ at = "read" /\ at' = "rx_finish"
     \/ at = "write" /\ at' = "tx_finish"
  /\ Keep /\ UNCHANGED <<alen, len, active, buf, ctrl>>

(* i2c_rx_finish: STOP_DET, which may be one left over from before. *)
RxStop ==
  /\ at = "rx_finish"
  /\ stopDet
  /\ stopDet' = FALSE
  /\ at' = "rx_busy"
  /\ Keep /\ UNCHANGED <<alen, len, active, buf, enable, tx, rx, cur, ma, abrt>>

(* i2c_flush_rxfifo waits for an empty RX FIFO and takes nothing from it. *)
i2c_flush_rxfifo ==
  /\ at = "rx_flush"
  /\ rx = <<>>
  /\ at' = Idle
  /\ Keep /\ UNCHANGED <<alen, len, active, buf, ctrl>>

(* i2c_tx_finish reads STATUS and, as long as TFE is down, RAW_INTR_STAT.   *)
TxStatus ==
  /\ at = "tx_finish"
  /\ at' = IF tx = <<>> THEN "tx_busy" ELSE "tx_raw"
  /\ Keep /\ UNCHANGED <<alen, len, active, buf, ctrl>>

TxStop ==
  /\ at = "tx_raw"
  /\ stopDet' = FALSE
  /\ at' = IF stopDet THEN "tx_busy" ELSE "tx_finish"
  /\ Keep /\ UNCHANGED <<alen, len, active, buf, enable, tx, rx, cur, ma, abrt>>

------------------------------------------------------------------------------
(* The controller and the device. *)
Quiet == UNCHANGED <<driver, speed>>

(* The next command leaves the FIFO; it opens a transfer if none is open.   *)
Take ==
  /\ enable
  /\ cur.none
  /\ tx # <<>>
  /\ cur' = Head(tx)
  /\ tx' = Tail(tx)
  /\ ma' = TRUE
  /\ transfers' = IF ma THEN transfers ELSE transfers + 1
  /\ Quiet /\ UNCHANGED <<enable, rx, stopDet, abrt, wire, sent>>

Stopped == ma' = FALSE /\ stopDet' = TRUE

Transmit ==
  /\ ~cur.none
  /\ IF cur.byte = 0
       THEN sent' = sent + 1 /\ rx' = Append(rx, sent + 1) /\ UNCHANGED wire
       ELSE wire' = Append(wire, cur.byte) /\ UNCHANGED <<rx, sent>>
  /\ cur' = NoCommand
  /\ IF cur.stop THEN Stopped ELSE UNCHANGED <<ma, stopDet>>
  /\ Quiet /\ UNCHANGED <<enable, tx, abrt, transfers>>

(* The device does not acknowledge: TX_ABRT, the FIFO is held empty. *)
Abort ==
  /\ ~cur.none
  /\ abrt' = TRUE
  /\ tx' = <<>>
  /\ cur' = NoCommand
  /\ Stopped
  /\ Quiet /\ UNCHANGED <<enable, rx, history>>

EmptyStop ==
  /\ ma
  /\ ~hold
  /\ cur.none
  /\ tx = <<>>
  /\ Stopped
  /\ Quiet /\ UNCHANGED <<enable, tx, rx, cur, abrt, history>>

------------------------------------------------------------------------------
Driver ==
  \/ WaitForBb("bus_busy", "set_address")
  \/ i2c_setaddress \/ PutAddress
  \/ ReadCommand \/ ReadByte \/ WriteByte \/ LoopEnd
  \/ RxStop \/ WaitForBb("rx_busy", "rx_flush") \/ i2c_flush_rxfifo
  \/ TxStatus \/ TxStop \/ WaitForBb("tx_busy", Idle)

Caller ==
  \/ dw_i2c_master_init \/ dw_i2c_set_address
  \/ \E f \in Freqs : dw_i2c_set_frequency(f)
  \/ \E c \in Call : Begin(c)

Controller == Take \/ Transmit \/ Abort \/ EmptyStop

Next == Caller \/ Driver \/ Controller

Spec == Init /\ [][Next]_vars

(* The core runs and an enabled controller works off its FIFO.  Nobody has  *)
(* to make a call.                                                          *)
FairSpec == Spec /\ WF_vars(Driver) /\ WF_vars(Controller)

------------------------------------------------------------------------------
(* Properties *)

TypeOK ==
  /\ hold \in BOOLEAN
  /\ call \in Call
  /\ alen \in 0 .. MaxAlen /\ len \in 0 .. MaxLen
  /\ active \in BOOLEAN
  /\ Len(buf) <= MaxLen
  /\ con \in SUBSET {1, 2}
  /\ scl \in [Mode -> Word16 \X Word16]
  /\ Len(tx) <= TxDepth /\ Len(rx) <= MaxLen
  /\ ma \in BOOLEAN /\ stopDet \in BOOLEAN /\ abrt \in BOOLEAN
  /\ transfers \in 0 .. MaxAlen + MaxLen

Returned == at = Idle /\ calls > 0

(* The device never sends more bytes than a read asks for, although a       *)
(* command that is issued too often is not seen until its byte arrives      *)
(* ("Subsequent writes to ic_cmd_data can trigger spurious i2c transfer");  *)
(* and a read that returns brings exactly these bytes, in order and none of *)
(* an earlier call or of an aborted transfer among them.                    *)
ReadExact ==
  IsRead => /\ sent <= call.len
            /\ Returned => buf = [k \in 1 .. call.len |-> k] /\ rx = <<>>

Payload == IF IsRead THEN 0 ELSE call.len
Message == [i \in 1 .. call.alen + Payload |->
              IF i <= call.alen THEN i - call.alen - 1 ELSE i - call.alen]

(* When a call returns and nothing was refused, the device has received     *)
(* every byte in order: none is still in the FIFO or on the bus, although   *)
(* i2c_tx_finish leaves on TFE, which is up while the last byte is shifted. *)
WriteComplete == Returned /\ ~abrt => wire = Message /\ ~ma

(* Built with EMPTYFIFO_HOLD_MASTER a call is one transfer on the bus,      *)
(* however slow the core is: no STOP comes between the address bytes and    *)
(* the data (a memory read has a repeated START there), so a device that    *)
(* takes the first byte after a STOP for an address is never given data.    *)
HoldsOneTransfer ==
  Returned /\ ~abrt /\ hold /\ call.len > 0 => transfers = 1

(* The driver beside its controller does what I2cPromise says of a call: no *)
(* byte of it moves before its call began or after it returned, the device  *)
(* has the address before it supplies a byte, and after a byte was refused  *)
(* none moves until the next i2c_setaddress.                                *)
Promise == INSTANCE I2cPromise WITH
  Byte <- Int,
  busy <- at \notin {"off", Idle},
  message <- Message,
  want <- IF IsRead THEN call.len ELSE 0,
  received <- wire, supplied <- sent, taken <- buf,
  refused <- abrt

PromiseSpec == Promise!Spec

(* The call is one that the driver can end: with EMPTYFIFO_HOLD_MASTER only *)
(* its last data byte carries STOP, without it some command must be queued  *)
(* for i2c_rx_finish to see one.                                            *)
Endable ==
  IF hold THEN call.len > 0 /\ call.stop
          ELSE IsRead => call.alen + call.len > 0

(* Every poll ends and the call returns as long as the device acknowledges. *)
CallsReturn == (at # Idle /\ at # "off" /\ Endable) ~> (at = Idle \/ abrt)

(* From these bus clocks on the counts do not wrap below zero.  *)
Enough(f) == Ratio(f) >= (IF ModeFor(f[2]) = "FS" THEN 3 * 19 ELSE 87)

(* In the two slower modes SCL runs at least as fast as asked for, because  *)
(* the division is done first, but less than twice as fast: HCNT + 12 and   *)
(* LCNT + 1 bus clocks make its period.                                     *)
SclBounded ==
  setups > 0 /\ ModeFor(asked[2]) # "HS" /\ Enough(asked) /\ Ratio(asked) < 65536
    => LET c == scl[ModeFor(asked[2])]
           period == (c[1] + 12) + (c[2] + 1)
       IN  period <= Ratio(asked) /\ Ratio(asked) < 2 * period

(* What the code says of dw_i2c_set_frequency: "Set frequency by setting    *)
(* speed mode and relative SCL count".  The mode is that of the counts.     *)
SpeedSelected == setups > 0 => con = Bits(ModeFor(asked[2]))

(* What the code says of dw_i2c_write_vip, which is write_mem with alen 1:  *)
(* "write: 1 byte I2C CMD + 1 byte address + n bytes data", one transfer.   *)
WriteIsOneTransfer ==
  Returned /\ ~abrt /\ call.op = "write_mem" /\ call.alen = 1 => transfers = 1

==============================================================================
