------------------------------ MODULE SsiFlash -------------------------------
(***************************************************************************)
(* Reading the flash: plat_flash_identify and plat_flash_read over the     *)
(* driver in dw_ssi.c, with the DesignWare SSI controller running beside   *)
(* the core.  The controller shifts frames into its RX FIFO on its own;    *)
(* the driver programs a transfer, polls for RXFIR and pops the frames.    *)
(*                                                                         *)
(* Data are flash addresses: buf[p] is the address whose byte was stored   *)
(* at position p of the caller's buffer.                                   *)
(***************************************************************************)
EXTENDS Integers, Sequences

CONSTANTS
  Depth,     \* PLAT_SSI_RXFIFO_DEPTH
  AppleSteps, GrapeSteps, BananaSteps,  \* values of flash_step_size on each platform
  Sizes,     \* values of the size argument
  Low,       \* what a 3-byte address reaches: 16MB
  Offset,    \* the offset argument
  PollMax    \* DW_SSI_WAIT_POLL_CNT_MAX

ASSUME SsiAssumption ==
  /\ Depth \in Nat /\ Depth >= 3         \* jedec_id waits for three frames
  /\ AppleSteps \cup GrapeSteps \cup BananaSteps \cup Sizes \subseteq Nat
  /\ Low \in Nat \ {0} /\ Offset \in Nat /\ PollMax \in Nat

VARIABLES
  platform,  \* "apple", "grape", or "banana" in ZSBL
  step, fourByte, fastRead,  \* flash_step_size, BC_SPI_4BYTE_ADDR, BC_SPI_FAST_READ
  size,      \* the size argument of plat_flash_read
  at,        \* what the driver does
  rx,        \* rx_size and i: bytes of buf that are behind the loops
  buf,       \* the caller's buffer
  id,        \* what dw_ssi_jedec_id returned
  n,         \* frames popped, or polls made by dw_ssi_jedec_id
  fifo,      \* the controller: RX FIFO
  left,      \* frames still to receive: NDF + 1 at the start
  from,      \* the flash's address counter
  width,     \* bytes in a frame
  thr,       \* RXFTLR + 1: frames in the FIFO that raise RXFIR
  on         \* SER: the slave is selected

call == <<platform, step, fourByte, fastRead, size>>
ctrl == <<fifo, left, from, width, thr, on>>
vars == <<call, at, rx, buf, id, n, ctrl>>

Unread == -1      \* a byte of the buffer that was never written
Garbage == -2     \* what DR returns from an empty FIFO
Jedec == <<-10, -11, -12>>
NoId == <<0, 0, 0>>

Init ==
  /\ \/ platform = "apple" /\ step \in AppleSteps
     \/ platform = "grape" /\ step \in GrapeSteps
     \/ platform = "banana" /\ step \in BananaSteps
  /\ size \in Sizes
  /\ fourByte \in BOOLEAN
  /\ fastRead \in BOOLEAN
  /\ at \in {"identify", "read"}
  /\ rx = 0
  /\ buf = [p \in 0 .. size - 1 |-> Unread]
  /\ id = NoId
  /\ n = 0
  /\ fifo = <<>>
  /\ left = 0
  /\ from = 0
  /\ width = 1
  /\ thr = 1
  /\ on = FALSE

------------------------------------------------------------------------------
(* The controller.  Disabling SSI empties the FIFO; in this mode a transfer *)
(* receives NDF + 1 frames; a frame that finds the FIFO full is lost.       *)

(* Slip: the transfer is programmed without disabling SSI first. *)
Transfer_NoDisable(ndf, rft, bytes, addr) ==
  /\ fifo' = fifo
  /\ left' = ndf + 1
  /\ thr' = rft + 1
  /\ width' = bytes
  /\ from' = addr
  /\ on' = TRUE

Transfer(ndf, rft, bytes, addr) ==
  /\ fifo' = <<>>
  /\ left' = ndf + 1
  /\ thr' = rft + 1
  /\ width' = bytes
  /\ from' = addr
  /\ on' = TRUE

Deselect == on' = FALSE /\ UNCHANGED <<fifo, left, from, width, thr>>

Shift ==
  /\ on
  /\ left > 0
  /\ left' = left - 1
  /\ from' = from + width
  /\ fifo' = IF Len(fifo) < Depth
               THEN Append(fifo, [b \in 1 .. width |-> from + b - 1])
               ELSE fifo
  /\ UNCHANGED <<call, at, rx, buf, id, n, width, thr, on>>

Rxfir == Len(fifo) >= thr
Dr == IF fifo = <<>> THEN <<Garbage, Garbage>> ELSE Head(fifo)
Popped == /\ fifo' = IF fifo = <<>> THEN fifo ELSE Tail(fifo)
          /\ UNCHANGED <<left, from, width, thr, on>>

------------------------------------------------------------------------------
(* dw_ssi_jedec_id: the one transfer with a bound on its polling. *)
IdStart ==
  /\ at = "identify"
  /\ Transfer(2, 2, 1, 0)
  /\ n' = 0
  /\ at' = "id_poll"
  /\ UNCHANGED <<call, rx, buf, id>>

IdPoll ==
  /\ at = "id_poll"
  /\ n' = n + 1
  /\ at' = IF n + 1 >= PollMax THEN "id_timeout" ELSE IF Rxfir THEN "id_pop" ELSE at
  /\ UNCHANGED <<call, rx, buf, id, ctrl>>

(* Slip: the answer is read although polling gave up. *)
IdTimeout_Reads ==
  /\ at = "id_timeout"
  /\ id' = [k \in 1 .. 3 |-> IF k <= Len(fifo) THEN Jedec[fifo[k][1] + 1] ELSE Garbage]
  /\ Deselect
  /\ at' = "read"
  /\ UNCHANGED <<call, rx, buf, n>>

IdTimeout ==
  /\ at = "id_timeout"
  /\ id' = NoId
  /\ Deselect
  /\ at' = "read"
  /\ UNCHANGED <<call, rx, buf, n>>

(* The three frames are popped together: all of them are in the FIFO. *)
IdPop ==
  /\ at = "id_pop"
  /\ id' = [k \in 1 .. 3 |-> IF k <= Len(fifo) THEN Jedec[fifo[k][1] + 1] ELSE Garbage]
  /\ fifo' = <<>>
  /\ on' = FALSE
  /\ at' = "read"
  /\ UNCHANGED <<call, rx, buf, n, left, from, width, thr>>

------------------------------------------------------------------------------
(* plat_flash_read of the platform: which loop reads the bulk.  On          *)
(* plat-banana the fast loop is compiled into FSBL alone, where it calls a  *)
(* function that the driver does not have: ZSBL reads bytes.                *)
Bulk ==
  CASE platform = "grape" -> IF step > 1 /\ fourByte /\ fastRead THEN "fast" ELSE "bytes"
    [] platform = "apple" -> IF step > 1 THEN "skip" ELSE "bytes"
    [] platform = "banana" -> "bytes"

MoreSteps_Off == size - rx + 1 >= step   \* slip: off by one

MoreSteps == size - rx >= step

ReadStart ==
  /\ at = "read"
  /\ at' = Bulk
  /\ UNCHANGED <<call, rx, buf, id, n, ctrl>>

(* plat-apple: the call that would read the step is commented out. *)
Skip ==
  /\ at = "skip"
  /\ IF MoreSteps THEN rx' = rx + step /\ UNCHANGED at
                  ELSE at' = "bytes" /\ UNCHANGED rx
  /\ UNCHANGED <<call, buf, id, n, ctrl>>

(* dw_ssi_fast_read4ba *)
Halfwords == IF step > 2 * Depth THEN Depth ELSE step \div 2

(* Slip: the threshold is not below the number of frames of the FIFO. *)
FastStart_Full ==
  /\ at = "fast"
  /\ MoreSteps
  /\ Transfer(Halfwords, Halfwords, 2, Offset + rx)
  /\ n' = 0
  /\ at' = "fast_poll"
  /\ UNCHANGED <<call, rx, buf, id>>

FastStart ==
  /\ at = "fast"
  /\ MoreSteps
  /\ Transfer(Halfwords, Halfwords - 1, 2, Offset + rx)
  /\ n' = 0
  /\ at' = "fast_poll"
  /\ UNCHANGED <<call, rx, buf, id>>

FastPoll ==
  /\ at = "fast_poll"
  /\ Rxfir
  /\ at' = "fast_pop"
  /\ UNCHANGED <<call, rx, buf, id, n, ctrl>>

FastPop ==
  /\ at = "fast_pop"
  /\ n < Halfwords
  /\ buf' = [buf EXCEPT ![rx + 2 * n] = Dr[1], ![rx + 2 * n + 1] = Dr[2]]
  /\ Popped
  /\ n' = n + 1
  /\ UNCHANGED <<call, at, rx, id>>

(* The caller goes on by its step, not by the size that was returned. *)
FastDone ==
  /\ at = "fast_pop"
  /\ n = Halfwords
  /\ Deselect
  /\ rx' = rx + step
  /\ at' = "fast"
  /\ UNCHANGED <<call, buf, id, n>>

FastEnd ==
  /\ at = "fast"
  /\ ~MoreSteps
  /\ at' = "bytes"
  /\ UNCHANGED <<call, rx, buf, id, n, ctrl>>

(* dw_ssi_read_byte: a 3-byte address drops the upper byte of the offset. *)
ByteAddress == IF fourByte THEN Offset + rx ELSE (Offset + rx) % Low

ByteStart ==
  /\ at = "bytes"
  /\ rx < size
  /\ Transfer(0, 0, 1, ByteAddress)
  /\ at' = "byte_poll"
  /\ UNCHANGED <<call, rx, buf, id, n>>

BytePoll ==
  /\ at = "byte_poll"
  /\ Rxfir
  /\ buf' = [buf EXCEPT ![rx] = Dr[1]]
  /\ fifo' = Tail(fifo)
  /\ on' = FALSE
  /\ rx' = rx + 1
  /\ at' = "bytes"
  /\ UNCHANGED <<call, id, n, left, from, width, thr>>

Finish ==
  /\ at = "bytes"
  /\ rx = size
  /\ at' = "done"
  /\ UNCHANGED <<call, rx, buf, id, n, ctrl>>

------------------------------------------------------------------------------
Driver ==
  \/ IdStart \/ IdPoll \/ IdTimeout \/ IdPop
  \/ ReadStart \/ Skip
  \/ FastStart \/ FastPoll \/ FastPop \/ FastDone \/ FastEnd
  \/ ByteStart \/ BytePoll \/ Finish

Next == Driver \/ Shift

Spec == Init /\ [][Next]_vars

(* The core runs, and a selected controller clocks its frames in. *)
FairSpec == Spec /\ WF_vars(Driver) /\ WF_vars(Shift)

------------------------------------------------------------------------------
(* Properties *)

TypeOK ==
  /\ rx \in 0 .. size
  /\ buf \in [0 .. size - 1 -> {Unread, Garbage} \cup Nat]
  /\ n \in Nat
  /\ Len(fifo) \in 0 .. Depth
  /\ \A k \in 1 .. Len(fifo) : fifo[k] \in [1 .. width -> Nat]
  /\ left \in Nat /\ from \in Nat /\ thr \in Nat
  /\ on \in BOOLEAN

(* When plat_flash_read returns, every byte of the buffer holds the byte of *)
(* the flash it stands for: none skipped, none left over from the extra     *)
(* frame of the transfer before, none of it popped before it arrived.       *)
(* Within the lower memory every capability must give the same image.       *)
FlashExact ==
  at = "done" /\ (fourByte \/ Offset + size <= Low)
    => \A p \in 0 .. size - 1 : buf[p] = Offset + p

(* dw_ssi_jedec_id returns the identity of the flash or, when polling gave  *)
(* up, zeros: an answer that comes late is never half read.                 *)
IdentityWhole == id \in {Jedec, NoId}

(* The polling loops without a bound end, for every size and step. *)
ReadReturns == <>(at = "done")

==============================================================================
