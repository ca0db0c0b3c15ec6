---------------------------- MODULE SsiFlashProofs ----------------------------
(***************************************************************************)
(* Proofs about SsiFlash for every depth of the FIFO, every read and every *)
(* bound on polling.  The invariant relates the frames in the FIFO to the  *)
(* address counter of the flash: between two pops they are consecutive, and *)
(* the only frame that can be lost is the one that nobody asked for.       *)
(***************************************************************************)
EXTENDS SsiFlash, TLAPS

Places == {"identify", "id_poll", "id_timeout", "id_pop", "read", "skip", "fast",
           "fast_poll", "fast_pop", "bytes", "byte_poll", "done"}

(* The arguments of a read. *)
Given ==
  /\ \/ platform = "apple" /\ step \in AppleSteps
     \/ platform = "grape" /\ step \in GrapeSteps
     \/ platform = "banana" /\ step \in BananaSteps
  /\ step \in Nat /\ size \in Sizes /\ size \in Nat
  /\ fourByte \in BOOLEAN /\ fastRead \in BOOLEAN

Types ==
  /\ at \in Places
  /\ rx \in 0 .. size
  /\ buf \in [0 .. size - 1 -> {Unread, Garbage} \cup Nat]
  /\ n \in Nat
  /\ fifo \in Seq([1 .. width -> Nat]) /\ Len(fifo) <= Depth
  /\ left \in Nat /\ from \in Nat /\ width \in {1, 2} /\ thr \in Nat
  /\ on \in BOOLEAN

(* The answer to an identification: three frames, for which there is room.  *)
Answer ==
  /\ at \in {"id_poll", "id_pop"} =>
       /\ width = 1 /\ thr = 3
       /\ left <= 3 /\ from = 3 - left /\ Len(fifo) = 3 - left
       /\ \A k \in 1 .. Len(fifo) : fifo[k][1] = k - 1
  /\ at = "id_pop" => Len(fifo) = 3
  /\ id \in {Jedec, NoId}

(* A fast read: the k-th frame in the FIFO follows the n that were popped.  *)
(* Of the Halfwords + 1 frames of the transfer the last may be lost.        *)
Chunk ==
  /\ at \in {"fast", "fast_poll", "fast_pop"} => platform = "grape" /\ fourByte /\ step > 1
  /\ at \in {"fast_poll", "fast_pop"} =>
       /\ MoreSteps
       /\ width = 2 /\ thr = Halfwords
       /\ n <= Halfwords
       /\ left <= Halfwords + 1
       /\ from = Offset + rx + 2 * (Halfwords + 1 - left)
       /\ \/ Len(fifo) = Halfwords + 1 - left - n
          \/ left = 0 /\ Len(fifo) = Halfwords - n
       /\ \A k \in 1 .. Len(fifo) : \A b \in 1 .. 2 :
            fifo[k][b] = Offset + rx + 2 * (n + k - 1) + b - 1
  /\ at = "fast_poll" => n = 0
  /\ at = "fast_pop" => Len(fifo) >= Halfwords - n

(* A single byte.  *)
OneByte ==
  at = "byte_poll" =>
    /\ rx < size
    /\ width = 1 /\ thr = 1
    /\ left <= 1 /\ Len(fifo) = 1 - left
    /\ left = 1 => from = ByteAddress
    /\ left = 0 => fifo[1][1] = ByteAddress

(* Steps that the loops read whole: those of plat-apple's must be too large *)
(* to be taken, those of plat-grape's even and not above what the FIFO holds. *)
StepsRead ==
  \A z \in Sizes :
    /\ \A s \in AppleSteps : s <= 1 \/ s > z
    /\ \A s \in GrapeSteps : s <= 1 \/ s > z \/ (s % 2 = 0 /\ s <= 2 * Depth)

(* The bytes that are behind the loops. *)
Behind == IF at = "fast_pop" THEN rx + 2 * n ELSE rx

Image ==
  /\ at = "skip" => platform = "apple" /\ step > 1 /\ (StepsRead => rx = 0)
  /\ StepsRead /\ (fourByte \/ Offset + size <= Low) =>
       \A p \in 0 .. Behind - 1 : buf[p] = Offset + p
  /\ at \in {"identify", "id_poll", "id_pop", "id_timeout", "read"} => rx = 0
  /\ at = "done" => rx = size

IInv == Given /\ Types /\ Answer /\ Chunk /\ OneByte /\ Image

------------------------------------------------------------------------------
(* Numbers. *)
LEMMA Numbers ==
  /\ Depth \in Nat /\ Depth >= 3 /\ Offset \in Nat /\ Low \in Nat /\ Low > 0 /\ PollMax \in Nat
  /\ Sizes \subseteq Nat /\ AppleSteps \subseteq Nat /\ GrapeSteps \subseteq Nat
  /\ BananaSteps \subseteq Nat
  BY SsiAssumption DEF SsiAssumption

LEMMA HalfwordsType ==
  ASSUME step \in Nat, step > 1
  PROVE  Halfwords \in Nat /\ Halfwords >= 1 /\ Halfwords <= Depth /\ 2 * Halfwords <= step
<1>1. step \div 2 \in Nat /\ step \div 2 >= 1 /\ 2 * (step \div 2) <= step
  OBVIOUS
<1>2. step <= 2 * Depth => step \div 2 <= Depth
  BY Numbers
<1> QED
  BY <1>1, <1>2, Numbers DEF Halfwords

LEMMA HalfwordsExact ==
  ASSUME step \in Nat, step % 2 = 0, step <= 2 * Depth
  PROVE  2 * Halfwords = step
<1>1. 2 * (step \div 2) = step
  OBVIOUS
<1> QED
  BY <1>1, Numbers DEF Halfwords

LEMMA AddressType ==
  ASSUME Given, Types
  PROVE  /\ ByteAddress \in Nat
         /\ rx < size /\ (fourByte \/ Offset + size <= Low) => ByteAddress = Offset + rx
<1>1. rx \in Nat /\ size \in Nat /\ Offset + rx \in Nat
  BY Numbers DEF Given, Types
<1>2. (Offset + rx) % Low \in Nat
  BY <1>1, Numbers
<1>3. \A x, y \in Nat : x < y => x % y = x
  OBVIOUS
<1> QED
  BY <1>1, <1>2, <1>3, Numbers DEF ByteAddress

LEMMA InitIInv == Init => IInv
<1> SUFFICES ASSUME Init
             PROVE  IInv
  OBVIOUS
<1>1. Given
  BY Numbers DEF Init, Given
<1>2. Types
  <2>1. at \in Places /\ n \in Nat /\ on \in BOOLEAN
    BY DEF Init, Places
  <2>5. rx \in 0 .. size
    BY <1>1 DEF Init, Given
  <2>2. buf \in [0 .. size - 1 -> {Unread, Garbage} \cup Nat]
    BY DEF Init
  <2>3. fifo \in Seq([1 .. width -> Nat]) /\ Len(fifo) = 0
    BY DEF Init
  <2>4. left \in Nat /\ from \in Nat /\ width \in {1, 2} /\ thr \in Nat
    BY DEF Init
  <2> QED
    BY <2>1, <2>2, <2>3, <2>4, <2>5, Numbers DEF Types
<1>3. Answer /\ Chunk /\ OneByte /\ Image
  BY <1>1 DEF Init, Answer, Chunk, OneByte, Image, Behind, Given
<1> QED
  BY <1>1, <1>2, <1>3 DEF IInv

(* The arguments stay. *)
LEMMA GivenKept == Given /\ UNCHANGED call => Given'
  BY DEF Given, call

------------------------------------------------------------------------------
(* The controller shifts a frame in. *)
LEMMA ShiftFrame ==
  ASSUME Types, Shift
  PROVE  /\ left \in Nat /\ left > 0 /\ left' = left - 1
         /\ from' = from + width
         /\ Len(fifo) < Depth =>
              /\ Len(fifo') = Len(fifo) + 1
              /\ \A k \in 1 .. Len(fifo) : fifo'[k] = fifo[k]
              /\ \A b \in 1 .. width : fifo'[Len(fifo) + 1][b] = from + b - 1
         /\ Len(fifo) = Depth => fifo' = fifo
         /\ Len(fifo') <= Depth
         /\ fifo' \in Seq([1 .. width -> Nat])
<1> DEFINE frame == [b \in 1 .. width |-> from + b - 1]
<1>1. frame \in [1 .. width -> Nat]
  BY DEF Types
<1>2. Len(fifo) \in Nat /\ fifo \in Seq([1 .. width -> Nat]) /\ Len(fifo) <= Depth
  BY DEF Types
<1>3. left \in Nat /\ left > 0 /\ left' = left - 1 /\ from' = from + width
  BY DEF Types, Shift
<1>4. \A b \in 1 .. width : frame[b] = from + b - 1
  OBVIOUS
<1>5. fifo' = IF Len(fifo) < Depth THEN Append(fifo, frame) ELSE fifo
  BY DEF Shift
<1> HIDE DEF frame
<1>6. CASE Len(fifo) < Depth
  <2>1. fifo' = Append(fifo, frame)
    BY <1>5, <1>6
  <2>2. /\ Len(fifo') = Len(fifo) + 1
        /\ \A k \in 1 .. Len(fifo) : fifo'[k] = fifo[k]
        /\ fifo'[Len(fifo) + 1] = frame
        /\ fifo' \in Seq([1 .. width -> Nat])
    BY <2>1, <1>1, <1>2
  <2>3. Len(fifo') <= Depth
    BY <2>2, <1>2, <1>6, Numbers
  <2> QED
    BY <2>2, <2>3, <1>2, <1>3, <1>4, <1>6, Numbers
<1>7. CASE ~(Len(fifo) < Depth)
  <2>1. fifo' = fifo
    BY <1>5, <1>7
  <2> QED
    BY <2>1, <1>2, <1>3, <1>7, Numbers
<1> QED
  BY <1>6, <1>7

LEMMA ShiftKeeps == IInv /\ Shift => IInv'
<1> SUFFICES ASSUME IInv, Shift
             PROVE  IInv'
  OBVIOUS
<1>1. /\ UNCHANGED <<platform, step, fourByte, fastRead, size>>
      /\ UNCHANGED <<at, rx, buf, id, n, width, thr, on>>
  BY DEF Shift, call
<1>2. Given'
  BY <1>1, GivenKept DEF IInv, call
<1>3. Types'
  <2>1. from' \in Nat /\ left' \in Nat
    BY ShiftFrame DEF IInv, Types
  <2> QED
    BY <1>1, <2>1, ShiftFrame DEF IInv, Types
<1>4. Answer'
  <2>1. CASE at \in {"id_poll", "id_pop"}
    <3>1. /\ width = 1 /\ thr = 3 /\ left <= 3 /\ from = 3 - left /\ Len(fifo) = 3 - left
          /\ \A k \in 1 .. Len(fifo) : fifo[k][1] = k - 1
      BY <2>1 DEF IInv, Answer
    <3>2. left \in Nat /\ left > 0 /\ Len(fifo) < Depth
      BY <3>1, ShiftFrame, Numbers DEF IInv
    <3>3. /\ left' = left - 1 /\ from' = from + 1 /\ Len(fifo') = Len(fifo) + 1
          /\ \A k \in 1 .. Len(fifo) : fifo'[k] = fifo[k]
          /\ fifo'[Len(fifo) + 1][1] = from
      BY <3>1, <3>2, ShiftFrame DEF IInv
    <3>4. at # "id_pop"
      BY <3>1, <3>2 DEF IInv, Answer
    <3>5. \A k \in 1 .. Len(fifo') : fifo'[k][1] = k - 1
      BY <3>1, <3>2, <3>3
    <3> QED
      BY <1>1, <3>1, <3>2, <3>3, <3>4, <3>5 DEF IInv, Answer
  <2>2. CASE at \notin {"id_poll", "id_pop"}
    BY <1>1, <2>2 DEF IInv, Answer
  <2> QED
    BY <2>1, <2>2
<1>5. Chunk'
  <2>1. CASE at \in {"fast_poll", "fast_pop"}
    <3>1. /\ MoreSteps /\ width = 2 /\ thr = Halfwords /\ n <= Halfwords
          /\ left <= Halfwords + 1 /\ step > 1
          /\ from = Offset + rx + 2 * (Halfwords + 1 - left)
          /\ \/ Len(fifo) = Halfwords + 1 - left - n
             \/ left = 0 /\ Len(fifo) = Halfwords - n
          /\ \A k \in 1 .. Len(fifo) : \A b \in 1 .. 2 :
               fifo[k][b] = Offset + rx + 2 * (n + k - 1) + b - 1
          /\ at = "fast_pop" => Len(fifo) >= Halfwords - n
      BY <2>1 DEF IInv, Chunk
    <3>2. /\ Halfwords \in Nat /\ Halfwords <= Depth /\ n \in Nat /\ rx \in Nat
          /\ Len(fifo) \in Nat /\ Offset \in Nat
      BY <3>1, HalfwordsType, Numbers DEF IInv, Given, Types
    <3>3. left \in Nat /\ left > 0 /\ left' = left - 1 /\ from' = from + 2
      BY <3>1, ShiftFrame DEF IInv
    <3>4. Len(fifo) = Halfwords + 1 - left - n
      BY <3>1, <3>3
    <3>5. MoreSteps' /\ Halfwords' = Halfwords
      BY <1>1, <3>1 DEF MoreSteps, Halfwords
    <3>6. left' <= Halfwords + 1 /\ from' = Offset + rx + 2 * (Halfwords + 1 - left')
      BY <3>1, <3>2, <3>3
    <3>7. CASE Len(fifo) < Depth
      <4>1. /\ Len(fifo') = Len(fifo) + 1
            /\ \A k \in 1 .. Len(fifo) : fifo'[k] = fifo[k]
            /\ \A b \in 1 .. 2 : fifo'[Len(fifo) + 1][b] = from + b - 1
        BY <3>1, <3>7, ShiftFrame DEF IInv
      <4>2. from = Offset + rx + 2 * (n + (Len(fifo) + 1) - 1)
        BY <3>1, <3>2, <3>3, <3>4
      <4>3. \A k \in 1 .. Len(fifo') : \A b \in 1 .. 2 :
              fifo'[k][b] = Offset + rx + 2 * (n + k - 1) + b - 1
        <5> TAKE k \in 1 .. Len(fifo'), b \in 1 .. 2
        <5>1. CASE k \in 1 .. Len(fifo)
          BY <3>1, <4>1, <5>1
        <5>2. CASE k = Len(fifo) + 1
          BY <4>1, <4>2, <5>2
        <5> QED
          BY <3>2, <4>1, <5>1, <5>2
      <4>4. /\ Len(fifo') = Halfwords + 1 - left' - n
            /\ at = "fast_pop" => Len(fifo') >= Halfwords - n
        BY <3>1, <3>2, <3>3, <3>4, <4>1
      <4> QED
        BY <1>1, <3>1, <3>5, <3>6, <4>3, <4>4 DEF IInv, Chunk
    <3>8. CASE Len(fifo) = Depth
      <4>1. fifo' = fifo
        BY <3>8, ShiftFrame DEF IInv
      <4>2. left' = 0 /\ Len(fifo) = Halfwords - n
        BY <3>2, <3>3, <3>4, <3>8
      <4> QED
        BY <1>1, <3>1, <3>5, <3>6, <4>1, <4>2 DEF IInv, Chunk
    <3> QED
      BY <3>2, <3>7, <3>8, Numbers DEF IInv, Types
  <2>2. CASE at \notin {"fast_poll", "fast_pop"}
    BY <1>1, <2>2 DEF IInv, Chunk
  <2> QED
    BY <2>1, <2>2
<1>6. OneByte'
  <2>1. CASE at = "byte_poll"
    <3>1. /\ rx < size /\ width = 1 /\ thr = 1 /\ left <= 1 /\ Len(fifo) = 1 - left
      BY <2>1 DEF IInv, OneByte
    <3>2. left = 1 /\ left' = 0 /\ Len(fifo) = 0
      BY <3>1, ShiftFrame DEF IInv
    <3>3. Len(fifo') = 1 /\ fifo'[1][1] = from
      BY <3>1, <3>2, ShiftFrame, Numbers DEF IInv, Types
    <3>4. from = ByteAddress
      BY <2>1, <3>2 DEF IInv, OneByte
    <3>5. ByteAddress' = ByteAddress
      BY <1>1 DEF ByteAddress
    <3> QED
      BY <1>1, <3>1, <3>2, <3>3, <3>4, <3>5 DEF OneByte
  <2>2. CASE at # "byte_poll"
    BY <1>1, <2>2 DEF OneByte
  <2> QED
    BY <2>1, <2>2
<1>7. Image'
  BY <1>1 DEF IInv, Image, Behind
<1> QED
  BY <1>2, <1>3, <1>4, <1>5, <1>6, <1>7 DEF IInv

------------------------------------------------------------------------------
(* The driver. *)

LEMMA IdStartKeeps == IInv /\ IdStart => IInv'
<1> SUFFICES ASSUME IInv, IdStart
             PROVE  IInv'
  OBVIOUS
<1>1. Transfer(2, 2, 1, 0) /\ n' = 0 /\ at = "identify" /\ at' = "id_poll"
  BY DEF IdStart
<1>2. UNCHANGED <<platform, step, fourByte, fastRead, size, rx, buf, id>>
  BY DEF IdStart, call
<1>3. /\ fifo' = <<>> /\ fifo' \in Seq([1 .. width' -> Nat]) /\ Len(fifo') = 0
      /\ left' = 3 /\ from' = 0 /\ width' = 1 /\ thr' = 3 /\ on' \in BOOLEAN
  BY <1>1 DEF Transfer
<1>4. Given'
  BY <1>2, GivenKept DEF IInv, call
<1>5. Types'
  BY <1>1, <1>2, <1>3, Numbers DEF IInv, Types, Places
<1>6. Answer' /\ Chunk' /\ OneByte' /\ Image'
  BY <1>1, <1>2, <1>3 DEF IInv, Answer, Chunk, OneByte, Image, Behind
<1> QED
  BY <1>4, <1>5, <1>6 DEF IInv

LEMMA IdPollKeeps == IInv /\ IdPoll => IInv'
<1> SUFFICES ASSUME IInv, IdPoll
             PROVE  IInv'
  OBVIOUS
<1>1. /\ at = "id_poll" /\ n' = n + 1 /\ at' \in {"id_timeout", "id_pop", "id_poll"}
      /\ at' = "id_pop" => Len(fifo) >= thr
  BY DEF IdPoll, Rxfir
<1>2. /\ UNCHANGED <<platform, step, fourByte, fastRead, size, rx, buf, id>>
      /\ UNCHANGED <<fifo, left, from, width, thr, on>>
  BY DEF IdPoll, call, ctrl
<1>3. Given'
  BY <1>2, GivenKept DEF IInv, call
<1>4. Types'
  BY <1>1, <1>2 DEF IInv, Types, Places
<1>5. Answer'
  <2>1. left \in Nat
    BY DEF IInv, Types
  <2> QED
    BY <1>1, <1>2, <2>1 DEF IInv, Answer
<1>6. Chunk' /\ OneByte' /\ Image'
  BY <1>1, <1>2 DEF IInv, Chunk, OneByte, Image, Behind
<1> QED
  BY <1>3, <1>4, <1>5, <1>6 DEF IInv

LEMMA IdTimeoutKeeps == IInv /\ IdTimeout => IInv'
<1> SUFFICES ASSUME IInv, IdTimeout
             PROVE  IInv'
  OBVIOUS
<1>1. at = "id_timeout" /\ at' = "read" /\ id' = NoId /\ on' = FALSE
  BY DEF IdTimeout, Deselect
<1>2. /\ UNCHANGED <<platform, step, fourByte, fastRead, size, rx, buf, n>>
      /\ UNCHANGED <<fifo, left, from, width, thr>>
  BY DEF IdTimeout, Deselect, call
<1>3. Given'
  BY <1>2, GivenKept DEF IInv, call
<1>4. Types'
  BY <1>1, <1>2 DEF IInv, Types, Places
<1>5. Answer' /\ Chunk' /\ OneByte' /\ Image'
  BY <1>1, <1>2 DEF IInv, Answer, Chunk, OneByte, Image, Behind
<1> QED
  BY <1>3, <1>4, <1>5 DEF IInv

LEMMA IdPopKeeps == IInv /\ IdPop => IInv'
<1> SUFFICES ASSUME IInv, IdPop
             PROVE  IInv'
  OBVIOUS
<1>1. at = "id_pop" /\ at' = "read" /\ on' = FALSE /\ fifo' = <<>>
  BY DEF IdPop
<1>2. UNCHANGED <<platform, step, fourByte, fastRead, size, rx, buf, n, left, from, width, thr>>
  BY DEF IdPop, call
<1>3. Given'
  BY <1>2, GivenKept DEF IInv, call
<1>4. Types'
  <2>1. fifo' \in Seq([1 .. width' -> Nat]) /\ Len(fifo') <= Depth
    BY <1>1, Numbers
  <2>2. at' \in Places /\ on' \in BOOLEAN
    BY <1>1 DEF Places
  <2> QED
    BY <1>2, <2>1, <2>2 DEF IInv, Types
<1>5. id' = Jedec
  <2>1. Len(fifo) = 3 /\ \A k \in 1 .. 3 : fifo[k][1] = k - 1
    BY <1>1 DEF IInv, Answer
  <2>2. id' = [k \in 1 .. 3 |-> Jedec[k]]
    <3>1. \A k \in 1 .. 3 : (IF k <= Len(fifo) THEN Jedec[fifo[k][1] + 1] ELSE Garbage) = Jedec[k]
      BY <2>1
    <3> QED
      BY <3>1 DEF IdPop
  <2> QED
    BY <2>2 DEF Jedec
<1>6. Answer' /\ Chunk' /\ OneByte' /\ Image'
  BY <1>1, <1>2, <1>5 DEF IInv, Answer, Chunk, OneByte, Image, Behind
<1> QED
  BY <1>3, <1>4, <1>6 DEF IInv

LEMMA ReadStartKeeps == IInv /\ ReadStart => IInv'
<1> SUFFICES ASSUME IInv, ReadStart
             PROVE  IInv'
  OBVIOUS
<1>1. /\ at = "read"
      /\ at' \in {"fast", "skip", "bytes"}
      /\ at' = "fast" => platform = "grape" /\ fourByte /\ step > 1
      /\ at' = "skip" => platform = "apple" /\ step > 1
  BY DEF IInv, Given, ReadStart, Bulk
<1>2. /\ UNCHANGED <<platform, step, fourByte, fastRead, size, rx, buf, id, n>>
      /\ UNCHANGED <<fifo, left, from, width, thr, on>>
  BY DEF ReadStart, call, ctrl
<1>3. Given'
  BY <1>2, GivenKept DEF IInv, call
<1>4. Types'
  BY <1>1, <1>2 DEF IInv, Types, Places
<1>5. Answer' /\ Chunk' /\ OneByte' /\ Image'
  BY <1>1, <1>2 DEF IInv, Answer, Chunk, OneByte, Image, Behind
<1> QED
  BY <1>3, <1>4, <1>5 DEF IInv

LEMMA SkipKeeps == IInv /\ Skip => IInv'
<1> SUFFICES ASSUME IInv, Skip
             PROVE  IInv'
  OBVIOUS
<1>1. /\ at = "skip"
      /\ \/ MoreSteps /\ rx' = rx + step /\ at' = at
         \/ at' = "bytes" /\ rx' = rx
  BY DEF Skip
<1>2. /\ UNCHANGED <<platform, step, fourByte, fastRead, size, buf, id, n>>
      /\ UNCHANGED <<fifo, left, from, width, thr, on>>
  BY DEF Skip, call, ctrl
<1>3. Given'
  BY <1>2, GivenKept DEF IInv, call
<1>4. rx' \in 0 .. size
  BY <1>1 DEF IInv, Given, Types, MoreSteps
<1>5. Types'
  BY <1>1, <1>2, <1>4 DEF IInv, Types, Places
<1>6. StepsRead => rx' = rx
  <2>1. ASSUME StepsRead, MoreSteps PROVE FALSE
    <3>1. platform = "apple" /\ step > 1 /\ rx = 0
      BY <1>1, <2>1 DEF IInv, Image
    <3>2. step \in AppleSteps /\ size \in Sizes /\ step \in Nat /\ size \in Nat
      BY <3>1 DEF IInv, Given
    <3>3. step <= 1 \/ step > size
      BY <2>1, <3>2 DEF StepsRead
    <3> QED
      BY <2>1, <3>1, <3>2, <3>3 DEF MoreSteps
  <2> QED
    BY <1>1, <2>1
<1>7. Answer' /\ Chunk' /\ OneByte' /\ Image'
  BY <1>1, <1>2, <1>6 DEF IInv, Answer, Chunk, OneByte, Image, Behind
<1> QED
  BY <1>3, <1>5, <1>7 DEF IInv

LEMMA FastStartKeeps == IInv /\ FastStart => IInv'
<1> SUFFICES ASSUME IInv, FastStart
             PROVE  IInv'
  OBVIOUS
<1>1. at = "fast" /\ at' = "fast_poll" /\ n' = 0 /\ MoreSteps
  BY DEF FastStart
<1>2. UNCHANGED <<platform, step, fourByte, fastRead, size, rx, buf, id>>
  BY DEF FastStart, call
<1>3. /\ fifo' = <<>> /\ left' = Halfwords + 1 /\ from' = Offset + rx
      /\ width' = 2 /\ thr' = Halfwords - 1 + 1 /\ on' = TRUE
  BY DEF FastStart, Transfer
<1>4. platform = "grape" /\ fourByte /\ step > 1
  BY <1>1 DEF IInv, Chunk
<1>5. Halfwords \in Nat /\ Halfwords >= 1
  BY <1>4, HalfwordsType DEF IInv, Given
<1>6. Given'
  BY <1>2, GivenKept DEF IInv, call
<1>7. Types'
  <2>1. fifo' \in Seq([1 .. width' -> Nat]) /\ Len(fifo') <= Depth
    BY <1>3, Numbers
  <2>2. at' \in Places /\ on' \in BOOLEAN /\ n' \in Nat
    BY <1>1, <1>3 DEF Places
  <2>3. left' \in Nat /\ from' \in Nat /\ width' \in {1, 2} /\ thr' \in Nat
    BY <1>3, <1>5, Numbers DEF IInv, Types
  <2> QED
    BY <1>2, <2>1, <2>2, <2>3 DEF IInv, Types
<1>8. Chunk'
  <2>1. MoreSteps' /\ Halfwords' = Halfwords
    BY <1>1, <1>2 DEF MoreSteps, Halfwords
  <2>2. Len(fifo') = 0 /\ thr' = Halfwords
    BY <1>3, <1>5
  <2>3. from' = Offset + rx + 2 * (Halfwords + 1 - left')
    BY <1>3, <1>5, Numbers DEF IInv, Types
  <2>4. Len(fifo') = Halfwords + 1 - left' - n'
    BY <1>1, <1>3, <1>5, <2>2
  <2> QED
    BY <1>1, <1>2, <1>3, <1>4, <1>5, <2>1, <2>2, <2>3, <2>4 DEF Chunk
<1>9. Answer' /\ OneByte' /\ Image'
  BY <1>1, <1>2 DEF IInv, Answer, OneByte, Image, Behind
<1> QED
  BY <1>6, <1>7, <1>8, <1>9 DEF IInv

LEMMA FastPollKeeps == IInv /\ FastPoll => IInv'
<1> SUFFICES ASSUME IInv, FastPoll
             PROVE  IInv'
  OBVIOUS
<1>1. at = "fast_poll" /\ at' = "fast_pop" /\ Len(fifo) >= thr
  BY DEF FastPoll, Rxfir
<1>2. /\ UNCHANGED <<platform, step, fourByte, fastRead, size, rx, buf, id, n>>
      /\ UNCHANGED <<fifo, left, from, width, thr, on>>
  BY DEF FastPoll, call, ctrl
<1>3. Given'
  BY <1>2, GivenKept DEF IInv, call
<1>4. Types'
  BY <1>1, <1>2 DEF IInv, Types, Places
<1>5. n = 0 /\ thr = Halfwords /\ step > 1
  BY <1>1 DEF IInv, Chunk
<1>6. Halfwords \in Nat /\ rx \in Nat
  BY <1>5, HalfwordsType DEF IInv, Given, Types
<1>7. Chunk'
  <2>1. MoreSteps' = MoreSteps /\ Halfwords' = Halfwords
    BY <1>2 DEF MoreSteps, Halfwords
  <2>2. Len(fifo) >= Halfwords - n
    BY <1>1, <1>5, <1>6
  <2> QED
    BY <1>1, <1>2, <2>1, <2>2 DEF IInv, Chunk
<1>8. Image'
  <2>1. Behind' = Behind
    BY <1>1, <1>2, <1>5, <1>6 DEF Behind
  <2> QED
    BY <1>1, <1>2, <2>1 DEF IInv, Image
<1>9. Answer' /\ OneByte'
  BY <1>1, <1>2 DEF IInv, Answer, OneByte
<1> QED
  BY <1>3, <1>4, <1>7, <1>8, <1>9 DEF IInv

(* What a pop of the fast loop finds, and where it puts it.  *)
LEMMA PopFrame ==
  ASSUME IInv, FastPop
  PROVE  /\ fifo # <<>> /\ Len(fifo) \in Nat /\ n \in Nat /\ rx \in Nat /\ Halfwords \in Nat
         /\ fifo' = Tail(fifo) /\ Len(fifo') = Len(fifo) - 1
         /\ fifo' \in Seq([1 .. width -> Nat])
         /\ \A k \in 1 .. Len(fifo') : fifo'[k] = fifo[k + 1]
         /\ Dr = fifo[1]
         /\ Dr[1] = Offset + rx + 2 * n /\ Dr[2] = Offset + rx + 2 * n + 1
         /\ rx + 2 * n + 1 < rx + step /\ rx + step <= size
<1>1. at = "fast_pop" /\ n < Halfwords
  BY DEF FastPop
<1>2. step > 1 /\ MoreSteps /\ Len(fifo) >= Halfwords - n /\ width = 2
  BY <1>1 DEF IInv, Chunk
<1>3. /\ Halfwords \in Nat /\ 2 * Halfwords <= step /\ n \in Nat /\ rx \in Nat
      /\ step \in Nat /\ size \in Nat
  BY <1>2, HalfwordsType DEF IInv, Given, Types
<1>4. Len(fifo) \in Nat /\ Len(fifo) >= 1 /\ fifo \in Seq([1 .. width -> Nat])
  BY <1>1, <1>2, <1>3 DEF IInv, Types
<1>5. fifo # <<>>
  BY <1>4
<1>6. fifo' = Tail(fifo) /\ Dr = Head(fifo)
  BY <1>5 DEF FastPop, Popped, Dr
<1>7. /\ Len(fifo') = Len(fifo) - 1 /\ fifo' \in Seq([1 .. width -> Nat])
      /\ \A k \in 1 .. Len(fifo') : fifo'[k] = fifo[k + 1]
      /\ Dr = fifo[1]
  BY <1>4, <1>5, <1>6
<1>8. \A b \in 1 .. 2 : fifo[1][b] = Offset + rx + 2 * (n + 1 - 1) + b - 1
  BY <1>1, <1>4 DEF IInv, Chunk
<1>9. fifo[1][1] = Offset + rx + 2 * n /\ fifo[1][2] = Offset + rx + 2 * n + 1
  BY <1>3, <1>8, Numbers
<1>10. rx + 2 * n + 1 < rx + step /\ rx + step <= size
  BY <1>1, <1>2, <1>3 DEF MoreSteps
<1> QED
  BY <1>3, <1>4, <1>5, <1>6, <1>7, <1>9, <1>10

LEMMA FastPopKeeps == IInv /\ FastPop => IInv'
<1> SUFFICES ASSUME IInv, FastPop
             PROVE  IInv'
  OBVIOUS
<1>1. at = "fast_pop" /\ at' = "fast_pop" /\ n < Halfwords /\ n' = n + 1
  BY DEF FastPop
<1>2. UNCHANGED <<platform, step, fourByte, fastRead, size, rx, id, left, from, width, thr, on>>
  BY DEF FastPop, Popped, call
<1> DEFINE q == rx + 2 * n
<1>3. /\ q \in 0 .. size - 1 /\ q + 1 \in 0 .. size - 1
      /\ Dr[1] = Offset + q /\ Dr[2] = Offset + q + 1
  <2>1. /\ n \in Nat /\ rx \in Nat /\ step \in Nat /\ size \in Nat
        /\ rx + 2 * n + 1 < rx + step /\ rx + step <= size
        /\ Dr[1] = Offset + rx + 2 * n /\ Dr[2] = Offset + rx + 2 * n + 1
    BY PopFrame DEF IInv, Given
  <2> QED
    BY <2>1, Numbers
<1>4. buf' = [buf EXCEPT ![q] = Dr[1], ![q + 1] = Dr[2]]
  BY DEF FastPop
<1>5. n \in Nat /\ rx \in Nat /\ Halfwords \in Nat /\ Len(fifo) \in Nat /\ Offset \in Nat
  BY PopFrame, Numbers
<1>6. Given'
  BY <1>2, GivenKept DEF IInv, call
<1>7. Types'
  <2>1. buf' \in [0 .. size - 1 -> {Unread, Garbage} \cup Nat]
    <3>1. Dr[1] \in Nat /\ Dr[2] \in Nat
      BY <1>3, <1>5
    <3> HIDE DEF q
    <3> QED
      BY <1>3, <1>4, <3>1 DEF IInv, Types
  <2>2. fifo' \in Seq([1 .. width' -> Nat]) /\ Len(fifo') <= Depth /\ n' \in Nat
    BY <1>1, <1>2, <1>5, PopFrame, Numbers DEF IInv, Types
  <2> QED
    BY <1>1, <1>2, <2>1, <2>2 DEF IInv, Types
<1>8. Chunk'
  <2>1. MoreSteps' = MoreSteps /\ Halfwords' = Halfwords
    BY <1>2 DEF MoreSteps, Halfwords
  <2>2. \A k \in 1 .. Len(fifo') : \A b \in 1 .. 2 :
          fifo'[k][b] = Offset + rx + 2 * (n' + k - 1) + b - 1
    <3> TAKE k \in 1 .. Len(fifo'), b \in 1 .. 2
    <3>1. k + 1 \in 1 .. Len(fifo) /\ fifo'[k] = fifo[k + 1]
      BY <1>5, PopFrame
    <3>2. fifo[k + 1][b] = Offset + rx + 2 * (n + (k + 1) - 1) + b - 1
      BY <1>1, <3>1 DEF IInv, Chunk
    <3>3. k \in Nat /\ b \in Nat
      BY PopFrame, <1>5
    <3> QED
      BY <1>1, <1>5, <3>1, <3>2, <3>3
  <2>3. /\ MoreSteps /\ width = 2 /\ thr = Halfwords /\ left <= Halfwords + 1
        /\ platform = "grape" /\ fourByte /\ step > 1
        /\ from = Offset + rx + 2 * (Halfwords + 1 - left)
        /\ \/ Len(fifo) = Halfwords + 1 - left - n
           \/ left = 0 /\ Len(fifo) = Halfwords - n
        /\ Len(fifo) >= Halfwords - n
    BY <1>1 DEF IInv, Chunk
  <2>4. left \in Nat
    BY DEF IInv, Types
  <2>5. /\ n' <= Halfwords /\ Len(fifo') >= Halfwords - n'
        /\ \/ Len(fifo') = Halfwords + 1 - left - n'
           \/ left = 0 /\ Len(fifo') = Halfwords - n'
    <3>1. Len(fifo') = Len(fifo) - 1
      BY PopFrame
    <3> QED
      BY <1>1, <1>5, <2>3, <2>4, <3>1
  <2> QED
    BY <1>1, <1>2, <2>1, <2>2, <2>3, <2>5 DEF Chunk
<1>9. Image'
  <2>1. Behind = q /\ Behind' = q + 2
    BY <1>1, <1>2, <1>5 DEF Behind
  <2>2. ASSUME StepsRead, fourByte \/ Offset + size <= Low, NEW p \in 0 .. q + 1
        PROVE  buf'[p] = Offset + p
    <3>1. p \in 0 .. size - 1 /\ DOMAIN buf = 0 .. size - 1
      BY <1>3, <1>5 DEF IInv, Types, Given
    <3>2. CASE p \in 0 .. q - 1
      <4>1. buf[p] = Offset + p
        BY <2>1, <2>2, <3>2 DEF IInv, Image
      <4>2. p # q /\ p # q + 1
        BY <1>5, <3>2
      <4> HIDE DEF q
      <4> QED
        BY <1>4, <3>1, <4>1, <4>2
    <3>3. CASE p = q
      <4>1. q # q + 1
        BY <1>5
      <4> HIDE DEF q
      <4> QED
        BY <1>3, <1>4, <3>1, <3>3, <4>1
    <3>4. CASE p = q + 1
      <4>1. Offset + q + 1 = Offset + (q + 1)
        BY <1>5
      <4> HIDE DEF q
      <4> QED
        BY <1>3, <1>4, <3>1, <3>4, <4>1
    <3> QED
      BY <1>5, <3>2, <3>3, <3>4
  <2>3. q + 2 - 1 = q + 1
    BY <1>5
  <2> QED
    BY <1>1, <1>2, <2>1, <2>2, <2>3 DEF IInv, Image
<1>10. Answer' /\ OneByte'
  BY <1>1, <1>2 DEF IInv, Answer, OneByte
<1> QED
  BY <1>6, <1>7, <1>8, <1>9, <1>10 DEF IInv

LEMMA FastDoneKeeps == IInv /\ FastDone => IInv'
<1> SUFFICES ASSUME IInv, FastDone
             PROVE  IInv'
  OBVIOUS
<1>1. at = "fast_pop" /\ at' = "fast" /\ n = Halfwords /\ rx' = rx + step /\ on' = FALSE
  BY DEF FastDone, Deselect
<1>2. UNCHANGED <<platform, step, fourByte, fastRead, size, buf, id, n, fifo, left, from, width, thr>>
  BY DEF FastDone, Deselect, call
<1>3. platform = "grape" /\ fourByte /\ step > 1 /\ MoreSteps
  BY <1>1 DEF IInv, Chunk
<1>4. step \in Nat /\ size \in Nat /\ rx \in Nat
  BY DEF IInv, Given, Types
<1>5. Given'
  BY <1>2, GivenKept DEF IInv, call
<1>6. Types'
  <2>1. rx' \in 0 .. size
    BY <1>1, <1>3, <1>4 DEF MoreSteps
  <2> QED
    BY <1>1, <1>2, <2>1 DEF IInv, Types, Places
<1>7. Image'
  <2>1. ASSUME StepsRead PROVE 2 * Halfwords = step
    <3>1. step \in GrapeSteps /\ size \in Sizes
      BY <1>3 DEF IInv, Given
    <3>2. step <= 1 \/ step > size \/ (step % 2 = 0 /\ step <= 2 * Depth)
      BY <2>1, <3>1 DEF StepsRead
    <3>3. step <= size
      BY <1>3, <1>4 DEF MoreSteps
    <3>4. step % 2 = 0 /\ step <= 2 * Depth
      BY <1>3, <1>4, <3>2, <3>3
    <3> QED
      BY <1>4, <3>4, HalfwordsExact
  <2>2. StepsRead => Behind' = Behind
    BY <1>1, <2>1 DEF Behind
  <2> QED
    BY <1>1, <1>2, <2>2 DEF IInv, Image
<1>8. Answer' /\ Chunk' /\ OneByte'
  BY <1>1, <1>2, <1>3 DEF IInv, Answer, Chunk, OneByte
<1> QED
  BY <1>5, <1>6, <1>7, <1>8 DEF IInv

LEMMA FastEndKeeps == IInv /\ FastEnd => IInv'
<1> SUFFICES ASSUME IInv, FastEnd
             PROVE  IInv'
  OBVIOUS
<1>1. at = "fast" /\ at' = "bytes"
  BY DEF FastEnd
<1>2. /\ UNCHANGED <<platform, step, fourByte, fastRead, size, rx, buf, id, n>>
      /\ UNCHANGED <<fifo, left, from, width, thr, on>>
  BY DEF FastEnd, call, ctrl
<1>3. Given'
  BY <1>2, GivenKept DEF IInv, call
<1>4. Types'
  BY <1>1, <1>2 DEF IInv, Types, Places
<1>5. Answer' /\ Chunk' /\ OneByte' /\ Image'
  BY <1>1, <1>2 DEF IInv, Answer, Chunk, OneByte, Image, Behind
<1> QED
  BY <1>3, <1>4, <1>5 DEF IInv

LEMMA ByteStartKeeps == IInv /\ ByteStart => IInv'
<1> SUFFICES ASSUME IInv, ByteStart
             PROVE  IInv'
  OBVIOUS
<1>1. at = "bytes" /\ at' = "byte_poll" /\ rx < size
  BY DEF ByteStart
<1>2. UNCHANGED <<platform, step, fourByte, fastRead, size, rx, buf, id, n>>
  BY DEF ByteStart, call
<1>3. /\ fifo' = <<>> /\ left' = 1 /\ from' = ByteAddress
      /\ width' = 1 /\ thr' = 1 /\ on' = TRUE
  BY DEF ByteStart, Transfer
<1>4. Given'
  BY <1>2, GivenKept DEF IInv, call
<1>5. Types'
  <2>1. fifo' \in Seq([1 .. width' -> Nat]) /\ Len(fifo') <= Depth
    BY <1>3, Numbers
  <2>2. at' \in Places /\ on' \in BOOLEAN
    BY <1>1, <1>3 DEF Places
  <2>3. left' \in Nat /\ from' \in Nat /\ width' \in {1, 2} /\ thr' \in Nat
    BY <1>3, AddressType DEF IInv
  <2> QED
    BY <1>2, <2>1, <2>2, <2>3 DEF IInv, Types
<1>6. OneByte'
  <2>1. ByteAddress' = ByteAddress
    BY <1>2 DEF ByteAddress
  <2> QED
    BY <1>1, <1>2, <1>3, <2>1 DEF OneByte
<1>7. Answer' /\ Chunk' /\ Image'
  BY <1>1, <1>2 DEF IInv, Answer, Chunk, Image, Behind
<1> QED
  BY <1>4, <1>5, <1>6, <1>7 DEF IInv

LEMMA BytePollKeeps == IInv /\ BytePoll => IInv'
<1> SUFFICES ASSUME IInv, BytePoll
             PROVE  IInv'
  OBVIOUS
<1>1. /\ at = "byte_poll" /\ at' = "bytes" /\ rx' = rx + 1 /\ on' = FALSE
      /\ Len(fifo) >= thr /\ fifo' = Tail(fifo) /\ buf' = [buf EXCEPT ![rx] = Dr[1]]
  BY DEF BytePoll, Rxfir
<1>2. UNCHANGED <<platform, step, fourByte, fastRead, size, id, n, left, from, width, thr>>
  BY DEF BytePoll, call
<1>3. /\ rx \in Nat /\ size \in Nat /\ rx < size
      /\ fifo \in Seq([1 .. width -> Nat]) /\ Len(fifo) \in Nat /\ left \in Nat
  BY <1>1 DEF IInv, OneByte, Types, Given
<1>4. Len(fifo) = 1 /\ fifo[1][1] = ByteAddress
  BY <1>1, <1>3 DEF IInv, OneByte
<1>5. Dr[1] = ByteAddress
  BY <1>3, <1>4 DEF Dr
<1>6. Given'
  BY <1>2, GivenKept DEF IInv, call
<1>7. Types'
  <2>1. fifo' \in Seq([1 .. width' -> Nat]) /\ Len(fifo') = 0
    BY <1>1, <1>2, <1>3, <1>4
  <2>2. buf' \in [0 .. size - 1 -> {Unread, Garbage} \cup Nat]
    BY <1>1, <1>5, AddressType DEF IInv, Types
  <2>3. rx' \in 0 .. size
    BY <1>1, <1>3
  <2>4. at' \in Places /\ on' \in BOOLEAN
    BY <1>1 DEF Places
  <2> QED
    BY <1>2, <2>1, <2>2, <2>3, <2>4, Numbers DEF IInv, Types
<1>8. Image'
  <2>1. Behind = rx /\ Behind' = rx + 1
    BY <1>1 DEF Behind
  <2>2. ASSUME StepsRead, fourByte \/ Offset + size <= Low, NEW p \in 0 .. rx
        PROVE  buf'[p] = Offset + p
    <3>1. p \in 0 .. size - 1 /\ DOMAIN buf = 0 .. size - 1
      BY <1>3 DEF IInv, Types
    <3>2. CASE p \in 0 .. rx - 1
      <4>1. buf[p] = Offset + p
        BY <2>1, <2>2, <3>2 DEF IInv, Image
      <4>2. p # rx
        BY <1>3, <3>2
      <4> QED
        BY <1>1, <3>1, <4>1, <4>2
    <3>3. CASE p = rx
      <4>1. ByteAddress = Offset + rx
        BY <1>3, <2>2, AddressType DEF IInv
      <4> QED
        BY <1>1, <1>5, <3>1, <3>3, <4>1
    <3> QED
      BY <1>3, <3>2, <3>3
  <2>3. rx + 1 - 1 = rx
    BY <1>3
  <2> QED
    <3>1. Behind' - 1 = rx
      BY <1>3, <2>1
    <3>2. StepsRead /\ (fourByte \/ Offset + size <= Low) =>
            \A p \in 0 .. rx : buf'[p] = Offset + p
      BY <2>2
    <3> QED
      BY <1>1, <1>2, <3>1, <3>2 DEF Image
<1>9. Answer' /\ Chunk' /\ OneByte'
  BY <1>1, <1>2 DEF IInv, Answer, Chunk, OneByte
<1> QED
  BY <1>6, <1>7, <1>8, <1>9 DEF IInv

LEMMA FinishKeeps == IInv /\ Finish => IInv'
<1> SUFFICES ASSUME IInv, Finish
             PROVE  IInv'
  OBVIOUS
<1>1. at = "bytes" /\ at' = "done" /\ rx = size
  BY DEF Finish
<1>2. /\ UNCHANGED <<platform, step, fourByte, fastRead, size, rx, buf, id, n>>
      /\ UNCHANGED <<fifo, left, from, width, thr, on>>
  BY DEF Finish, call, ctrl
<1>3. Given'
  BY <1>2, GivenKept DEF IInv, call
<1>4. Types'
  BY <1>1, <1>2 DEF IInv, Types, Places
<1>5. Answer' /\ Chunk' /\ OneByte' /\ Image'
  BY <1>1, <1>2 DEF IInv, Answer, Chunk, OneByte, Image, Behind
<1> QED
  BY <1>3, <1>4, <1>5 DEF IInv

------------------------------------------------------------------------------
(* The inductive invariant: the frames in the FIFO and the address counter  *)
(* of the flash fit together at every step of dw_ssi.c and its controller.  *)
THEOREM Inductive == Spec => []IInv
<1>1. IInv /\ UNCHANGED vars => IInv'
  BY DEF IInv, Given, Types, Answer, Chunk, OneByte, Image, Behind, MoreSteps, Halfwords,
         ByteAddress, vars, call, ctrl
<1>2. IInv /\ [Next]_vars => IInv'
  BY <1>1, ShiftKeeps, IdStartKeeps, IdPollKeeps, IdTimeoutKeeps, IdPopKeeps, ReadStartKeeps,
     SkipKeeps, FastStartKeeps, FastPollKeeps, FastPopKeeps, FastDoneKeeps, FastEndKeeps,
     ByteStartKeeps, BytePollKeeps, FinishKeeps DEF Next, Driver
<1> QED
  BY InitIInv, <1>2, PTL DEF Spec

(* The values of the driver's variables and of the controller: the driver   *)
(* never stores outside the buffer, for every step and size.                *)
THEOREM TypeCorrect == Spec => []TypeOK
<1>1. IInv => TypeOK
  BY DEF IInv, Types, TypeOK
<1> QED
  BY <1>1, Inductive, PTL

(* Every read by bytes, and every read by steps that the loops read whole,  *)
(* gives exactly the bytes of the flash: of each transfer's frames the      *)
(* driver pops those that it asked for, in order, and none twice.           *)
THEOREM ReadsExact ==
  ASSUME StepsRead
  PROVE  Spec => []FlashExact
<1>1. IInv => FlashExact
  <2> SUFFICES ASSUME IInv, at = "done", fourByte \/ Offset + size <= Low,
                      NEW p \in 0 .. size - 1
               PROVE  buf[p] = Offset + p
    BY DEF FlashExact
  <2>1. Behind = size
    BY DEF IInv, Image, Behind
  <2> QED
    BY <2>1, StepsRead DEF IInv, Image
<1> QED
  BY <1>1, Inductive, PTL

(* An identification gives all three bytes or zeros, whenever the frames    *)
(* arrive and whatever the bound on polling.                                *)
THEOREM IdentityNeverTorn == Spec => []IdentityWhole
<1>1. IInv => IdentityWhole
  BY DEF IInv, Answer, IdentityWhole
<1> QED
  BY <1>1, Inductive, PTL

==============================================================================
