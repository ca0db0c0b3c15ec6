------------------------------ MODULE I2cPromise ------------------------------
(***************************************************************************)
(* What a caller of an I2C master may rely on, without registers, FIFOs or *)
(* flags: a call carries its message to the device byte by byte, then the  *)
(* device supplies as many bytes as the call wants, and nothing moves but  *)
(* during a call.  Once the device has refused a byte nothing moves before *)
(* the controller was set up again, which a call does at its start only.   *)
(***************************************************************************)
EXTENDS Naturals, Sequences

CONSTANT Byte    \* what messages are made of

VARIABLES
  busy,          \* a call is in progress
  message, want, \* its bytes for the device, and the bytes it wants from there
  received,      \* what the device has received
  supplied,      \* how many bytes the device has supplied, numbered from 1
  taken,         \* those that the caller has
  refused        \* the device refused a byte

vars == <<busy, message, want, received, supplied, taken, refused>>

Init ==
  /\ busy = FALSE
  /\ message = <<>> /\ want = 0
  /\ received = <<>> /\ supplied = 0 /\ taken = <<>>
  /\ refused = FALSE

Begin ==
  /\ ~busy
  /\ busy' = TRUE
  /\ message' \in Seq(Byte) /\ want' \in Nat
  /\ received' = <<>> /\ supplied' = 0 /\ taken' = <<>>
  /\ UNCHANGED refused

SetUp ==
  /\ busy
  /\ received = <<>> /\ supplied = 0
  /\ refused' = FALSE
  /\ UNCHANGED <<busy, message, want, received, supplied, taken>>

Deliver ==
  /\ busy
  /\ ~refused
  /\ Len(received) < Len(message)
  /\ received' = Append(received, message[Len(received) + 1])
  /\ UNCHANGED <<busy, message, want, supplied, taken, refused>>

(* The whole message came first: a memory knows its address by then.  *)
Supply ==
  /\ busy
  /\ ~refused
  /\ received = message
  /\ supplied < want
  /\ supplied' = supplied + 1
  /\ UNCHANGED <<busy, message, want, received, taken, refused>>

Take ==
  /\ busy
  /\ Len(taken) < supplied
  /\ taken' = Append(taken, Len(taken) + 1)
  /\ UNCHANGED <<busy, message, want, received, supplied, refused>>

Refuse ==
  /\ busy
  /\ ~refused
  /\ received # message \/ supplied < want
  /\ refused' = TRUE
  /\ UNCHANGED <<busy, message, want, received, supplied, taken>>

(* Nothing tells a caller that its message was refused.  *)
Return ==
  /\ busy
  /\ received = message \/ refused
  /\ Len(taken) = want
  /\ busy' = FALSE
  /\ UNCHANGED <<message, want, received, supplied, taken, refused>>

Next == Begin \/ SetUp \/ Deliver \/ Supply \/ Take \/ Refuse \/ Return

Spec == Init /\ [][Next]_vars

==============================================================================
