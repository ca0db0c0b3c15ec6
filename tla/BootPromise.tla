----------------------------- MODULE BootPromise -----------------------------
(***************************************************************************)
(* What the two boot loaders promise together, without saying how: every   *)
(* core goes from the zeroth stage (ZSBL, in ROM) to the first stage (FSBL,*)
(* in its socket's on-chip RAM) and from there to OpenSBI (in DDR), an     *)
(* image is complete before any core runs it, and no image is written      *)
(* again under a core that already runs it.                                *)
(***************************************************************************)
CONSTANTS
  Core,      \* every core of the machine
  Socket,    \* every socket
  SocketOf   \* the socket a core sits in

VARIABLES
  at,        \* the program a core runs: "zsbl", "fsbl" or "opensbi"
  fsbl,      \* fsbl[s]: the FSBL image is complete in the RAM of socket s
  opensbi    \* the OpenSBI image is complete in DDR

vars == <<at, fsbl, opensbi>>

TypeOK ==
  /\ at \in [Core -> {"zsbl", "fsbl", "opensbi"}]
  /\ fsbl \in [Socket -> BOOLEAN]
  /\ opensbi \in BOOLEAN

(* An image may be in memory before the first core runs (debug boot). *)
Init ==
  /\ at = [c \in Core |-> "zsbl"]
  /\ \E b \in BOOLEAN : fsbl = [s \in Socket |-> b] /\ opensbi = b

LoadFsbl(s) ==
  /\ \A c \in Core : SocketOf[c] = s => at[c] = "zsbl"
  /\ fsbl' = [fsbl EXCEPT ![s] = TRUE]
  /\ UNCHANGED <<at, opensbi>>

EnterFsbl(c) ==
  /\ at[c] = "zsbl"
  /\ fsbl[SocketOf[c]]
  /\ at' = [at EXCEPT ![c] = "fsbl"]
  /\ UNCHANGED <<fsbl, opensbi>>

LoadOpenSbi ==
  /\ \A c \in Core : at[c] # "opensbi"
  /\ \E c \in Core : at[c] = "fsbl"
  /\ opensbi' = TRUE
  /\ UNCHANGED <<at, fsbl>>

EnterOpenSbi(c) ==
  /\ at[c] = "fsbl"
  /\ opensbi
  /\ at' = [at EXCEPT ![c] = "opensbi"]
  /\ UNCHANGED <<fsbl, opensbi>>

Next ==
  \/ \E s \in Socket : LoadFsbl(s)
  \/ \E c \in Core : EnterFsbl(c) \/ EnterOpenSbi(c)
  \/ LoadOpenSbi

Spec == Init /\ [][Next]_vars

==============================================================================
