---------------------------- MODULE BootOrderProofs ----------------------------
(***************************************************************************)
(* Proofs about BootConf that need the order of the calls: which divisor    *)
(* and clock a device is used with, and what OpenSBI is told of the PCs.    *)
(* Every build arranges the calls of Program in another way; what all have  *)
(* in common is a rank of the calls that grows along the program.           *)
(***************************************************************************)
EXTENDS BootConfProofs, PartialGoodProofs

(* The rank of a call.  The clock is initialised in one of two places, that *)
(* the build decides; the flash is probed in one of two, or in neither, so  *)
(* this call has a lowest and a highest rank.                               *)
Low(name) ==
  CASE name = "zsbl_set_bc_rom" -> 1
    [] name = "zsbl_run_bist" -> 2
    [] name = "plat_clock_init" -> IF build.clockInZsbl THEN 3 ELSE 11
    [] name = "zsbl_init_console" -> 4
    [] name = "storage_init" -> 5
    [] name = "storage_probe" -> 6
    [] name = "storage_load_bc" -> 7
    [] name = "zsbl_print_bc" -> 8
    [] name = "storage_load_fsbl" -> 9
    [] name = "fsbl_first_print" -> 10
    [] name = "plat_setup_pg" -> 13
    [] name = "plat_start_pc" -> 14
    [] name = "fsbl_run_bist" -> 15
    [] name = "plat_setup_sz" -> 16
    [] name = "storage_load_opensbi" -> 17

High(name) == IF name = "storage_probe" THEN 12 ELSE Low(name)

Has(s, name) == \E i \in 1 .. Len(s) : s[i] = name

(* The calls of s are in order, above rank a and up to rank b. *)
Within(s, a, b) ==
  /\ s \in Seq(Names)
  /\ \A i \in 1 .. Len(s) : a < High(s[i]) /\ Low(s[i]) <= b
  /\ \A i, j \in 1 .. Len(s) : i < j => Low(s[i]) < High(s[j])

LEMMA Ranks ==
  /\ Low("zsbl_set_bc_rom") = 1 /\ Low("zsbl_run_bist") = 2
  /\ Low("plat_clock_init") = IF build.clockInZsbl THEN 3 ELSE 11
  /\ Low("zsbl_init_console") = 4 /\ Low("storage_init") = 5 /\ Low("storage_probe") = 6
  /\ Low("storage_load_bc") = 7 /\ Low("zsbl_print_bc") = 8 /\ Low("storage_load_fsbl") = 9
  /\ Low("fsbl_first_print") = 10 /\ Low("plat_setup_pg") = 13 /\ Low("plat_start_pc") = 14
  /\ Low("fsbl_run_bist") = 15 /\ Low("plat_setup_sz") = 16
  /\ Low("storage_load_opensbi") = 17 /\ High("storage_probe") = 12
  /\ \A name \in Names \ {"storage_probe"} : High(name) = Low(name)
<1>1. /\ Low("zsbl_set_bc_rom") = 1 /\ Low("zsbl_run_bist") = 2
      /\ Low("plat_clock_init") = IF build.clockInZsbl THEN 3 ELSE 11
      /\ Low("zsbl_init_console") = 4 /\ Low("storage_init") = 5
  BY DEF Low
<1>2. /\ Low("storage_probe") = 6
      /\ Low("storage_load_bc") = 7 /\ Low("zsbl_print_bc") = 8 /\ Low("storage_load_fsbl") = 9
      /\ Low("fsbl_first_print") = 10
  BY DEF Low
<1>3. /\ Low("plat_setup_pg") = 13 /\ Low("plat_start_pc") = 14
      /\ Low("fsbl_run_bist") = 15 /\ Low("plat_setup_sz") = 16
      /\ Low("storage_load_opensbi") = 17
  BY DEF Low
<1> QED
  BY <1>1, <1>2, <1>3 DEF High

LEMMA RankTyped ==
  ASSUME NEW name \in Names
  PROVE  Low(name) \in Nat /\ High(name) \in Nat
<1>1. Low("plat_clock_init") \in Nat
  BY Ranks
<1>2. Low(name) \in Nat
  BY <1>1, Ranks DEF Names
<1> QED
  BY <1>2 DEF High

(* Two stretches of calls, one after the other. *)
LEMMA Joined ==
  ASSUME NEW s \in Seq(Names), NEW t \in Seq(Names)
  PROVE  /\ s \o t \in Seq(Names) /\ Len(s \o t) = Len(s) + Len(t)
         /\ Len(s) \in Nat /\ Len(t) \in Nat
         /\ \A i \in 1 .. Len(s) : (s \o t)[i] = s[i]
         /\ \A i \in 1 .. Len(t) : (s \o t)[Len(s) + i] = t[i]
         /\ \A i \in 1 .. Len(s \o t) :
              i \in 1 .. Len(s) \/ \E k \in 1 .. Len(t) : i = Len(s) + k
<1>1. /\ s \o t \in Seq(Names) /\ Len(s \o t) = Len(s) + Len(t)
      /\ Len(s) \in Nat /\ Len(t) \in Nat
  OBVIOUS
<1>2. /\ \A i \in 1 .. Len(s) : (s \o t)[i] = s[i]
      /\ \A i \in 1 .. Len(t) : (s \o t)[Len(s) + i] = t[i]
  OBVIOUS
<1>3. ASSUME NEW i \in 1 .. Len(s \o t), i \notin 1 .. Len(s)
      PROVE  \E k \in 1 .. Len(t) : i = Len(s) + k
  <2>1. i - Len(s) \in 1 .. Len(t) /\ i = Len(s) + (i - Len(s))
    BY <1>1, <1>3
  <2> QED
    BY <2>1
<1> QED
  BY <1>1, <1>2, <1>3

LEMMA HasJoined ==
  ASSUME NEW s \in Seq(Names), NEW t \in Seq(Names), NEW name
  PROVE  /\ Has(s, name) => Has(s \o t, name)
         /\ Has(t, name) => Has(s \o t, name)
<1>1. ASSUME Has(s, name)
      PROVE  Has(s \o t, name)
  <2>1. PICK i \in 1 .. Len(s) : s[i] = name
    BY <1>1 DEF Has
  <2>2. i \in 1 .. Len(s \o t) /\ (s \o t)[i] = name
    BY <2>1, Joined
  <2> QED
    BY <2>2 DEF Has
<1>2. ASSUME Has(t, name)
      PROVE  Has(s \o t, name)
  <2>1. PICK i \in 1 .. Len(t) : t[i] = name
    BY <1>2 DEF Has
  <2>2. Len(s) + i \in 1 .. Len(s \o t) /\ (s \o t)[Len(s) + i] = name
    BY <2>1, Joined
  <2> QED
    BY <2>2 DEF Has
<1> QED
  BY <1>1, <1>2

LEMMA WithinJoined ==
  ASSUME NEW s, NEW t, NEW a \in Nat, NEW b \in Nat, NEW c \in Nat, a <= b, b <= c,
         Within(s, a, b), Within(t, b, c)
  PROVE  Within(s \o t, a, c)
<1> DEFINE u == s \o t
<1>1. s \in Seq(Names) /\ t \in Seq(Names)
  BY DEF Within
<1>2. /\ u \in Seq(Names) /\ Len(u) = Len(s) + Len(t)
      /\ Len(s) \in Nat /\ Len(t) \in Nat
      /\ \A i \in 1 .. Len(s) : u[i] = s[i] /\ s[i] \in Names
      /\ \A i \in 1 .. Len(t) : u[Len(s) + i] = t[i] /\ t[i] \in Names
      /\ \A i \in 1 .. Len(u) :
           i \in 1 .. Len(s) \/ \E k \in 1 .. Len(t) : i = Len(s) + k
  BY <1>1, Joined
<1> HIDE DEF u
<1>3. ASSUME NEW i \in 1 .. Len(s)
      PROVE  a < High(u[i]) /\ Low(u[i]) <= b /\ Low(u[i]) \in Nat /\ High(u[i]) \in Nat
  BY <1>2, RankTyped DEF Within
<1>4. ASSUME NEW k \in 1 .. Len(t)
      PROVE  /\ b < High(u[Len(s) + k]) /\ Low(u[Len(s) + k]) <= c
             /\ Low(u[Len(s) + k]) \in Nat /\ High(u[Len(s) + k]) \in Nat
  BY <1>2, RankTyped DEF Within
<1>5. ASSUME NEW i \in 1 .. Len(u)
      PROVE  a < High(u[i]) /\ Low(u[i]) <= c
  <2>1. CASE i \in 1 .. Len(s)
    BY <1>3, <2>1
  <2>2. CASE \E k \in 1 .. Len(t) : i = Len(s) + k
    BY <1>4, <2>2
  <2> QED
    BY <1>2, <2>1, <2>2
<1>6. ASSUME NEW i \in 1 .. Len(u), NEW j \in 1 .. Len(u), i < j
      PROVE  Low(u[i]) < High(u[j])
  <2>1. CASE j \in 1 .. Len(s)
    <3>1. i \in 1 .. Len(s)
      BY <1>2, <1>6, <2>1
    <3> QED
      BY <1>2, <1>6, <2>1, <3>1 DEF Within
  <2>2. CASE i \in 1 .. Len(s) /\ \E k \in 1 .. Len(t) : j = Len(s) + k
    BY <1>3, <1>4, <2>2
  <2>3. CASE /\ \E k \in 1 .. Len(t) : i = Len(s) + k
             /\ \E k \in 1 .. Len(t) : j = Len(s) + k
    <3>1. PICK k \in 1 .. Len(t) : i = Len(s) + k
      BY <2>3
    <3>2. PICK m \in 1 .. Len(t) : j = Len(s) + m
      BY <2>3
    <3>3. k < m
      BY <1>2, <1>6, <3>1, <3>2
    <3> QED
      BY <1>2, <3>1, <3>2, <3>3 DEF Within
  <2> QED
    BY <1>2, <2>1, <2>2, <2>3
<1>7. Within(u, a, c)
  BY <1>2, <1>5, <1>6 DEF Within
<1> QED
  BY <1>7 DEF u

(* One call, two or three in a row, or none. *)
LEMMA Short ==
  ASSUME NEW a \in Nat, NEW b \in Nat
  PROVE  /\ Within(<<>>, a, b)
         /\ \A x \in Names : a < High(x) /\ Low(x) <= b => Within(<<x>>, a, b)
<1>1. Within(<<>>, a, b)
  BY DEF Within
<1>2. ASSUME NEW x \in Names, a < High(x), Low(x) <= b
      PROVE  Within(<<x>>, a, b)
  <2>1. <<x>> \in Seq(Names) /\ Len(<<x>>) = 1 /\ <<x>>[1] = x
    OBVIOUS
  <2> QED
    BY <1>2, <2>1 DEF Within
<1> QED
  BY <1>1, <1>2

LEMMA Two ==
  ASSUME NEW a \in Nat, NEW b \in Nat, NEW x \in Names, NEW y \in Names,
         a < High(x), Low(x) < High(y), Low(x) <= b, a < High(y), Low(y) <= b
  PROVE  Within(<<x, y>>, a, b)
<1>1. /\ <<x, y>> \in Seq(Names) /\ Len(<<x, y>>) = 2
      /\ <<x, y>>[1] = x /\ <<x, y>>[2] = y
  OBVIOUS
<1> QED
  BY <1>1 DEF Within

------------------------------------------------------------------------------
(* The calls of every build are in the order of their ranks. *)
LEMMA ZsblOrder == Within(ZsblCalls, 0, 9)
<1> DEFINE a == <<"zsbl_set_bc_rom">>
           b == a \o If(build.pcActsAsMc, "zsbl_run_bist")
           c == b \o If(build.clockInZsbl, "plat_clock_init")
           d == c \o <<"zsbl_init_console", "storage_init">>
           e == d \o If(build.storageProbe, "storage_probe")
           f == e \o <<"storage_load_bc", "zsbl_print_bc", "storage_load_fsbl">>
<1>1. /\ "zsbl_set_bc_rom" \in Names /\ "zsbl_run_bist" \in Names
      /\ "plat_clock_init" \in Names /\ "zsbl_init_console" \in Names
      /\ "storage_init" \in Names /\ "storage_probe" \in Names /\ "storage_load_bc" \in Names
      /\ "zsbl_print_bc" \in Names /\ "storage_load_fsbl" \in Names
  BY DEF Names
<1>2. Within(a, 0, 1)
  BY <1>1, Ranks, Short
<1>3. Within(b, 0, 2)
  <2>1. Within(If(build.pcActsAsMc, "zsbl_run_bist"), 1, 2)
    BY <1>1, Ranks, Short DEF If
  <2> QED
    BY <1>2, <2>1, WithinJoined
<1>4. Within(c, 0, 3)
  <2>1. Within(If(build.clockInZsbl, "plat_clock_init"), 2, 3)
    <3>1. CASE build.clockInZsbl
      <4>1. High("plat_clock_init") = 3 /\ Low("plat_clock_init") = 3
        BY <1>1, <3>1, Ranks
      <4> QED
        BY <1>1, <3>1, <4>1, Short DEF If
    <3> QED
      BY <3>1, Short DEF If
  <2> QED
    BY <1>3, <2>1, WithinJoined
<1>5. Within(d, 0, 5)
  <2>1. Within(<<"zsbl_init_console", "storage_init">>, 3, 5)
    BY <1>1, Ranks, Two
  <2> QED
    BY <1>4, <2>1, WithinJoined
<1>6. Within(e, 0, 6)
  <2>1. Within(If(build.storageProbe, "storage_probe"), 5, 6)
    BY <1>1, Ranks, Short DEF If
  <2> QED
    BY <1>5, <2>1, WithinJoined
<1>7. Within(f, 0, 9)
  <2> DEFINE loads == <<"storage_load_bc", "zsbl_print_bc", "storage_load_fsbl">>
  <2>1. /\ loads \in Seq(Names) /\ Len(loads) = 3 /\ loads[1] = "storage_load_bc"
        /\ loads[2] = "zsbl_print_bc" /\ loads[3] = "storage_load_fsbl"
    BY <1>1
  <2> HIDE DEF loads
  <2>2. Within(loads, 6, 9)
    <3>1. /\ Low(loads[1]) = 7 /\ Low(loads[2]) = 8 /\ Low(loads[3]) = 9
          /\ High(loads[1]) = 7 /\ High(loads[2]) = 8 /\ High(loads[3]) = 9
      BY <1>1, <2>1, Ranks
    <3> QED
      BY <2>1, <3>1 DEF Within
  <2> HIDE DEF e
  <2>3. Within(e \o loads, 0, 9)
    BY <1>6, <2>2, WithinJoined
  <2> QED
    BY <2>3 DEF loads
<1> QED
  BY <1>7 DEF ZsblCalls

LEMMA FsblOrder == Within(FsblCalls, 9, 17)
<1> DEFINE a == <<"fsbl_first_print">>
           b == a \o If(~build.clockInZsbl, "plat_clock_init")
           c == b \o If(build.storageProbe /\ ~build.pcActsAsMc, "storage_probe")
           d == c \o (IF build.pcActsAsMc THEN <<>> ELSE <<"plat_setup_pg", "plat_start_pc">>)
           e == d \o If(build.pcActsAsMc \/ build.platform # "banana", "fsbl_run_bist")
           f == e \o <<"plat_setup_sz", "storage_load_opensbi">>
<1>1. /\ "fsbl_first_print" \in Names /\ "plat_clock_init" \in Names
      /\ "storage_probe" \in Names /\ "plat_setup_pg" \in Names /\ "plat_start_pc" \in Names
      /\ "fsbl_run_bist" \in Names /\ "plat_setup_sz" \in Names
      /\ "storage_load_opensbi" \in Names
  BY DEF Names
<1>2. Within(a, 9, 10)
  BY <1>1, Ranks, Short
<1>3. Within(b, 9, 11)
  <2>1. Within(If(~build.clockInZsbl, "plat_clock_init"), 10, 11)
    <3>1. CASE ~build.clockInZsbl
      <4>1. High("plat_clock_init") = 11 /\ Low("plat_clock_init") = 11
        BY <1>1, <3>1, Ranks
      <4> QED
        BY <1>1, <3>1, <4>1, Short DEF If
    <3> QED
      BY <3>1, Short DEF If
  <2> QED
    BY <1>2, <2>1, WithinJoined
<1>4. Within(c, 9, 12)
  <2>1. Within(If(build.storageProbe /\ ~build.pcActsAsMc, "storage_probe"), 11, 12)
    BY <1>1, Ranks, Short DEF If
  <2> QED
    BY <1>3, <2>1, WithinJoined
<1>5. Within(d, 9, 14)
  <2>1. Within(<<"plat_setup_pg", "plat_start_pc">>, 12, 14)
    BY <1>1, Ranks, Two
  <2>2. Within(<<>>, 12, 14)
    BY Short
  <2> HIDE DEF c
  <2> QED
    BY <1>4, <2>1, <2>2, WithinJoined
<1>6. Within(e, 9, 15)
  <2>1. Within(If(build.pcActsAsMc \/ build.platform # "banana", "fsbl_run_bist"), 14, 15)
    BY <1>1, Ranks, Short DEF If
  <2> QED
    BY <1>5, <2>1, WithinJoined
<1>7. Within(f, 9, 17)
  <2>1. Within(<<"plat_setup_sz", "storage_load_opensbi">>, 15, 17)
    BY <1>1, Ranks, Two
  <2> QED
    BY <1>6, <2>1, WithinJoined
<1> QED
  BY <1>7 DEF FsblCalls

LEMMA ProgramOrder == Within(Program, 0, 17)
  BY ZsblOrder, FsblOrder, WithinJoined DEF Program

(* The calls that a later one relies on are in every program that needs it.  *)
LEMMA OneTwo ==
  ASSUME NEW x, NEW y
  PROVE  /\ Has(<<x>>, x) /\ Has(<<x, y>>, x) /\ Has(<<x, y>>, y)
<1>1. Len(<<x>>) = 1 /\ <<x>>[1] = x /\ Len(<<x, y>>) = 2 /\ <<x, y>>[1] = x /\ <<x, y>>[2] = y
  OBVIOUS
<1> QED
  BY <1>1 DEF Has

LEMMA Present ==
  /\ Has(Program, "zsbl_init_console") /\ Has(Program, "storage_init")
  /\ Has(Program, "storage_load_bc")
  /\ build.clockInZsbl => Has(Program, "plat_clock_init")
  /\ ~build.pcActsAsMc => Has(Program, "plat_setup_pg") /\ Has(Program, "plat_start_pc")
<1> DEFINE a == <<"zsbl_set_bc_rom">> \o If(build.pcActsAsMc, "zsbl_run_bist")
           clock1 == If(build.clockInZsbl, "plat_clock_init")
           init == <<"zsbl_init_console", "storage_init">>
           probe == If(build.storageProbe, "storage_probe")
           load == <<"storage_load_bc", "zsbl_print_bc", "storage_load_fsbl">>
           b == <<"fsbl_first_print">> \o If(~build.clockInZsbl, "plat_clock_init")
                  \o If(build.storageProbe /\ ~build.pcActsAsMc, "storage_probe")
           start == IF build.pcActsAsMc THEN <<>> ELSE <<"plat_setup_pg", "plat_start_pc">>
           bist == If(build.pcActsAsMc \/ build.platform # "banana", "fsbl_run_bist")
           end == <<"plat_setup_sz", "storage_load_opensbi">>
<1>1. /\ <<"zsbl_set_bc_rom">> \in Seq(Names) /\ init \in Seq(Names) /\ load \in Seq(Names)
      /\ <<"fsbl_first_print">> \in Seq(Names) /\ end \in Seq(Names)
  BY Literals DEF Names
<1>2. /\ clock1 \in Seq(Names) /\ probe \in Seq(Names) /\ bist \in Seq(Names)
      /\ start \in Seq(Names) /\ a \in Seq(Names) /\ b \in Seq(Names)
  BY <1>1, Optional, Joined
<1>3. ZsblCalls = a \o clock1 \o init \o probe \o load
  BY DEF ZsblCalls
<1>4. FsblCalls = b \o start \o bist \o end
  BY DEF FsblCalls
<1>5. Has(init, "zsbl_init_console") /\ Has(init, "storage_init")
  BY OneTwo
<1>6. build.clockInZsbl => Has(clock1, "plat_clock_init")
  BY OneTwo DEF If
<1>7. ~build.pcActsAsMc => Has(start, "plat_setup_pg") /\ Has(start, "plat_start_pc")
  BY OneTwo
<1>0. Has(load, "storage_load_bc")
  <2>1. Len(load) = 3 /\ load[1] = "storage_load_bc"
    OBVIOUS
  <2> HIDE DEF load
  <2> QED
    BY <2>1 DEF Has
<1> HIDE DEF a, clock1, init, probe, load, b, start, bist, end
<1>8. ASSUME NEW name, Has(init, name) \/ Has(clock1, name) \/ Has(load, name)
      PROVE  Has(Program, name)
  <2>1. /\ a \o clock1 \in Seq(Names) /\ a \o clock1 \o init \in Seq(Names)
        /\ a \o clock1 \o init \o probe \in Seq(Names)
        /\ a \o clock1 \o init \o probe \o load \in Seq(Names)
    BY <1>1, <1>2, Joined
  <2>2. Has(clock1, name) => Has(a \o clock1 \o init, name)
    BY <1>1, <1>2, <2>1, HasJoined
  <2>3. Has(a \o clock1 \o init, name) \/ Has(load, name)
    BY <1>1, <1>2, <1>8, <2>1, <2>2, HasJoined
  <2>4. Has(ZsblCalls, name)
    BY <1>1, <1>2, <1>3, <2>1, <2>3, HasJoined
  <2> QED
    BY <2>4, ZsblOrder, FsblOrder, HasJoined DEF Program, Within
<1>9. ASSUME NEW name, Has(start, name)
      PROVE  Has(Program, name)
  <2>1. b \o start \in Seq(Names) /\ b \o start \o bist \in Seq(Names)
    BY <1>1, <1>2, Joined
  <2>2. Has(b \o start, name)
    BY <1>2, <1>9, HasJoined
  <2>3. Has(FsblCalls, name)
    BY <1>1, <1>2, <1>4, <2>1, <2>2, HasJoined
  <2> QED
    BY <2>3, ZsblOrder, FsblOrder, HasJoined DEF Program, Within
<1> QED
  BY <1>0, <1>5, <1>6, <1>7, <1>8, <1>9

------------------------------------------------------------------------------
(* A call of this name has returned. *)
Done(name) == \E i \in 1 .. Len(Program) : i <= pc /\ Program[i] = name

LEMMA CallNamed ==
  ASSUME Given, NEW call, Call(call)
  PROVE  /\ Len(Program) \in Nat /\ pc + 1 \in 1 .. Len(Program) /\ call \in Names
         /\ Program[pc + 1] = call /\ pc' = pc + 1 /\ Program' = Program
<1>1. Program \in Seq(Names) /\ Len(Program) \in Nat
  BY FirstCall
<1>2. pc < Len(Program) /\ Program[pc + 1] = call /\ pc' = pc + 1 /\ build' = build
  BY DEF Call
<1>3. pc + 1 \in 1 .. Len(Program)
  BY <1>1, <1>2 DEF Given
<1>4. Program' = Program
  BY <1>2 DEF Program, ZsblCalls, FsblCalls
<1> QED
  BY <1>1, <1>2, <1>3, <1>4

LEMMA DoneGrows ==
  ASSUME Given, NEW call, Call(call), NEW name
  PROVE  Done(name)' <=> Done(name) \/ name = call
<1>1. /\ Len(Program) \in Nat /\ pc + 1 \in 1 .. Len(Program) /\ Program[pc + 1] = call
      /\ pc' = pc + 1 /\ Program' = Program /\ pc \in Nat
  BY CallNamed DEF Given
<1>2. Done(name)' <=> \E i \in 1 .. Len(Program) : i <= pc + 1 /\ Program[i] = name
  BY <1>1 DEF Done
<1>3. \A i \in 1 .. Len(Program) : i <= pc + 1 <=> i <= pc \/ i = pc + 1
  BY <1>1
<1> QED
  BY <1>1, <1>2, <1>3 DEF Done

LEMMA DoneStays == ASSUME UNCHANGED vars, NEW name PROVE Done(name)' <=> Done(name)
<1>1. build' = build /\ pc' = pc
  BY DEF vars
<1>2. Program' = Program
  BY <1>1 DEF Program, ZsblCalls, FsblCalls
<1> QED
  BY <1>1, <1>2 DEF Done

(* What ranks lower was called before, what ranks higher was not. *)
LEMMA DoneBefore ==
  ASSUME Given, NEW call, Call(call), NEW name, Has(Program, name),
         High(name) <= Low(call), name # call
  PROVE  Done(name)
<1>1. /\ Len(Program) \in Nat /\ pc + 1 \in 1 .. Len(Program) /\ Program[pc + 1] = call
      /\ pc \in Nat /\ call \in Names
  BY CallNamed DEF Given
<1>2. PICK i \in 1 .. Len(Program) : Program[i] = name
  BY DEF Has
<1>3. name \in Names
  BY <1>2, ProgramOrder DEF Within
<1>4. i # pc + 1
  BY <1>1, <1>2
<1>5. ~(pc + 1 < i)
  <2> SUFFICES ASSUME pc + 1 < i PROVE FALSE
    OBVIOUS
  <2>1. Low(call) < High(name)
    BY <1>1, <1>2, ProgramOrder DEF Within
  <2> QED
    BY <1>1, <1>3, <2>1, RankTyped
<1>6. i <= pc
  BY <1>1, <1>4, <1>5
<1> QED
  BY <1>2, <1>6 DEF Done

LEMMA NotYet ==
  ASSUME Given, NEW call, Call(call), NEW name \in Names, High(call) <= Low(name)
  PROVE  ~Done(name)
<1>1. /\ Len(Program) \in Nat /\ pc + 1 \in 1 .. Len(Program) /\ Program[pc + 1] = call
      /\ pc \in Nat /\ call \in Names
  BY CallNamed DEF Given
<1> SUFFICES ASSUME NEW i \in 1 .. Len(Program), i <= pc, Program[i] = name
             PROVE  FALSE
  BY DEF Done
<1>2. i < pc + 1
  BY <1>1
<1>3. Low(name) < High(call)
  BY <1>1, <1>2, ProgramOrder DEF Within
<1> QED
  BY <1>1, <1>3, RankTyped

LEMMA DoneEarlier ==
  ASSUME Given, NEW later, Done(later), NEW name, Has(Program, name),
         High(name) <= Low(later), name # later
  PROVE  Done(name)
<1>1. PICK j \in 1 .. Len(Program) : j <= pc /\ Program[j] = later
  BY DEF Done
<1>2. PICK i \in 1 .. Len(Program) : Program[i] = name
  BY DEF Has
<1>3. name \in Names /\ later \in Names /\ Len(Program) \in Nat /\ pc \in Nat
  BY <1>1, <1>2, ProgramOrder, FirstCall DEF Within, Given
<1>4. ~(j < i)
  <2> SUFFICES ASSUME j < i PROVE FALSE
    OBVIOUS
  <2>1. Low(later) < High(name)
    BY <1>1, <1>2, ProgramOrder DEF Within
  <2> QED
    BY <1>3, <2>1, RankTyped
<1>5. i <= pc
  BY <1>1, <1>3, <1>4
<1> QED
  BY <1>2, <1>5 DEF Done

LEMMA NothingDone == ASSUME pc = 0, NEW name PROVE ~Done(name)
<1>1. \A i \in 1 .. Len(Program) : ~(i <= 0)
  BY FirstCall
<1> QED
  BY <1>1 DEF Done

------------------------------------------------------------------------------
(* The partial-good code of the socket, in the three places it is used.     *)
Released(code) == UNION {{k} \X (CoreOf \ ResetRegister(code[k])) : k \in Cluster}

Handed ==
  /\ build.platform = "apple" /\ Done("plat_setup_pg") => csr = Code
  /\ build.platform = "apple" /\ Done("plat_start_pc") => running = Released(Code)
  /\ DOMAIN sharezone.code = {0, 1}
  /\ sharezone.cnt # 0 => Done("plat_setup_sz")
  /\ build.platform = "apple" /\ Done("plat_setup_sz") =>
       sharezone.cnt = conf.socket_cnt /\ sharezone.code[conf.socket_id] = Code

LEMMA HandedStart == Init => Handed
<1> SUFFICES ASSUME Init
             PROVE  Handed
  OBVIOUS
<1>1. \A name : ~Done(name)
  BY NothingDone DEF Init
<1>2. sharezone.cnt = 0 /\ DOMAIN sharezone.code = {0, 1}
  BY DEF Init
<1> QED
  BY <1>1, <1>2 DEF Handed

(* A call that has nothing to do with the code. *)
LEMMA HandedKept ==
  ASSUME Given, Handed, NEW call, Call(call), UNCHANGED <<conf, csr, running, sharezone>>,
         call \notin {"plat_setup_pg", "plat_start_pc", "plat_setup_sz"}
  PROVE  Handed'
<1>1. /\ Done("plat_setup_pg")' <=> Done("plat_setup_pg")
      /\ Done("plat_start_pc")' <=> Done("plat_start_pc")
      /\ Done("plat_setup_sz")' <=> Done("plat_setup_sz")
  BY DoneGrows
<1>2. build' = build /\ Code' = Code /\ Released(Code)' = Released(Code)
  BY DEF Call, Code, Released
<1> QED
  BY <1>1, <1>2 DEF Handed

(* The configuration is only written before the first of these calls. *)
LEMMA HandedLater ==
  ASSUME Given, Handed, NEW call, Call(call), UNCHANGED <<csr, running, sharezone>>,
         call \in {"zsbl_set_bc_rom", "storage_load_bc", "storage_load_fsbl"}
  PROVE  Handed'
<1>1. /\ "plat_setup_pg" \in Names /\ "plat_start_pc" \in Names /\ "plat_setup_sz" \in Names
      /\ "zsbl_set_bc_rom" \in Names /\ "storage_load_bc" \in Names
      /\ "storage_load_fsbl" \in Names
  BY DEF Names
<1>2. High(call) \in {1, 7, 9}
  BY <1>1, Ranks
<1>3. ~Done("plat_setup_pg") /\ ~Done("plat_start_pc") /\ ~Done("plat_setup_sz")
  BY <1>1, <1>2, Ranks, NotYet
<1>4. ~Done("plat_setup_pg")' /\ ~Done("plat_start_pc")' /\ ~Done("plat_setup_sz")'
  BY <1>3, DoneGrows
<1> QED
  BY <1>3, <1>4 DEF Handed

LEMMA HandedStep == IInv /\ Handed /\ [Next]_vars => Handed'
<1> SUFFICES ASSUME IInv, Handed, [Next]_vars
             PROVE  Handed'
  OBVIOUS
<1>0. Given
  BY DEF IInv
<1>1. CASE zsbl_set_bc_rom \/ storage_load_bc \/ storage_load_fsbl
  <2>1. /\ \E call \in {"zsbl_set_bc_rom", "storage_load_bc", "storage_load_fsbl"} : Call(call)
        /\ UNCHANGED <<csr, running, sharezone>>
    BY <1>1 DEF zsbl_set_bc_rom, storage_load_bc, storage_load_fsbl, Do
  <2> QED
    BY <1>0, <2>1, HandedLater
<1>2. CASE zsbl_run_bist \/ zsbl_init_console \/ storage_init \/ storage_probe
  <2>1. /\ \E call : /\ Call(call)
                     /\ call \notin {"plat_setup_pg", "plat_start_pc", "plat_setup_sz"}
        /\ UNCHANGED <<conf, csr, running, sharezone>>
    BY <1>2 DEF zsbl_run_bist, zsbl_init_console, storage_init, storage_probe, Bist, Do
  <2> QED
    BY <1>0, <2>1, HandedKept
<1>3. CASE zsbl_print_bc \/ fsbl_first_print \/ plat_clock_init
  <2>1. /\ \E call : /\ Call(call)
                     /\ call \notin {"plat_setup_pg", "plat_start_pc", "plat_setup_sz"}
        /\ UNCHANGED <<conf, csr, running, sharezone>>
    BY <1>3 DEF zsbl_print_bc, fsbl_first_print, plat_clock_init, Message, Do
  <2> QED
    BY <1>0, <2>1, HandedKept
<1>4. CASE fsbl_run_bist \/ storage_load_opensbi
  <2>1. /\ \E call : /\ Call(call)
                     /\ call \notin {"plat_setup_pg", "plat_start_pc", "plat_setup_sz"}
        /\ UNCHANGED <<conf, csr, running, sharezone>>
    BY <1>4 DEF fsbl_run_bist, storage_load_opensbi, Bist, gpt_load_part, Do
  <2> QED
    BY <1>0, <2>1, HandedKept
<1>5. CASE plat_setup_pg
  <2>1. /\ Call("plat_setup_pg") /\ conf' = conf /\ UNCHANGED <<running, sharezone>>
        /\ csr' = IF build.platform = "apple" THEN Code ELSE csr
    BY <1>5 DEF plat_setup_pg, Message
  <2>2. /\ Done("plat_start_pc")' <=> Done("plat_start_pc")
        /\ Done("plat_setup_sz")' <=> Done("plat_setup_sz")
    BY <1>0, <2>1, DoneGrows
  <2>3. build' = build /\ Code' = Code /\ Released(Code)' = Released(Code)
    BY <2>1 DEF Call, Code, Released
  <2> QED
    BY <2>1, <2>2, <2>3 DEF Handed
<1>6. CASE plat_start_pc
  <2>1. /\ Call("plat_start_pc") /\ conf' = conf /\ UNCHANGED <<csr, sharezone>>
        /\ running' = IF build.platform = "apple" THEN Released(Code) ELSE running
    BY <1>6 DEF plat_start_pc, Message, Released
  <2>2. /\ Done("plat_setup_pg")' <=> Done("plat_setup_pg")
        /\ Done("plat_setup_sz")' <=> Done("plat_setup_sz")
    BY <1>0, <2>1, DoneGrows
  <2>3. build' = build /\ Code' = Code /\ Released(Code)' = Released(Code)
    BY <2>1 DEF Call, Code, Released
  <2> QED
    BY <2>1, <2>2, <2>3 DEF Handed
<1>7. CASE plat_setup_sz
  <2>1. /\ Call("plat_setup_sz") /\ conf' = conf /\ UNCHANGED <<csr, running>>
        /\ sharezone' = IF build.platform \in {"apple", "grape"}
                          THEN [cnt |-> conf.socket_cnt,
                                code |-> [sharezone.code EXCEPT ![conf.socket_id] = Code]]
                          ELSE sharezone
    BY <1>7 DEF plat_setup_sz, Message
  <2>2. /\ Done("plat_setup_pg")' <=> Done("plat_setup_pg")
        /\ Done("plat_start_pc")' <=> Done("plat_start_pc")
        /\ Done("plat_setup_sz")'
    BY <1>0, <2>1, DoneGrows
  <2>3. build' = build /\ Code' = Code /\ Released(Code)' = Released(Code)
    BY <2>1 DEF Call, Code, Released
  <2>4. conf.socket_id \in {0, 1}
    <3>1. pc > 0
      BY <1>0, <2>1, LaterCall
    <3> QED
      BY <1>0, <3>1 DEF IInv, Fixed, Erased, Given
  <2>5. DOMAIN sharezone'.code = {0, 1}
    BY <2>1 DEF Handed
  <2>6. build.platform = "apple" =>
          sharezone'.cnt = conf.socket_cnt /\ sharezone'.code[conf.socket_id] = Code
    BY <2>1, <2>4 DEF Handed
  <2> QED
    BY <2>1, <2>2, <2>3, <2>5, <2>6 DEF Handed
<1>8. CASE UNCHANGED vars
  <2>1. UNCHANGED <<conf, csr, running, sharezone, build>>
    BY <1>8 DEF vars
  <2>2. Code' = Code /\ Released(Code)' = Released(Code)
    BY <2>1 DEF Code, Released
  <2> QED
    BY <1>8, <2>1, <2>2, DoneStays DEF Handed
<1> QED
  BY <1>1, <1>2, <1>3, <1>4, <1>5, <1>6, <1>7, <1>8 DEF Next

(* OpenSBI is told of the harts that run, for every code: when a socket has *)
(* filled its slot, plat_setup_pg and plat_start_pc have used the code that *)
(* is there, and the table of plat_start_pc starts the PCs that the byte    *)
(* calls good, and for a byte it does not know none.                        *)
THEOREM HandOffTrue == Spec => []HandOffAgrees
<1>1. IInv /\ Handed => HandOffAgrees
  <2> SUFFICES ASSUME IInv, Handed, build.platform = "apple", ~build.pcActsAsMc,
                      sharezone.cnt # 0
               PROVE  /\ sharezone.cnt = socket.cnt
                      /\ csr = sharezone.code[socket.id]
                      /\ \A k \in Cluster :
                           LET byte == sharezone.code[socket.id][k]
                               known == \E n \in DOMAIN pg_code_lut : pg_code_lut[n] = byte
                           IN  {c \in CoreOf : <<k, c>> \in running} =
                                 IF known THEN Good(byte) ELSE {}
    BY DEF HandOffAgrees
  <2>1. Given /\ Done("plat_setup_sz")
    BY DEF IInv, Handed
  <2>2. Done("plat_setup_pg") /\ Done("plat_start_pc")
    <3>1. /\ "plat_setup_pg" \in Names /\ "plat_start_pc" \in Names
          /\ Has(Program, "plat_setup_pg") /\ Has(Program, "plat_start_pc")
      BY Present DEF Names
    <3> QED
      BY <2>1, <3>1, Ranks, DoneEarlier
  <2>3. Fixed(conf)
    <3>1. pc # 0
      BY <2>1, NothingDone
    <3>2. conf.socket_cnt # 0
      BY <2>1 DEF Handed
    <3> QED
      BY <2>1, <3>1, <3>2 DEF IInv, Given, Erased
  <2>4. /\ csr = Code /\ running = Released(Code)
        /\ sharezone.cnt = socket.cnt /\ sharezone.code[socket.id] = Code
    BY <2>1, <2>2, <2>3 DEF Handed, Fixed
  <2>5. ASSUME NEW k \in Cluster
        PROVE  {c \in CoreOf : <<k, c>> \in running} = CoreOf \ ResetRegister(Code[k])
    BY <2>4 DEF Released
  <2> QED
    BY <2>4, <2>5, StartedAreGood
<1> QED
  BY <1>1, HandedStart, HandedStep, Inductive, PTL DEF Spec

------------------------------------------------------------------------------
(* What the builds and the flash have to keep to.  An off-chip ZSBL sets up *)
(* the devices after the clock (its default configuration says so), and the *)
(* configurations of the repository have the divisor of the PLL clock.      *)
ClockFits == \A b \in Builds : b.clockInZsbl => ~b.zsblOnchip

PllDivisor == \A c \in FlashConf : c.div = "pll"

(* The configuration of the ROM, fixed up. *)
Rom(c) ==
  /\ c.flash_online = TRUE
  /\ c.div0 = IF build.zsblOnchip THEN "ext" ELSE "pll"
  /\ ~SelfTest(c) \/ "BIST_ZSBL" \in c.work_mode

(* An erased configuration sets both devices to no divisor at all, and      *)
(* selects nothing that would use them.                                     *)
Clocked ==
  /\ clock = IF Done("plat_clock_init") THEN "pll" ELSE "ext"
  /\ pc > 0 => conf.div = "pll" \/ conf = Erased
  /\ pc > 0 /\ ~Done("storage_load_bc") => Rom(conf)
  /\ Done("storage_init") /\ conf # Erased =>
       ssi # "unset" /\ (clock = "pll" => ssi # "ext")
  /\ FlashClocked

LEMMA RomFixed ==
  ASSUME Given
  PROVE  Rom(plat_bc_fix(bootconf0)) /\ plat_bc_fix(bootconf0).div = "pll"
<1>1. build.platform \in {"apple", "grape", "banana"}
  BY ConfAssumption DEF ConfAssumption, Given, Build
<1>2. CASE build.platform = "apple"
  BY <1>2 DEF plat_bc_fix, plat_bc_fix_apple, FixMode_apple, FromMemory, bootconf0, Rom, SelfTest
<1>3. CASE build.platform = "grape"
  BY <1>3 DEF plat_bc_fix, plat_bc_fix_grape, FromMemory, bootconf0, Rom, SelfTest
<1>4. CASE build.platform = "banana"
  BY <1>4 DEF plat_bc_fix, plat_bc_fix_banana, bootconf0, Rom, SelfTest
<1> QED
  BY <1>1, <1>2, <1>3, <1>4

(* The pins change neither divisor, and turn the self test on in both      *)
(* stages only together with the flags that keep it out.                    *)
LEMMA FixKeeps ==
  ASSUME Given, NEW c \in Conf
  PROVE  /\ plat_bc_fix(c).div = c.div
         /\ plat_bc_fix(c).work_mode
              \in {c.work_mode, {"DEBUG"}, {"BIST", "BIST_ZSBL", "BIST_FSBL"}}
<1>1. build.platform \in {"apple", "grape", "banana"}
  BY ConfAssumption DEF ConfAssumption, Given, Build
<1>2. CASE build.platform = "apple"
  BY <1>2 DEF plat_bc_fix, plat_bc_fix_apple, FixMode_apple, FromMemory, Conf
<1>3. CASE build.platform = "grape"
  BY <1>3 DEF plat_bc_fix, plat_bc_fix_grape, FromMemory, Conf
<1>4. CASE build.platform = "banana"
  BY <1>4 DEF plat_bc_fix, plat_bc_fix_banana, Conf
<1> QED
  BY <1>1, <1>2, <1>3, <1>4

LEMMA ClockedStart == Init => Clocked
<1> SUFFICES ASSUME Init
             PROVE  Clocked
  OBVIOUS
<1>1. \A name : ~Done(name)
  BY NothingDone DEF Init
<1> QED
  BY <1>1 DEF Init, Clocked, FlashClocked

(* A call of ZSBL or FSBL that sets up no device; it may read the flash     *)
(* once the controller is set up.                                           *)
LEMMA ClockedKept ==
  ASSUME Given, Clocked, NEW call, Call(call), call # "zsbl_set_bc_rom",
         UNCHANGED <<conf, clock, ssi>>, call \notin {"storage_init", "plat_clock_init"},
         \/ flashReads' = flashReads
         \/ /\ Done("storage_init") /\ conf # Erased
            /\ flashReads' = flashReads \cup Reads
  PROVE  Clocked'
<1>1. /\ Done("plat_clock_init")' <=> Done("plat_clock_init")
      /\ Done("storage_init")' <=> Done("storage_init")
      /\ Done("storage_load_bc") => Done("storage_load_bc")'
  BY DoneGrows
<1>2. pc > 0
  BY LaterCall
<1>3. build' = build
  BY DEF Call
<1>4. FlashClocked'
  BY DEF Clocked, FlashClocked, Reads
<1>5. (conf = Erased)' <=> conf = Erased
  BY DEF Erased, NoCode
<1>6. Rom(conf)' <=> Rom(conf)
  BY <1>3 DEF Rom, SelfTest
<1> QED
  BY <1>1, <1>2, <1>4, <1>5, <1>6 DEF Clocked

(* The controller is set up before anything is read. *)
LEMMA SsiReady ==
  ASSUME Given, NEW call, Call(call),
         call \in {"storage_probe", "storage_load_bc", "storage_load_fsbl", "fsbl_run_bist",
                   "storage_load_opensbi"}
  PROVE  Done("storage_init")
<1>1. "storage_init" \in Names /\ call # "storage_init"
  BY DEF Names
<1>2. High("storage_init") = 5 /\ Low(call) \in {6, 7, 9, 15, 17}
  BY <1>1, Ranks
<1> QED
  BY <1>1, <1>2, Present, DoneBefore

(* Before storage_load_bc the configuration is the fixed one of the ROM.    *)
LEMMA RomInUse ==
  ASSUME Given, Clocked, NEW call, Call(call),
         call \in {"zsbl_run_bist", "zsbl_init_console", "storage_init", "storage_load_bc"}
  PROVE  Rom(conf)
<1>1. call \in Names /\ "storage_load_bc" \in Names
  BY DEF Names
<1>2. High(call) \in {2, 4, 5, 7} /\ Low("storage_load_bc") = 7
  BY <1>1, Ranks
<1>3. ~Done("storage_load_bc")
  BY <1>1, <1>2, NotYet
<1>4. pc > 0
  BY LaterCall
<1> QED
  BY <1>3, <1>4 DEF Clocked

(* A ZSBL that initialises its devices on the PLL clock has switched it.    *)
LEMMA ClockAtInit ==
  ASSUME Given, Clocked, NEW call, Call(call), call \in {"zsbl_init_console", "storage_init"}
  PROVE  clock = IF build.clockInZsbl THEN "pll" ELSE "ext"
<1>1. "plat_clock_init" \in Names /\ call \in Names /\ call # "plat_clock_init"
  BY DEF Names
<1>2. Low(call) \in {4, 5} /\ High(call) \in {4, 5}
  BY <1>1, Ranks
<1>3. CASE build.clockInZsbl
  <2>1. High("plat_clock_init") = 3
    BY <1>1, <1>3, Ranks
  <2>2. Done("plat_clock_init")
    BY <1>1, <1>2, <1>3, <2>1, Present, DoneBefore
  <2> QED
    BY <1>3, <2>2 DEF Clocked
<1>4. CASE ~build.clockInZsbl
  <2>1. Low("plat_clock_init") = 11
    BY <1>4, Ranks
  <2>2. ~Done("plat_clock_init")
    BY <1>1, <1>2, <2>1, NotYet
  <2> QED
    BY <1>4, <2>2 DEF Clocked
<1> QED
  BY <1>3, <1>4

(* Erased is a constant, and not what the ROM holds. *)
LEMMA Blank ==
  /\ Erased' = Erased /\ ~Rom(Erased)
  /\ ~SelfTest(Erased) /\ Erased.storage_fsbl = "NONE" /\ Erased.storage_opensbi = "NONE"
  /\ Erased.flash_online = FALSE /\ Erased.console = FALSE
<1>1. Erased' = Erased
  BY DEF Erased, NoCode
<1>2. /\ Erased.work_mode = {} /\ Erased.storage_fsbl = "NONE"
      /\ Erased.storage_opensbi = "NONE"
      /\ Erased.flash_online = FALSE /\ Erased.console = FALSE
  BY DEF Erased
<1>3. ~SelfTest(Erased)
  BY <1>2 DEF SelfTest
<1> QED
  BY <1>1, <1>2, <1>3 DEF Rom

LEMMA ClockedStep ==
  ASSUME ClockFits, PllDivisor
  PROVE  IInv /\ Clocked /\ [Next]_vars => Clocked'
<1> SUFFICES ASSUME IInv, Clocked, [Next]_vars
             PROVE  Clocked'
  OBVIOUS
<1>0. Given
  BY DEF IInv
<1>1. CASE zsbl_set_bc_rom
  <2>1. /\ Call("zsbl_set_bc_rom") /\ conf' = plat_bc_fix(bootconf0)
        /\ UNCHANGED <<clock, ssi, flashReads>>
    BY <1>1 DEF zsbl_set_bc_rom, Do
  <2>2. Done("plat_clock_init")' <=> Done("plat_clock_init")
    BY <1>0, <2>1, DoneGrows
  <2>3. ~Done("storage_init")'
    <3>1. /\ "storage_init" \in Names /\ "zsbl_set_bc_rom" \in Names
          /\ "storage_init" # "zsbl_set_bc_rom"
      BY DEF Names
    <3>2. ~Done("storage_init")
      BY <1>0, <2>1, <3>1, Ranks, NotYet
    <3> QED
      BY <1>0, <2>1, <3>1, <3>2, DoneGrows
  <2>4. Rom(conf)' /\ conf'.div = "pll"
    BY <1>0, <2>1, RomFixed DEF Rom, Call
  <2> QED
    BY <2>1, <2>2, <2>3, <2>4 DEF Clocked, FlashClocked
<1>2. CASE zsbl_run_bist
  <2>1. Call("zsbl_run_bist")
    BY <1>2 DEF zsbl_run_bist, Do
  <2>2. ~SelfTest(conf) \/ "BIST_ZSBL" \in conf.work_mode
    BY <1>0, <2>1, RomInUse DEF Rom
  <2>3. UNCHANGED <<conf, clock, ssi, flashReads>>
    BY <1>2, <2>2 DEF zsbl_run_bist
  <2> QED
    BY <1>0, <2>1, <2>3, ClockedKept
<1>3. CASE storage_init
  <2>1. /\ Call("storage_init") /\ UNCHANGED <<conf, clock, flashReads>>
        /\ ssi' = IF conf.flash_online THEN conf.div0 ELSE ssi
    BY <1>3 DEF storage_init, Do
  <2>2. Rom(conf) /\ pc > 0
    BY <1>0, <2>1, RomInUse, LaterCall
  <2>3. clock = IF build.clockInZsbl THEN "pll" ELSE "ext"
    BY <1>0, <2>1, ClockAtInit
  <2>4. ssi' # "unset" /\ (clock' = "pll" => ssi' # "ext")
    BY <1>0, <2>1, <2>2, <2>3 DEF Rom, ClockFits, Given
  <2>5. /\ Done("plat_clock_init")' <=> Done("plat_clock_init")
        /\ Done("storage_load_bc") => Done("storage_load_bc")'
    BY <1>0, <2>1, DoneGrows
  <2>6. build' = build
    BY <2>1 DEF Call
  <2> QED
    BY <2>1, <2>2, <2>4, <2>5, <2>6, Blank DEF Clocked, Rom, SelfTest, FlashClocked
<1>4. CASE storage_load_bc
  <2>1. /\ Call("storage_load_bc") /\ UNCHANGED <<clock, ssi>>
        /\ flashReads' = flashReads \/ flashReads' = flashReads \cup Reads
        /\ conf' = conf \/ \E c \in FlashConf : conf' = plat_bc_fix(c)
    BY <1>4 DEF storage_load_bc, Do
  <2>2. Done("storage_init") /\ pc > 0 /\ Rom(conf)
    BY <1>0, <2>1, RomInUse, SsiReady, LaterCall
  <2>3. conf # Erased /\ conf'.div = "pll"
    <3>1. conf # Erased /\ conf.div = "pll"
      BY <2>2, Blank DEF Clocked
    <3>2. CASE conf' = conf
      BY <3>1, <3>2
    <3>3. CASE \E c \in FlashConf : conf' = plat_bc_fix(c)
      BY <1>0, <3>1, <3>3, FixKeeps, ConfAssumption DEF ConfAssumption, PllDivisor
    <3> QED
      BY <2>1, <3>1, <3>2, <3>3
  <2>4. /\ Done("plat_clock_init")' <=> Done("plat_clock_init")
        /\ Done("storage_init")' <=> Done("storage_init")
        /\ Done("storage_load_bc")'
    BY <1>0, <2>1, DoneGrows
  <2>5. FlashClocked'
    BY <2>1, <2>2, <2>3 DEF Clocked, FlashClocked, Reads
  <2> QED
    BY <2>1, <2>2, <2>3, <2>4, <2>5 DEF Clocked
<1>5. CASE plat_clock_init
  <2>1. /\ Call("plat_clock_init") /\ clock' = "pll" /\ ssi' = conf.div
        /\ UNCHANGED <<conf, flashReads>>
    BY <1>5 DEF plat_clock_init, Do
  <2>2. pc > 0
    BY <1>0, <2>1, LaterCall
  <2>3. Done("plat_clock_init")' /\ (Done("storage_load_bc") => Done("storage_load_bc")')
    BY <1>0, <2>1, DoneGrows
  <2>4. Rom(conf)' <=> Rom(conf)
    BY <2>1 DEF Call, Rom, SelfTest
  <2> QED
    BY <2>1, <2>2, <2>3, <2>4, Blank DEF Clocked, FlashClocked
<1>6. CASE zsbl_init_console \/ zsbl_print_bc \/ fsbl_first_print
  <2>1. /\ \E call : /\ Call(call)
                     /\ call \notin {"zsbl_set_bc_rom", "storage_init", "plat_clock_init"}
        /\ UNCHANGED <<conf, clock, ssi, flashReads>>
    BY <1>6 DEF zsbl_init_console, zsbl_print_bc, fsbl_first_print, Message, Do
  <2> QED
    BY <1>0, <2>1, ClockedKept
<1>7. CASE plat_setup_pg \/ plat_start_pc \/ plat_setup_sz
  <2>1. /\ \E call : /\ Call(call)
                     /\ call \notin {"zsbl_set_bc_rom", "storage_init", "plat_clock_init"}
        /\ UNCHANGED <<conf, clock, ssi, flashReads>>
    BY <1>7 DEF plat_setup_pg, plat_start_pc, plat_setup_sz, Message
  <2> QED
    BY <1>0, <2>1, ClockedKept
<1>8. CASE storage_probe \/ storage_load_opensbi \/ fsbl_run_bist
  <2>1. PICK call \in {"storage_probe", "storage_load_opensbi", "fsbl_run_bist"} : Call(call)
    BY <1>8 DEF storage_probe, storage_load_opensbi, fsbl_run_bist, Do
  <2>2. Done("storage_init")
    BY <1>0, <2>1, SsiReady
  <2>3. UNCHANGED <<conf, clock, ssi>>
    BY <1>8 DEF storage_probe, storage_load_opensbi, fsbl_run_bist, gpt_load_part, Bist
  <2>4. \/ flashReads' = flashReads
        \/ conf # Erased /\ flashReads' = flashReads \cup Reads
    BY <1>8, Blank DEF storage_probe, storage_load_opensbi, fsbl_run_bist,
                       gpt_load_part, Bist
  <2> QED
    BY <1>0, <2>1, <2>2, <2>3, <2>4, ClockedKept
<1>9. CASE storage_load_fsbl
  <2>1. /\ Call("storage_load_fsbl") /\ UNCHANGED <<clock, ssi>>
        /\ conf' = conf \/ conf' = Erased
        /\ \/ flashReads' = flashReads
           \/ conf.storage_fsbl = "FLASH" /\ flashReads' = flashReads \cup Reads
    BY <1>9 DEF storage_load_fsbl, gpt_load_part, Do
  <2>2. \/ flashReads' = flashReads
        \/ conf # Erased /\ flashReads' = flashReads \cup Reads
    BY <2>1, Blank
  <2>3. Done("storage_init") /\ pc > 0
    BY <1>0, <2>1, SsiReady, LaterCall
  <2>4. CASE conf' = conf
    BY <1>0, <2>1, <2>2, <2>3, <2>4, ClockedKept
  <2>5. CASE conf' = Erased
    <3>1. Done("storage_load_bc")
      <4>1. "storage_load_bc" \in Names /\ "storage_load_bc" # "storage_load_fsbl"
        BY DEF Names
      <4> QED
        BY <1>0, <2>1, <4>1, Present, Ranks, DoneBefore
    <3>2. /\ Done("plat_clock_init")' <=> Done("plat_clock_init")
          /\ Done("storage_load_bc")'
      BY <1>0, <2>1, <3>1, DoneGrows
    <3>3. FlashClocked'
      BY <2>1, <2>2, <2>3 DEF Clocked, FlashClocked, Reads
    <3> QED
      BY <2>1, <2>5, <3>2, <3>3, Blank DEF Clocked
  <2> QED
    BY <2>1, <2>4, <2>5
<1>10. CASE UNCHANGED vars
  <2>1. UNCHANGED <<build, pc, conf, clock, ssi, flashReads>>
    BY <1>10 DEF vars
  <2>2. Rom(conf)' <=> Rom(conf)
    BY <2>1 DEF Rom, SelfTest
  <2> QED
    BY <1>10, <2>1, <2>2, DoneStays, Blank DEF Clocked, FlashClocked
<1> QED
  BY <1>1, <1>2, <1>3, <1>4, <1>5, <1>6, <1>7, <1>8, <1>9, <1>10 DEF Next

(* In every build the flash is only read through a controller that was set  *)
(* up, and never with the divisor of the external clock after the switch to *)
(* the PLL: wherever the build puts the switch, storage_init comes before   *)
(* the first read, and plat_clock_init programs the divisor again.          *)
THEOREM FlashSafe ==
  ASSUME ClockFits, PllDivisor
  PROVE  Spec => []FlashClocked
<1>1. Clocked => FlashClocked
  BY DEF Clocked
<1> QED
  BY <1>1, ClockedStart, ClockedStep, Inductive, PTL DEF Spec

------------------------------------------------------------------------------
(* For the console a build has to fit the clock in both directions, and     *)
(* only plat-grape may switch it in ZSBL: the others print before their     *)
(* UART is set up.  The self test of FSBL, which sets the UART back to the  *)
(* divisor of the external clock, is off.                                   *)
ConsoleFits ==
  \A b \in Builds : /\ b.clockInZsbl <=> ~b.zsblOnchip
                    /\ b.clockInZsbl => b.platform = "grape"

Untested(c) == ~SelfTest(c) \/ "BIST_FSBL" \in c.work_mode

NoSelfTest == \A c \in FlashConf : Untested(c)

Heard ==
  /\ Done("zsbl_init_console") => uart = clock \/ conf = Erased
  /\ pc > 0 => Untested(conf)
  /\ ConsoleReadable

LEMMA HeardStart == Init => Heard
<1> SUFFICES ASSUME Init
             PROVE  Heard
  OBVIOUS
<1>1. ~Done("zsbl_init_console")
  BY NothingDone DEF Init
<1> QED
  BY <1>1 DEF Init, Heard, ConsoleReadable

LEMMA FixQuiet ==
  ASSUME Given, NEW c \in Conf, Untested(c)
  PROVE  Untested(plat_bc_fix(c))
<1>1. plat_bc_fix(c).work_mode
        \in {c.work_mode, {"DEBUG"}, {"BIST", "BIST_ZSBL", "BIST_FSBL"}}
  BY FixKeeps
<1>2. "DEBUG" # "BIST" /\ "BIST_FSBL" \in {"BIST", "BIST_ZSBL", "BIST_FSBL"}
  OBVIOUS
<1> QED
  BY <1>1, <1>2 DEF Untested, SelfTest

LEMMA RomQuiet == ASSUME Given PROVE Untested(bootconf0) /\ bootconf0 \in Conf
<1>1. bootconf0 \in Conf
  BY RomConf
<1>2. bootconf0.work_mode = {}
  BY DEF bootconf0
<1> QED
  BY <1>1, <1>2 DEF Untested, SelfTest

(* The UART is set up before the first message. *)
LEMMA UartReady ==
  ASSUME Given, Heard, NEW call, Call(call),
         call \in {"storage_load_bc", "zsbl_print_bc", "storage_load_fsbl", "fsbl_first_print",
                   "plat_setup_pg", "plat_start_pc", "fsbl_run_bist", "plat_setup_sz",
                   "storage_load_opensbi"}
  PROVE  uart = clock \/ conf = Erased
<1>1. "zsbl_init_console" \in Names /\ call # "zsbl_init_console"
  BY DEF Names
<1>2. High("zsbl_init_console") = 4 /\ Low(call) \in {7, 8, 9, 10, 13, 14, 15, 16, 17}
  BY <1>1, Ranks
<1>3. Done("zsbl_init_console")
  BY <1>1, <1>2, Present, DoneBefore
<1> QED
  BY <1>3 DEF Heard

(* What leaves a UART that is set up can be read; an erased configuration   *)
(* turns the console off.                                                   *)
LEMMA Readable ==
  ASSUME NEW d, NEW k, d = k \/ conf = Erased
  PROVE  /\ \A byte \in Prints(d, k) : byte[1] = byte[2]
         /\ \A byte \in Bytes(d, k) : byte[1] = byte[2]
  BY Blank DEF Prints, Bytes

LEMMA HeardKept ==
  ASSUME Given, Heard, NEW call, Call(call), UNCHANGED <<clock, uart>>, Untested(conf)',
         call # "zsbl_init_console",
         ~Done("zsbl_init_console") \/ conf # Erased \/ conf' = Erased,
         sent' = sent \/ ((uart = clock \/ conf = Erased)
                            /\ (sent' = sent \cup Prints(uart, clock)
                                  \/ sent' = sent \cup {}))
  PROVE  Heard'
<1>1. Done("zsbl_init_console")' <=> Done("zsbl_init_console")
  BY DoneGrows
<1>2. ConsoleReadable'
  BY Readable DEF Heard, ConsoleReadable
<1>3. Done("zsbl_init_console")' => (uart = clock \/ conf = Erased)'
  BY <1>1, Blank DEF Heard
<1> QED
  BY <1>1, <1>2, <1>3 DEF Heard

LEMMA HeardStep ==
  ASSUME ConsoleFits, NoSelfTest
  PROVE  IInv /\ Clocked /\ Heard /\ [Next]_vars => Heard'
<1> SUFFICES ASSUME IInv, Clocked, Heard, [Next]_vars
             PROVE  Heard'
  OBVIOUS
<1>0. Given
  BY DEF IInv
<1>1. CASE zsbl_set_bc_rom
  <2>1. /\ Call("zsbl_set_bc_rom") /\ conf' = plat_bc_fix(bootconf0)
        /\ UNCHANGED <<clock, uart>> /\ sent' = sent
    BY <1>1 DEF zsbl_set_bc_rom, Do
  <2>2. Untested(conf)'
    BY <1>0, <2>1, RomQuiet, FixQuiet DEF Untested, SelfTest
  <2>3. ~Done("zsbl_init_console")
    <3>1. "zsbl_init_console" \in Names /\ "zsbl_set_bc_rom" \in Names
      BY DEF Names
    <3> QED
      BY <1>0, <2>1, <3>1, Ranks, NotYet
  <2> QED
    BY <1>0, <2>1, <2>2, <2>3, HeardKept
<1>2. CASE zsbl_run_bist
  <2>1. Call("zsbl_run_bist")
    BY <1>2 DEF zsbl_run_bist, Do
  <2>2. ~SelfTest(conf) \/ "BIST_ZSBL" \in conf.work_mode
    BY <1>0, <2>1, RomInUse DEF Rom
  <2>3. UNCHANGED <<conf, clock, uart, sent>> /\ pc > 0
    BY <1>0, <1>2, <2>1, <2>2, LaterCall DEF zsbl_run_bist
  <2> QED
    BY <1>0, <2>1, <2>3, HeardKept DEF Heard, Untested, SelfTest
<1>3. CASE zsbl_init_console
  <2>1. /\ Call("zsbl_init_console") /\ uart' = conf.div0 /\ clock' = clock /\ conf' = conf
        /\ sent' = sent \cup Prints(conf.div0, clock)
    BY <1>3 DEF zsbl_init_console, Do
  <2>2. conf.div0 = clock
    <3>1. Rom(conf) /\ clock = IF build.clockInZsbl THEN "pll" ELSE "ext"
      BY <1>0, <2>1, RomInUse, ClockAtInit
    <3> QED
      BY <1>0, <3>1 DEF Rom, ConsoleFits, Given
  <2>3. pc > 0
    BY <1>0, <2>1, LaterCall
  <2>4. ConsoleReadable'
    BY <2>1, <2>2, Readable DEF Heard, ConsoleReadable
  <2> QED
    BY <2>1, <2>2, <2>3, <2>4 DEF Heard, Untested, SelfTest
<1>4. CASE plat_clock_init
  <2>1. /\ Call("plat_clock_init") /\ clock' = "pll" /\ uart' = conf.div /\ conf' = conf
        /\ sent' = sent \cup FirstMessage \cup Prints(conf.div, "pll")
    BY <1>4 DEF plat_clock_init, Do
  <2>2. (conf.div = "pll" \/ conf = Erased) /\ pc > 0
    BY <1>0, <2>1, LaterCall DEF Clocked
  <2>3. \A byte \in FirstMessage : byte[1] = byte[2]
    <3>1. CASE build.clockInZsbl
      BY <1>0, <3>1 DEF FirstMessage, ConsoleFits, Given
    <3>2. CASE ~build.clockInZsbl
      <4>1. /\ "zsbl_init_console" \in Names /\ "zsbl_init_console" # "plat_clock_init"
            /\ High("zsbl_init_console") = 4 /\ Low("plat_clock_init") = 11
        BY <3>2, Ranks DEF Names
      <4>2. Done("zsbl_init_console")
        BY <1>0, <2>1, <4>1, Present, DoneBefore
      <4> QED
        BY <3>2, <4>2, Readable DEF FirstMessage, Heard
    <3> QED
      BY <3>1, <3>2
  <2>4. ConsoleReadable'
    BY <2>1, <2>2, <2>3, Readable DEF Heard, ConsoleReadable
  <2>5. Untested(conf)' /\ (uart = clock \/ conf = Erased)'
    BY <2>1, <2>2, Blank DEF Heard, Untested, SelfTest
  <2> QED
    BY <2>4, <2>5 DEF Heard
<1>5. CASE storage_init \/ storage_probe
  <2>1. /\ \E call : Call(call) /\ call \notin {"zsbl_init_console", "zsbl_set_bc_rom"}
        /\ UNCHANGED <<conf, clock, uart>> /\ sent' = sent
    BY <1>5 DEF storage_init, storage_probe, Do
  <2>2. Untested(conf)'
    BY <1>0, <2>1, LaterCall DEF Heard, Untested, SelfTest
  <2> QED
    BY <1>0, <2>1, <2>2, HeardKept, Blank
<1>6. CASE storage_load_bc
  <2>1. /\ Call("storage_load_bc") /\ UNCHANGED <<clock, uart>> /\ sent' = sent
        /\ conf' = conf \/ \E c \in FlashConf : conf' = plat_bc_fix(c)
    BY <1>6 DEF storage_load_bc, Do
  <2>2. Untested(conf)'
    <3>1. CASE conf' = conf
      BY <1>0, <2>1, <3>1, LaterCall DEF Heard, Untested, SelfTest
    <3>2. CASE \E c \in FlashConf : conf' = plat_bc_fix(c)
      <4>1. PICK c \in FlashConf : conf' = plat_bc_fix(c)
        BY <3>2
      <4>2. Untested(plat_bc_fix(c))
        BY <1>0, FixQuiet, ConfAssumption DEF ConfAssumption, NoSelfTest
      <4> QED
        BY <4>1, <4>2 DEF Untested, SelfTest
    <3> QED
      BY <2>1, <3>1, <3>2
  <2>3. conf # Erased
    BY <1>0, <2>1, RomInUse, Blank
  <2> QED
    BY <1>0, <2>1, <2>2, <2>3, HeardKept
<1>7. CASE fsbl_run_bist
  <2>1. Call("fsbl_run_bist") /\ pc > 0
    BY <1>0, <1>7, LaterCall DEF fsbl_run_bist, Do
  <2>2. UNCHANGED <<conf, clock, uart, sent>>
    BY <1>7, <2>1 DEF fsbl_run_bist, Heard, Untested
  <2> QED
    BY <1>0, <2>1, <2>2, HeardKept, Blank DEF Heard, Untested, SelfTest
<1>8. CASE zsbl_print_bc \/ fsbl_first_print \/ plat_setup_pg \/ plat_start_pc \/ plat_setup_sz
  <2>1. PICK call \in {"zsbl_print_bc", "fsbl_first_print", "plat_setup_pg", "plat_start_pc",
                       "plat_setup_sz"} : Call(call)
    BY <1>8 DEF zsbl_print_bc, fsbl_first_print, plat_setup_pg, plat_start_pc, plat_setup_sz, Do
  <2>2. /\ UNCHANGED <<conf, clock, uart>>
        /\ sent' = sent \/ sent' = sent \cup Prints(uart, clock)
    BY <1>8 DEF zsbl_print_bc, fsbl_first_print, plat_setup_pg, plat_start_pc, plat_setup_sz,
                Message
  <2>3. (uart = clock \/ conf = Erased) /\ pc > 0
    BY <1>0, <2>1, UartReady, LaterCall
  <2>4. Untested(conf)'
    BY <2>2, <2>3 DEF Heard, Untested, SelfTest
  <2> QED
    BY <1>0, <2>1, <2>2, <2>3, <2>4, HeardKept, Blank
<1>9. CASE storage_load_fsbl \/ storage_load_opensbi
  <2>1. PICK call \in {"storage_load_fsbl", "storage_load_opensbi"} : Call(call)
    BY <1>9 DEF storage_load_fsbl, storage_load_opensbi, Do
  <2>2. /\ UNCHANGED <<clock, uart>>
        /\ conf' = conf \/ conf' = Erased
        /\ \/ sent' = sent \/ sent' = sent \cup Prints(uart, clock)
           \/ sent' = sent \cup {}
    BY <1>9 DEF storage_load_fsbl, storage_load_opensbi, gpt_load_part
  <2>3. (uart = clock \/ conf = Erased) /\ pc > 0
    BY <1>0, <2>1, UartReady, LaterCall
  <2>4. Untested(conf)'
    BY <2>2, <2>3, Blank DEF Heard, Untested, SelfTest
  <2> QED
    BY <1>0, <2>1, <2>2, <2>3, <2>4, HeardKept
<1>10. CASE UNCHANGED vars
  <2>1. UNCHANGED <<pc, conf, clock, uart, sent>>
    BY <1>10 DEF vars
  <2> QED
    BY <1>10, <2>1, DoneStays, Blank DEF Heard, Untested, SelfTest, ConsoleReadable
<1> QED
  BY <1>1, <1>2, <1>3, <1>4, <1>5, <1>6, <1>7, <1>8, <1>9, <1>10 DEF Next

(* Whatever a boot prints can be read, in every build of which ConsoleFits  *)
(* speaks: before the switch of the clock, by the message of the switch     *)
(* itself and after it.                                                     *)
THEOREM ConsoleHeard ==
  ASSUME ConsoleFits, PllDivisor, NoSelfTest
  PROVE  Spec => []ConsoleReadable
<1>1. ClockFits
  BY DEF ConsoleFits, ClockFits
<1>2. Heard => ConsoleReadable
  BY DEF Heard
<1>3. IInv /\ Clocked /\ [Next]_vars => Clocked'
  BY <1>1, ClockedStep
<1> QED
  BY <1>2, <1>3, ClockedStart, HeardStart, HeardStep, Inductive, PTL DEF Spec

==============================================================================
