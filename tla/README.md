# riscv-openboot in TLA+

This directory is a verification development for riscv-openboot, the two-stage
boot loader (ZSBL in on-chip ROM, FSBL in on-chip RAM) that brings every hart of
a RISC-V SoC from reset to OpenSBI. Paths below are relative to `src/`, the
repository.

| module | what it is |
|---|---|
| `BootPromise.tla` | what the two loaders promise together: images before jumps, written once |
| `HartBoot.tla` | every core from reset to OpenSBI, the polled words, the three FSBL sections |
| `HartBootProofs.tla` | theorems about `HartBoot`, for any number of sockets and cores |
| `MCHartBoot.tla` | machines of one and two sockets for TLC |
| `Gpt.tla` | the disk image that `mkimg.sh` makes, and how `gpt_load_part` finds a file in it |
| `GptProofs.tla` | theorems about that layout, for every medium |
| `PartialGood.tla` | the partial-good codes of plat-apple, from code to reset register |
| `PartialGoodProofs.tla` | theorems about the table, for every byte |
| `BootConf.tla` | the preparing core call by call: boot configuration, clock, divisors, loads, share-zone; uses `Gpt` and `PartialGood` |
| `BootConfProofs.tla` | theorems about `BootConf`: what the configuration in use is, for every one in the flash |
| `BootFilesProofs.tla` | theorems about `BootConf`: types, and what is loaded, for every medium |
| `BootOrderProofs.tla` | theorems about `BootConf` that need the order of the calls: clock, divisors, good PCs |
| `MCBootConf.tla` | the builds, the media, and the configurations that a user can put into the flash |
| `SsiFlash.tla` | the flash read operations of three platforms over the SSI controller |
| `SsiFlashProofs.tla` | theorems about `SsiFlash`, for every FIFO depth, step and size |
| `I2cPromise.tla` | what a caller of an I2C master may rely on, without FIFOs and flags |
| `DwI2c.tla` | the I2C driver beside its controller |
| `DwI2cProofs.tla` | theorems about `DwI2c`, for every FIFO depth, length and bus clock |
| `MCDwI2c.tla` | bus clocks and speeds for TLC |

## 1. Inventory

### Hart start-up and synchronisation
*Code:* `src/zsbl_mc.S`, `src/zsbl_pc.S`, `src/fsbl.S`.
*State:* each core's program counter; the word at `PLAT_RAM_SHARE_BASE` (0, or 1
once ZSBL is done); `_pc_stage`, a word of the FSBL image; the cores out of reset;
what is loaded where.
*Operations:* ZSBL entry of an MC and of a PC, the ZSBL functions, the release, the
wait for it; FSBL entry, board initialisation, self test, start of the PCs, MC
idle; for each of the sections chiplink, share-zone and OpenSBI: enter, work,
publish, wait.
*Interaction:* harts share the two words and nothing else; there is no lock. The
MC writes reset registers, which is how PCs of plat-apple begin to run.
*Hard:* any interleaving of harts, harts that leave reset late, RAM that holds
what an earlier boot left, two sockets with private RAM and one DDR, sockets whose
elected hart is defective.
*Correct when:* no hart jumps into an image that is not complete, no hart is past
a section whose work is not done, the storage has one user at a time, DDR is up
before it is written, stages never go back, and every good hart arrives.

### Boot configuration and boot flow
*Code:* `include/bootconf.h`, `src/bootconf0.c`, `src/zsbl_func.c`,
`src/fsbl_func.c`, `src/serial_func.c`, `src/storage_func.c`; `plat_bc_fix`,
`plat_clock_init`, `plat_setup_pg`, `plat_start_pc` and `plat_setup_sz` in
`plat-*/plat_ops.c`.
*State:* `struct bootconf` at `PLAT_RAM_BC`, the bus clock, the divisors in UART
and SSI, where each image came from, the partial-good register, the reset
registers of the PCs, the share-zone.
*Operations:* the calls of `call_funcs` and of FSBL, in build-dependent order.
*Hard:* the configuration in use is overwritten by the one in flash; the clock
changes between two uses of a device; four boot modes and several build options;
one partial-good code is used in three places.
*Correct when:* what is printed can be read, the flash is read through a
controller that is set up and not over-clocked, the pins win over the flash for
socket and debug boot, an image is what was put on the medium and does not reach
what lies above it in RAM, and OpenSBI is told of the PCs that run and no others.

### SSI flash driver and the platforms' flash operations
*Code:* `src/dw_ssi.c`, `plat_flash_*` in `plat-*/plat_ops.c`.
*State:* the controller's RX FIFO, frames left, threshold, frame width; the
driver's loop counters; the buffer.
*Hard:* the controller shifts frames while the driver polls; one frame too many is
requested by each fast read; an identification may time out with frames under way;
address and step-size boundaries.
*Correct when:* a read that returns has filled the buffer with exactly the bytes of
the flash, an identity is whole or zero, polling ends.

### Storage and GPT loading
*Code:* `src/storage_func.c`, `include/gpt_def.h`, and `script/mkimg.sh` on the
other side. A partition's entry is read, offset and size are computed, the image is
read, padding included. Stateless but for its buffers. *Interaction:* the layout is
an agreement between a shell script and a C function. *Hard:* inclusive ends,
padding, a fixed offset for the configuration beside the table, a size without a
bound, a failure nobody reports.
*Correct when:* a file is read back whole, with nothing of another, and what is read
for it goes over nothing that is still needed.

### Platform operations
*Code:* `plat-apple`, `plat-grape`, `plat-banana`, `plat-null`: pins, flash, console,
clock, partial-good tables, start of the PCs, share-zone; register tables for
power, clock, DDR and chiplink.

### UART driver and console
*Code:* `src/dw_uart.c`, `src/serial_func.c`. Divisor, `put_byte` polling the line
status; `prints`, `printi`, `print`.

### I2C driver
*Code:* `src/dw_i2c.c`. A polling master; no Makefile builds it.
*State:* the loop variables of a call; in the controller two FIFOs, the command on
the bus, `STATUS` and the raw interrupts, the registers of the speed.
*Operations:* set up, set the speed, read and write of memory devices, of plain
bytes and of the "VIP" device.
*Hard:* the controller takes commands from the FIFO while the driver fills it, and
ends a transfer by itself when the FIFO runs empty; each poll relies on a flag that
may be left from before or may not come; a refused byte blocks the FIFO.
*Correct when:* a read brings exactly its bytes, a write that returns is complete,
a call is one transfer where the build promises it, polls end, and the clock is the
one asked for.

### Other parts
Trap handlers (`wfi` forever), image tools in `script/`, built-in configurations
(`src/bc1-*.c`, `src/bootconf1.c`, `src/bootconf2.c`).

The status of each is in `PROJECT.json` under `components`, and everything that a
test would hardly reach is there under `hazards`, at its line.

## 2. HartBoot: harts, share word, stages

One action is the stretch of code between two accesses to shared state, so a
hart's access to a polled word is atomic and everything else may interleave.

| action | code |
|---|---|
| `ZsblPcStart`, `ZsblMcStart` | the reset vectors; with `PC_ACTS_AS_MC` each PC clears the share word first |
| `ZsblFuncsDone` | the return of the last call in `call_funcs`; FSBL and its `_pc_stage` are in RAM |
| `ZsblRelease`, `ZsblWaitEnd` | `sw 1` to the share word, the loop on it |
| `FsblStart` | the jump and the sorting by core type and hart id in FSBL |
| `FsblBoardInit`, `FsblBistDone` | `pc_acts_as_mc`, `fsbl_run_bist` |
| `McBoardInit`, `McStartPc`, `McFinal` | `mc_start`, `plat_start_pc`, `plat_mc_fsbl_final` |
| `SectionEnter`, `SectionWork`, `SectionPublish`, `SectionWaitEnd` | the three sections of `pc_start`; they differ in stage numbers, election and work only |

The build options are constants. `PcActsAsMc` is plat-grape, `McActsAsPc`
plat-banana, neither is plat-apple. In the last two builds PCs never leave reset
or are started by the MC. `good` is the set of PCs that the partial-good codes
leave usable and is any subset: the tables are data. `Preloaded` is the debug boot.

Initially the share words and stages hold *anything*, since RAM is not cleared by
a restart. On-chip RAM is indexed by socket, because every socket's boot
configuration holds its own socket id at the same address; DDR is one. Loads are
assumed to succeed here (what a storage yields is `BootConf`'s subject). A build
with `PC_ACTS_AS_MC` has no MC that runs. Memory is sequentially consistent.

### Runs

| run | machine | shows |
|---|---|---|
| `grape` | 1 socket, 4 PCs, `PC_ACTS_AS_MC` | type invariant, all safety properties, `StageMonotonic`, that `HartBoot` implements `BootPromise`, and that all harts arrive if none is still in reset at the release |
| `apple_dual` | 2 sockets, each MC and 2 PCs, any subset good | the same across sockets: storage without a lock, DDR of socket 0 brought up by another core, all good PCs of socket 0 arrive when hart 0 is good |
| `grape_late` | 1 socket, 2 PCs | *violation*: a hart that leaves reset after the release takes it back |
| `apple_dual_live` | 2 sockets, each MC and 1 PC | *violation*: socket 1 polls its own `_pc_stage` for stage 6, which is stored on socket 0 |
| `apple_partial` | 1 socket, MC and 2 PCs, any subset good | *violation*: nobody configures the chiplink of a socket whose hart 0 is defective |

The MC of plat-banana, a single core that walks straight through, and the debug
boot (`Preloaded`) have no run of their own; the theorems cover their safety.

The harts other than the leader are alike, so three followers show all that two
harts which poll, one that lags and the leader can do to each other; two sockets
suffice because sockets share only DDR. Stages are bounded by the code (0 to 6);
the state space is finite without any added bound.

`CHECK_DEADLOCK FALSE`: the modelled code does stop, at `goto_opensbi` and in the
MC's `wfi`. That it does not stop earlier is what the liveness runs show.

*Fairness* is weak fairness of each core's step. A core out of reset executes
instructions; no step waits for anything except a polled word, and polling sees
each value long enough because a step stays enabled while the word keeps its
value. For a core in reset that is not started no step is enabled. With
`PC_ACTS_AS_MC` fairness also says that every PC leaves reset at some time, which
is what the hardware does. `Socket0Arrives` has the precondition `LateReset` never
holds, exactly the case that `grape_late` shows, and `LeadersGood`, the case of
`apple_partial`; outside the two it holds, so the two are the only ways in which
harts of socket 0 get lost.

`plat_ddrctrl_init` and `plat_chiplink_init` are stubs on every platform here.
`DdrBeforeUse` and `ChiplinkConfigured` are therefore about the calls, which core makes
them and before what, and not about the state of a DDR or chiplink controller.

### What is proved

`HartBootProofs.tla` proves, for every set of cores and sockets and every build,
from `BuildAssumption` (the `#error` of `fsbl.S`) and `CoreAssumption` (each
socket has an MC and a leader of its own):

- `TypeCorrect`, `ImagesBeforeJumps` (`NoWildJump`), `Barriers` (`BarrierSound`);
- `StorageNeedsNoLock` (`StorageExclusive`) where the self test is off or is run by
  one hart; with the self test on and an MC it is false, all PCs run it at once (in no
  run, because no comment of the code promises otherwise; a hazard in `PROJECT.json`);
- `DdrFirst` (`DdrBeforeUse`): on socket 0 `plat_ddrctrl_init` was called before a core
  of that socket writes DDR, with any number of other sockets; the harts of socket 1 may write the
  share-zone before socket 0 brought its DDR up;
- `StageGrows` (`StageMonotonic`): `StageBound` ties the stage of a loaded image to
  how far the elected harts are, so a store can only raise it;
- `Implements`: each step of `HartBoot` is a step of `BootPromise` or a stutter.

None of the properties is inductive. A hart that waits with a stale share word of
1 would jump, and nothing in `NoWildJump` says why it cannot: because each PC
*clears* the word before it waits, and after that only the release, which comes
after the load, sets it. A stale `_pc_stage` of 6 would open every barrier: it
does not, because a hart that polls runs FSBL, so the image is loaded, so the word
was. `IInv` says this:

- `Roles`: only the booter runs the ZSBL functions, only the elected hart works;
- `Started`: a PC beside an MC runs only after FSBL is loaded and after the MC has
  left the storage;
- `Loaded`: who is in FSBL or about to jump there has an image;
- `Words`: what a hart may conclude from each of the two words: a share word of 1
  seen by a *waiting* hart means loaded, a stage of at least `EndStage(k)` in a
  *loaded* image means section `k` is done;
- `Sections`: the work is done before the stage is published and before it is left;
- `Once`, `Preload`: an image is not there before the one core that loads it is
  finished, unless it was there from the start; the refinement needs it to show
  that no image is written under a core that runs it;
- `BoardUp`: where DDR is known to be up.

There is one lemma per action with one step per conjunct; `Inductive` puts them
together, and each theorem about a property is a consequence.

*Only model-checked:* liveness (`Socket0Arrives`); the prover has no fairness.

## 3. BootConf, Gpt, PartialGood: what the preparing core does

`Program` is the sequence of calls made by the core that prepares its socket, as
the build options arrange it, up to the load of OpenSBI; each call is an action of
the same name. A divisor is represented by the clock it is right for (25MHz
external or 100MHz PLL); `sent` and `flashReads` record with which divisor and
clock each use happened. `plat_bc_fix_*` are the three platforms' functions; `conf`
initially (RAM is not cleared) and the flash hold any configuration of `FlashConf`.

`Gpt` has both sides of the disk layout: `mkimg` lays files out as the script does
(`sgdisk`'s default alignment of a partition is external), `Extent` is the
arithmetic of `gpt_load_part`, and `image` keeps the interval of the medium that was
read. `PartialGood` goes from a byte of a code to the mask, with the table and the
off-by-one test for unknown codes as they are, and to the four bits of the reset
register; `Good` reads the same byte independently, nibble by nibble.

| run | build | shows |
|---|---|---|
| `conf` | plat-grape on-chip (`STORAGE_PROBE`) and off-chip (`CLOCK_IN_ZSBL`), plat-apple with MC on either socket, plat-banana; four media; with and without `BC_AT_FLASH_PART0` | divisors fit the clock in both stages (`ConsoleReadable`, `FlashClocked`); the pins decide (`SocketFromPins`, `DebugKeepsFsbl`); files are read back whole, by table and by fixed offset (`ImageWhole`); loading FSBL costs the configuration exactly if the file ends in the last incomplete block of its room (`ConfLostExactly`); register, resets and share-zone agree about the good PCs (`HandOffAgrees`) |
| `bist_baud` | plat-grape with self test | *violation*: the self test of FSBL initialises the UART with the divisor of the old clock |

`MCFlashConf` varies what the scripts let a user choose (where the configuration, FSBL
and OpenSBI come from, console, flash), the divisors are those the scripts write, and the
partial-good codes cover all sixteen entries of the table and bytes that are in no
table, on either socket. The media have files that are and are not whole blocks, that
fill the RAM of plat-apple to its last whole block, that are one byte longer, that leave
exactly one sector of a block empty, and that reach beyond the next alignment. Calls
run in one order (`build` is chosen once), so a run is complete when every input has
been tried; no bound is added. The self test is off in `conf`, since `bist_baud`
shows what it does to the console. plat-apple with `CLOCK_IN_ZSBL` is left out: its
`plat_clock_init` prints "clock init" before `zsbl_init_console`, where plat-grape leaves
the message out with a comment (a hazard in `PROJECT.json`); with
`Offchip(OnPlatform("apple", FALSE, TRUE, TRUE))` added to `MCBuilds` TLC finds
`ConsoleReadable` violated by the second call. The self test is that of
`(work_mode & 0x03) == BC_WORK_MODE_BIST` (`SelfTest`): DEBUG together with BIST runs none.
`FlashClocked` allows the external clock with the divisor of the PLL: this is slow
but right.

The media are those that `mkimg.sh` makes (`Medium`): three or four files, none of
them empty (an empty file would ask for a partition of no blocks, for which the script
makes no provision), and room on the 32MB for each and for the partition of all remaining space;
if `sgdisk` finds none the script ends with an error and there is no image.

A file for FSBL is assumed to fit below the share word (`ConfAssumption`): this is the
map of the RAM in `README.md`, and nothing checks it; a longer file would go over the
stacks with its own bytes, and what follows is not modelled. Its *padding* is not assumed
to fit. The loader reads whole blocks, and the room for FSBL ends 704 bytes above a
block, 320 below a multiple of 4KB. So a file that ends in these 704 bytes has its last
block reach up to that multiple: zeros over the share word and over all of
`struct bootconf`. Such an image `Spills`, and the configuration in use is `Erased` when
`storage_load_fsbl` returns; FSBL then runs with a silent console, divisors of 0 and
no storage for OpenSBI. `ConfLostExactly` says that this happens for those files and no
others; the medium with an FSBL of 973825 bytes has one. In the model a load returns and brings every byte
also when it spills; `plat_flash_read` of plat-grape looks at `flash_step_size` in each
turn of its loop, so there an erased step may keep it from returning.

SD passes the test of
`storage_read` but its driver is a stub, hence it loads nothing (what the stack held
in place of the entry has no effect: both reads are calls of that stub). `FlashConf` has
socket id 0: no file of the repository gives the field a value, and plat-grape and
plat-banana do not overwrite it.

### What is proved

Every safety property of `conf` is a theorem, for every set of builds, configurations
and media that meets `ConfAssumption`. None is inductive.

- `BootConfProofs`: `SocketDecided` (`SocketFromPins`) and `DebugFsblKept`
  (`DebugKeepsFsbl`). Before the first call `conf` is what an earlier boot left; the
  invariant says that it is `Fixed`, as `plat_bc_fix` leaves it, or `Erased`, once a
  call returned.
  `FirstCall` shows that the first call of every build is `zsbl_set_bc_rom`, so no load
  can look at the configuration before that.
- `BootFilesProofs`: `TypeCorrect` (`TypeOK`), `FilesWhole` (`ImageWhole`) and
  `ConfLost` (`ConfLostExactly`). The invariant is `Typed`; its part `Placed` says
  that an image is one of the places where a load of this medium can have put it
  (`Origin`). The rest is a matter of the layout, in `GptProofs`: `Firsts` (every
  partition begins on an alignment), `Apart` (partitions do not overlap), `FirstByte`
  (a partition begins with its file), `ExtentOfFile` (`gpt_load_part` computes the place
  and the padded size of a file from its entry) and `ExtentOnMedium`. `ConfLost` needs besides that a spilled image leaves `Erased` and that nothing spills
  before the load (`Lost`, with the order of the calls from `BootOrderProofs`), that a
  configuration that was fixed up is never `Erased`, and the arithmetic of the last block
  (`PaddedInRoom`); that the padding fits is no hypothesis. `FirstLba` is
  a recursive function, but a disk has at most four files, so its equation
  (`FirstLbaEquation`) needs a witness written down for five entries and no induction.
- `BootOrderProofs`: `HandOffTrue` (`HandOffAgrees`), `FlashSafe` (`FlashClocked`) and
  `ConsoleHeard` (`ConsoleReadable`). Each call has a rank that depends on the build
  only for the two calls that move (`plat_clock_init` and `storage_probe`), and
  `ProgramOrder` shows that in every build the ranks grow along `Program`; so a call
  that is about to be made has those of lower rank behind it (`DoneEarlier`) and not
  those of higher rank (`NotYet`). The three invariants are about calls that are done:
  `Handed`, what register, resets and share-zone hold; `Clocked`, which clock the bus
  runs on and which divisor SSI has; `Heard`, that the UART has the divisor of the clock.
  The last two make an exception for an erased configuration, with which FSBL writes
  divisors of 0 and then neither prints nor reads the flash (`Blank`).
  `HandOffTrue` rests on `StartedAreGood` of `PartialGoodProofs`, which compares the
  table of plat-apple and the independent reading of a code, for every byte.

`HandOffTrue` has no hypothesis. The other two say of the builds and the flash what
they need, and TLC finds each of these to hold for the constants of `conf`:

| hypothesis | says | without it |
|---|---|---|
| `ClockFits` | a ZSBL that brings up the clock is off-chip | the on-chip default configuration sets the devices up with the divisor of the external clock, now after the switch |
| `PllDivisor` | a configuration in the flash has the divisor of the PLL in `*_freq_div` | the user asks for the wrong speed |
| `ConsoleFits` | besides, an off-chip ZSBL brings the clock up, and only on plat-grape | plat-apple prints from `plat_clock_init` before its UART is initialised |
| `NoSelfTest` | the self test of FSBL is off | `bist_baud` |

Nothing of safety in these modules is only model-checked. They have no liveness: the
program is a sequence of calls.

## 4. SsiFlash: reading the flash

The driver and the controller are two processes. `Shift` clocks one frame into the
FIFO, or loses it when the FIFO is full. The driver programs a transfer (which
empties the FIFO since SSI is disabled for it), polls RXFIR and pops. A byte is
represented by its address, hence `FlashExact` compares addresses. `Init` starts
with `plat_flash_identify` or without, as `storage_init` and `STORAGE_PROBE` do,
so the first read may come while the frames of an identification that timed out
are still being shifted. `dw_ssi_fast_read4ba` asks for one frame more than it
pops, as the code does with NDF.

| run | shows |
|---|---|
| `flash` | plat-grape: fast reads with even steps up to a full FIFO of two-byte frames; three platforms: byte reads on both sides of the reach of a 3-byte address, steps larger than the read, tails, empty reads, all capabilities: exact (`FlashExact`), whole identity or none (`IdentityWhole`), every read returns (`ReadReturns`) |
| `flash_grape_large` | *violation*: a step above what the FIFO holds leaves a gap, the caller goes on by its step and not by the size read |

In `flash` the steps of plat-apple are those whose reads its code makes: at most 1, or
larger than the read, so that its loop over whole steps never turns. Any other step leaves
all but the tail of an image unread, because the read in that loop is commented out while
the position advances. The comments describe such steps ("Fast read multiple bytes each
time", `bootconf.h:76-82`, and line 88), and `bc1-zebu.c` has one of 16, so this is a
disagreement and not a gap in the documentation. It has no run of its own, since
`flash_grape_large` asks the same question of the other platform, and is a hazard in
`PROJECT.json`; with `AppleSteps = {4}` in `flash.cfg` TLC finds `FlashExact` violated.
plat-banana is its ZSBL: FSBL calls a driver function that does not exist.

Bounds: a FIFO of 3 frames (`PLAT_SSI_RXFIFO_DEPTH` is 8 or 4; only its order
relative to the step matters, and an identification needs 3), steps and sizes on
both sides of it and of each other's multiples, `Low` for the 16MB of three address
bytes, `PollMax` for `DW_SSI_WAIT_POLL_CNT_MAX`, small enough that the timeout can
come before, between and after the frames. `FairSpec`: the core runs and a selected
controller shifts; neither is suspended by anything in the system.

### What is proved

`SsiFlashProofs.tla`, for every FIFO depth, bound on polling, offset, set of sizes and
set of steps allowed by the assumptions of `SsiFlash`: `TypeCorrect`,
`IdentityNeverTorn` (`IdentityWhole`) and `ReadsExact` (`FlashExact`). The last has the
hypothesis `StepsRead`, that the loop of the platform reads the steps it is given: on
plat-apple a step is at most 1 or larger than the read, on plat-grape it may also be even and
not above two FIFOs. Without it the property is false: the run
`flash_grape_large` shows it for plat-grape, the hazard above is plat-apple's case. Steps of plat-banana need nothing.

`FlashExact` speaks of the end only. The invariant ties the controller to the loop:

- `Answer`: during an identification what was shifted and what is left are three frames,
  which fit into the FIFO, so nothing of the answer is lost;
- `Chunk`: in a fast read the k-th frame in the FIFO is the k-th after those popped, and
  the address counter is where the frames left say; of one frame more than is popped
  only this last one can be lost, for want of room;
- `OneByte`: the one frame of a byte read has the byte's address;
- `Image`: the buffer is exact below the position of the loop;
- `Given` and `Types`: the arguments, and the range of each variable.

That frames of an identification which timed out never reach a read needs no part of its
own: each transfer begins with an empty FIFO and a new count, and the invariant holds
from there whatever went before.

*Only model-checked:* `ReadReturns`.

## 5. DwI2c: the I2C driver and its controller

Driver and controller are two processes that share the FIFOs and the flags. The
driver's actions are the stretches between two accesses to the controller: the wait
for the bus, `i2c_setaddress`, the loop of `i2c_xfer_init`, read and write loops,
and the ends `i2c_rx_finish` and `i2c_tx_finish`, where reading `STATUS` and reading
the raw interrupts are two steps. A poll is an action that is enabled while its flag
is up. The controller (external, from how the driver uses it) takes a command to the
bus, carries a byte or has it refused, and makes a STOP on its own when the FIFO is
empty, unless the build has `EMPTYFIFO_HOLD_MASTER`; then the driver asks for it in
the last command. `TX_ABRT` holds the FIFO empty until the next call disables the
controller, because the driver never clears it. Bytes are represented by their place
in the message, so a lost, doubled or reordered byte shows.

`dw_i2c_set_frequency` has the arithmetic of `USE_COUNT` with the 16 bits of the
registers, and the speed bits of `IC_CON` as a set, or-ed as the code does. The write
to the own slave address enables the controller whatever it was. A caller may set speed
and address whenever no call is in progress, between two transfers as well as before the
first. The counts of the speeds are those of `USE_COUNT`; the other branch is not compiled.

`I2cPromise` is what all this is for: a call carries its message to the device byte by
byte, then the device supplies what the call wants, and the call returns with it.
Nothing moves outside of a call, none of the device's bytes before it has the whole
address, and none in either direction once a byte was refused, until `i2c_setaddress`
sets the controller up again. The mapping: `busy` is a place of the driver other than
idle, `message` and `want` come from the arguments, `received`, `supplied`, `taken` and
`refused` are `wire`, `sent`, `buf` and `abrt`; FIFOs, bus, polls and flags are hidden. That
a write whose byte was refused returns as if it had not is in the promise (`Return`),
because the code has it so.

| run | shows |
|---|---|
| `i2c` | both builds, two calls in a row of any operation, a device that may refuse any byte: `ReadExact`, `WriteComplete`, `HoldsOneTransfer`, `SclBounded`, that `DwI2c` implements `I2cPromise` (`PromiseSpec`), and `CallsReturn` |
| `i2c_split` | *violation*: in the default build a core that is slower than the bus lets the FIFO run empty, and the rest of a write begins a transfer of its own |
| `i2c_speed` | *violation*: the second setting of the speed leaves the bits of the first one in `IC_CON` |

Bounds: `TxDepth` 3, two address bytes and three data bytes, so the FIFO is full
while a byte is written (the hardware's is deeper; only whether it fills matters);
`MaxCalls` 2, so a call meets what one before left behind (a flag, an aborted
transfer); one setting of the speed in `i2c`, before or between the calls, two in `i2c_speed`. `MaxAlen < TxDepth`
is what the driver relies on when it queues address bytes and the first read command
without looking at `TFNF`.

*Fairness* is weak, for the driver and for the controller: the core runs, and an
enabled controller works off its FIFO; nobody has to make a call. `CallsReturn` has
two preconditions. The call can be ended at all (`Endable`): a held bus is given
away by the last data byte only, a read without any command never sees a STOP. And
no byte was refused: a read whose byte was refused waits forever.

### What is proved

`DwI2cProofs.tla`, for every depth, length, number of calls and bus clock allowed by
`I2cAssumption`: `TypeCorrect`, `ReadsExact`, `WritesComplete`, `OneTransfer`,
`SclClose`, and `Implements` (`PromiseSpec`). None of the properties is inductive: each speaks of the state after a
call, and the way there leads through both FIFOs. `Inductive` is

- `Phases`: what the place of the driver says of the call and of the controller; at a
  call's start and end FIFOs and bus are empty;
- `Reading`: at most one byte is asked for ahead, it is in one of three places, and
  `active` tells; so the device cannot send a byte too many;
- `Writing`: bytes received, on the bus and in the FIFO together are the part of the
  message queued so far; with the empty FIFO and idle bus that both ends wait for,
  the whole message has arrived;
- `Holding`: with `EMPTYFIFO_HOLD_MASTER` STOP is in the last command and nowhere else;
- `Held`: after a refused byte neither FIFO nor bus has a command;
- `Counting`: one transfer at most for each byte on its way;
- `Setting`: the counts in the registers are those of the speed asked for last.

`Implements` maps `Transmit` to the promise's `Deliver` or `Supply`, `Abort` to `Refuse`,
`i2c_setaddress` to `SetUp`, `ReadByte` to `Take` and the two ends to `Return`; every other
step changes nothing of the promise. `Writing` shows that the byte on the bus is the next
of the message (`StillToGo`) and that all of it arrived when FIFO and bus are empty
(`Arrived`), `Reading` that a byte is supplied only when one is wanted.

*Only model-checked:* `CallsReturn`.

## 6. Not modelled, and why

- Register tables of PLL, power, DDR and chiplink, and the pin addresses: data
  without control. plat-apple's DDR controller code is a stub.
- `plat-null`: stubs. Trap handlers: `wfi` forever, no state.
- Console formatting (`serial_func.c`): copied from OpenSBI and stateless; when bytes
  are sent is in `BootConf`. `plat_serial_put_byte` waits for the line before and after
  each byte; it is one step.
- Build scripts, and the conversion to hex files for simulation.
- Weak memory. `zsbl_pc.S` stores the release without a fence before it and `fsbl.S`
  has its fence after the store of a stage. The repository names no memory model that
  its cores implement, so `HartBoot` is sequentially consistent.
- Failing loads in `HartBoot`: every load succeeds there. In `BootConf` a storage that
  is refused leaves RAM as it was and the boot goes on, as in the code.
- In the I2C driver, slave mode beyond the one call, and more than one master.

## 7. What is proved, and what is left

Each type invariant, safety invariant, action property and refinement that a passing run
checks is also a theorem. The three liveness properties (`Socket0Arrives`, `ReadReturns`,
`CallsReturn`) stay with TLC: the prover has neither fairness nor `ENABLED`.

Left, in this order:

1. An abstract specification of the flash read (a buffer that fills from the flash, one
   byte or one step at a time) and `SsiFlash` as an implementation of it.
2. `StorageExclusive` for the builds where all PCs run the self test, restricted to the
   users of the storage outside of the self test.
3. `DdrBeforeUse` for the dual-socket machine with what would have to be added to the
   code (a wait for socket 0) stated as a hypothesis.

## 8. Running

    tlc -config grape.cfg MCHartBoot.tla
    tlc -config conf.cfg MCBootConf.tla
    tlc -config flash.cfg SsiFlash.tla
    tlc -config i2c.cfg MCDwI2c.tla
    tlapm HartBootProofs.tla
    tlapm GptProofs.tla
    tlapm PartialGoodProofs.tla
    tlapm BootConfProofs.tla
    tlapm BootFilesProofs.tla
    tlapm BootOrderProofs.tla
    tlapm SsiFlashProofs.tla
    tlapm DwI2cProofs.tla

`PROJECT.json` lists each run with its module, configuration and expected outcome,
the lines of source that each definition models, the mutants (a definition changed
as a plausible slip would change it) that each property detects, and the findings:
the disagreements between the code and what its comments say.
