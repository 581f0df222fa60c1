# Formal models of the xenolift runtime and recompiler

The repository turns Disc 1 of a PlayStation game into a native program.  A
Rust *recompiler* (`source/src`) finds the code in the game's executable and
writes it out as C; a C *runtime* (`source/runtime/runtime.c`) with a set of
device models (`source/hle`) runs that C and pretends to be the console.  All
paths below are relative to `src/`.

This directory holds TLA+ models of the parts of it that keep state, the TLC
runs that check them on small instances, and TLAPS proofs of most of their
properties for every value of their constants.  `PROJECT.json` maps every
definition to the lines it stands for.

    tlc   -workers 2 -config MCCdBatch.cfg MCCdController.tla
    tlapm CdControllerProofs.tla

| modules | part | code |
|---|---|---|
| `CdController`, `MCCdController`, `CdControllerProofs` | CD-ROM controller | `runtime.c` |
| `WatchdogCells`, `PortWatchdogs`, `WaitWatchdogs`, `SeamWatchdogs`, `PumpWatchdogs`, `SpinWatchdogs`, `Watchdogs` | watchdogs of the drive | `runtime.c` |
| `AnchorGuard`, `ShellRestart`, `RestartProofs` | guest stack and re-entry latches; doors through which a run starts again; the proofs are also about `GuestRun` | `runtime.c` |
| `Mdec`, `MdecProofs` | movie decoder | `hle_mdec.c`, `runtime.c` |
| `Gpu`, `Spu`, `Gte`, `Dma`, `DeviceProofs` | drawing port, sound unit, geometry coprocessor, DMA channels | `hle_gpu.c`, `hle_spu.c`, `hle_gte.c`, `runtime.c` |
| `GuestCpu`, `GuestRun` | emitted C, dispatcher, overlay guard, module interpreter | `emitter.rs`, `runtime.c` |
| `Kernel`, `DiscFiles`, `Lzss`, `KernelProofs` | kernel events and the pulse, file calls, decompressor | `runtime.c` |
| `MemcardImage`, `CardStore`, `SioMemcard`, `MCSioMemcard`, `SioMemcardProofs` | memory card and pad port | `hle_memcard.c` |
| `Discovery`, `MCDiscovery`, `DiscoveryProofs` | function discovery; the proofs are also about `BuildScan` | `discovery.rs`, `decoder.rs` |
| `DiscStage`, `BuildScan`, `Unpacking` | disc stage and driver of the recompiler; the stage beside the game's decompressor | `main.rs` |
| `MCParts`, `MCHost` | model-checking modules for several parts each | |
| `Recursion` | induction and recursive functions for the proofs | |

## 1. Inventory

### 1.1 The recompiler (`source/src`, Rust, single threaded)

| part | state | operations | what makes it correct |
|---|---|---|---|
| `decoder.rs` | none | `decode`, `is_branch`, `is_jump`, `branch_target`, `jump_target` | every word is one instruction; control transfers are recognised |
| `discovery.rs` | work list `q`, register constants of the walk, `visited`, `functions`, `jr_targets` | `discover` | marks code and only code; closed under control flow; terminates |
| `emitter.rs` | chunk of addresses each C function owns | `emit_*`: labels, dispatch cases, delay slots, fall-through hand-offs | the emitted C goes where the machine would go |
| `main.rs` | none between runs | loads the executable and the disc, unpacks files, scans for seeds, calls the others, prints coverage | unpacks as the game does; a seed may be an entry |

`discover` gets its extra entries from the scans of `main.rs` (pointer tables,
prologues, the annotation file); what it returns is what the emitter writes.  A
word it fails to mark has no C code, and a jump to it ends in the runtime's
unresolved-jump recovery.

### 1.2 The runtime (`source/runtime/runtime.c`, 33,700 lines of C)

| part | state | operations | hard because |
|---|---|---|---|
| CD controller | `cd_*`, `g_cd_*`: registers, response and sector FIFO, pending and scheduled interrupts, needle | `cd_write`, `cd_read_impl`, `cd_cmd`, `cd_data_load`, DMA channel 3, `cd_sched_poll_release`, three services | four releases and a score of "heals" write the same cells at whatever moment the guest polls |
| watchdogs | a count, a clock, a budget and the posture last seen for each of more than a hundred | the chains at the status port, the file layer's cells, the timer, function seams and the pump | one cures what another has diagnosed, or undoes its posture |
| anchor, re-entry latches | `g_guest_depth`, `hb_active`, `busy`, `cd_tick_busy`, deferred requests, `sigjmp_buf` | `xenolift_real_main`, `xenolift_kick`, `park_tick`, `cd_force_deliver_int1`, fd-tick, `on_alarm_ctx`, watcher thread | host and guest frames alternate on one stack, `longjmp` cuts it anywhere, two other threads look at it |
| restarts | the pristine image, counts of lives, the pending function | a dozen doors: fault, halt, abort, exit, unknown function, relay | each keeps its own list of cells, and restores what another meant to keep |
| memory bus | RAM, hardware registers | `mem_read32`, `mem_write32`, `io_special_*` | every access may start a device step or a kick |
| kernel HLE | event table, file slots | `evt_*`, `bios_gate`, `disc_file_*`, `xenolift_kick` | handlers run inside the loop that delivers them |
| LZSS HLE | a decoder over guest memory | `xenolift_lzss_hle` | matches overlap their output; a guard on byte stores must step aside |
| overlay guard, interpreter | 16-byte signatures of translated code | `r1394_dispatch_guard`, `r1394_interp` | translated code goes stale when an overlay is loaded over it |
| crash kit | receipts | `segv_handler`, dump printers | runs in a signal handler; its effect on the guest is a restart |
| probes and state patches | counters | most of `xenolift_trace` and `mem_write32_inner` | none: edits of one game's memory at fixed addresses |

### 1.3 The device models (`source/hle`)

`hle_memcard.c` (serial port, memory card, pad), `hle_mdec.c` (movie decoder),
`hle_gpu.c` (drawing), `hle_spu.c` (sound), `hle_gte.c` (matrix arithmetic).
Each is a register port in front of a private state; the runtime calls them
from `io_special_*` and from DMA.  At this commit the runtime itself calls only
`hle_memcard_reset` of the card (the routing of the serial port is marked
deferred, `runtime.c:32325`), so the card's host is whoever links it.

### 1.4 Around them

`source/run.sh`, `bridge-v1-api.py`, `runner/watch-and-run.sh` and
`r1394_postemit_guard.py` build, run and relay; `tools/`, `source/tools/` and
`ext/` hold viewers, audits and a third-party CD model used as an oracle.

### 1.5 How the parts interact

The guest (translated C) calls the runtime at every memory access and every
function entry.  A status poll of the CD port runs the controller's releases,
heals and watchdogs; a register hook may run a kick; a kick dispatches guest
handlers on the same stack; a handler polls the CD again.  Disc interrupts are
collected by the fd-tick of `xenolift_trace`, by forced deliveries, or by the
watcher thread.  A fault or a halt anywhere inside longjmps to the anchor, which
dispatches the guest anew with the controller's state as it was and the memory
one of the doors has put back.  A store to a DMA register runs the transfer to
its end inside the store: list nodes go to GP0, where two machines read the same
words; blocks go to and from the movie decoder and sound memory.  So the
controller's registers, the latches and the request cells are shared between
routines nobody ordered, and that is where the properties below are aimed.

The full list of hazards, each at its line and with the properties that cover
it, is in `PROJECT.json` under `hazards`.

## 2. CD controller (`CdController`)

State: the record `cd` has the controller's fields under their C names without
the `cd_` prefix (`pending`, `arm`, `scheduled`, `resp`, `resp_pos`, `loaded`,
`pos`, `n`, `sector`, `seek`, `next`, `live`, `streak`, ...); `mem` the five
cells of guest memory the controller reads and writes.

Actions: `IssueCommand` is `cd_cmd` with the whole of what a command does -
needle, stream pointer, answer, scheduling, direct deliveries; `PopResponse`,
`PopData`, `DmaTransfer`, `Ack`, `AckArmed`, `FlagPoll`, `StatusPoll` are the
guest's port accesses with every release or repair the code runs inside them;
`VirtualInt3`, `DoorRelease`, `StrandedRelease`, `PollRelease` are the places
that turn a scheduled response into a pending interrupt; `LostPause`,
`FramePause`, `LostSector` are the three services; `GuestStore` is the guest
writing its cells.  The handlers are compositions of pure transformers of the
record (`DataLoad`, `Take`, `Consumed`, `Deliver`, `ReAnchored`, ...), one for
each C function or block, which is also how they are proved about.

Abstractions: an answer is the command and the number of bytes; a sector is the
address in its header and the address its payload came from, in units of which
`HeaderLen` make the header and `SectorLen` the sector; poll counts, wall-clock
waits and fire budgets are left to chance; the heals of the status poll are
folded into four families (restart, abandon, directory start, clear answer) and
fire, when `StallHeals` is set, whenever their posture could hold.  The movie
loop is off.

| property | says | run | proof |
|---|---|---|---|
| `TypeOK` | ranges of registers and cursors | `cd_heals` | `Typing` |
| `LoadedHasBytes` | a sector announced as loaded has unread bytes | `cd_batch` | `LoadedSectorsHaveBytes` |
| `StagedIsNeedle` | under a read the staged payload is the needle's sector | `cd_heals` | `StagedSectorIsAtNeedle` |
| `SectorEventKept` | an unacknowledged sector event is not replaced | `cd_heals` | `SectorEventsAreKept` |
| `AnswerIntact` | a delivered answer is not overwritten while unread | `cd_answers` | `AnswersStayIntact` |
| `NoTornSector` | a partly taken sector is not swapped (heals off) | `cd_batch` | `NoSectorIsTorn` |

`cd_stale_answer` records a disagreement: a saved answer of three bytes replaces
the one-byte answer of a later command (`runtime.c:27447`).

Bounds.  `Lba` are seek targets, `Sectors` where the needle may get to
(`Bounded` stops a run outside).  `cd_batch` takes the directory's first sector
and four sectors of the stream tail, so that header, snap, re-anchor and the end
of the stream window all happen, with sectors of three units so that a transfer
can stop inside the payload.  `cd_answers` has one command of each length and
phase and an address of each special window (synchronously served file, starved
window).  `cd_heals` switches all heals on with two reads and a Pause; its
sectors hold the first slot of the ring (239328), which R1263 serves to a guest
that waits for it.  The
theorems hold for any `Lba`, `Sectors`, `Cmds`, `Sizes`, `Ladder` and lengths
within `CdAssumption`.

No fairness is assumed here: that a waiting guest is answered depends on which
posture its wait loop is in, which is the subject of section 3.

## 3. Watchdogs of the drive (`Watchdogs`)

A guest that hangs does nothing but look.  Thirteen places where it looks have a
chain of watchdogs: the status port (`port`, and `half` for byte polls that also
run the spin doors), the flag register (`flag`), the file layer's wait cells
(`a22c`, `fe1c`, `fdfc`), the `timer`, any function call (`any`), the guest's
data, sync, loop and file functions (`data`, `sync`, `loop`, `file`), and the
pump that collects sectors (`collect`).  111 watchdogs are modelled, each with
the comment's tag as its name (`"R1458"`): what it watches (a change sets its
count back), the posture it takes for a hang, how it counts (`kind`: polls,
seconds held, seconds overdue, confirmed at a second look, ...), and what it
does to the drive and the request cells.  `WatchdogCells` has the cells,
`PortWatchdogs` to `SpinWatchdogs` the watchdogs by place, `Watchdogs` the chain:
`WdLook(site)` is one poll, with every watchdog of that place in the order of
the code, each on what the one before it left.  `WdTick` is a second passing,
`WdFlutter` what the hung guest still does (commands, its wait cell).

| property | says |
|---|---|
| `WdHangsEnd` | every hang the watchdogs were written for ends, however they undo each other's postures and counts |
| `WdOneStart` | two watchdogs do not serve the same hang in one poll |

Both are checked by `host`; the hangs (about a hundred, `Hangs` in `MCHost`) are
the ones the watchdogs' comments record.  Bounds: the thresholds are `WdShort` 3,
`WdMiddle` 4, `WdLong` 7 polls for 4 to 262,144 in the code - three values keep
who is first; of two thresholds that share a value the earlier in the chain
acts first.  `WdBudget` 2 acts for 3 to 64, `WdHold` 2 seconds for 2 to 12.
Fairness: weak, of a look at each place the hang names (the guest is in a loop
that looks there, nothing else), of the clock, and of the flutter.

## 4. Who may run the guest (`AnchorGuard`)

`frames` is the anchor's stack: guest code whose dispatch was counted in
`g_guest_depth`, guest code whose dispatch was not (`bare`: the first life of
the program and the driver walk of `park_tick`), and the host routines that
dispatch guest code - kicks, forced deliveries, the fd-tick.  `Restart` is a
longjmp from any stack; `AlarmGuard`/`AlarmSeam` the alarm handler of the parked
main thread, `ForceCheck`/`ForceDeliver` a delivery by the watcher, each split
at the point where it has looked at the depth and not acted yet.

| property | says | proof |
|---|---|---|
| `DepthCountsDispatches` | the depth is exactly the counted dispatches on the stack | `DepthIsExact` |
| `NoReentry` | no kick in a kick, delivery in a delivery, tick in a tick | `NothingIsReentered` |
| `TickGuardFollowsTick` | the fd-tick's guard is set exactly while a tick runs | `TickGuardIsFreed` |

All three are checked by `parts` (stacks up to 6 frames, two restarts: one
restart can leave a latch behind and the second meets it).  `anchor_watcher`
records a disagreement: the depth is 0 during the first life while the guest runs
(`runtime.c:32440` dispatches uncounted), so the watcher's guard lets it in.  Once
two threads are in the guest the C program has a data race; the model stops there.

## 5. Starting again (`ShellRestart`)

`rs_mem` is the guest's memory by the cells that a door treats on their own;
`rs_img` the pristine copy, taken when the program is first entered;
`rs_stack` what code runs inside of; `rs_used` and `rs_caps` what each door has
used and may use.  An action is a door with all it does: keep, restore, write
back, sanitise, count, jump.  A word is the image's, live, tainted, or a mark
that a door leaves.

| property | says | proof |
|---|---|---|
| `RsRowFollows` | the row the dispatcher reads is that of the state requested, whatever was restored | `RowsFollowTheIndex` |
| `RsRunsOut` | a life used is not given back, and every restart but two uncounted kinds uses one | `LivesRunOut` |

Checked by `parts`.  Bounds: scenes a guest leaves behind (sane, tainted, under
VSync); a life for two doors at a time where the code gives 2 to 32 to each, so
that every pair of doors takes turns; `RsFew`, `RsLate` 1 for 2.
`restart_request` records a disagreement: the cell that the kit keeps as the
request in flight is not the one the request is in.

## 6. Devices of the console (`Mdec`, `Gpu`, `Spu`, `Gte`, `Dma`)

**Movie decoder.**  `MdecWrite`s of the command and its words, the control
register, both DMA channels.  A halfword is its run or the padding code.
**Drawing port.**  A word is its top byte and its two halves; the actions are a
word to GP0, which both machines see, a word read back and GP1's resets.  Two
ghosts say what the format of the guest's command still calls for and which image
it has sent last.  **Sound unit.**  Key on and off, a sample of the mixer with all
it moves - envelope, pitch, blocks and their loop flags - uploads.  **Geometry
coprocessor.**  Every command with its arithmetic, limits, queues and flags, in
which every width is a parameter.  **DMA.**  Channel 6 clears a table, the guest
links primitives into it, channel 2 walks it, a node a step; channels 0 to 2
take blocks; the flags and the interrupt.

| property | says | proof |
|---|---|---|
| `MdecFraming` | a word is taken for a command exactly when the last one has all its words | `CommandsAreFramed` |
| `MdecKeepsEveryWord` | no word of a coded stream is dropped | `StreamsAreKept` |
| `MdecTablesWhole` | outside a load no table mixes words of two loads | `TablesStayWhole` |
| `MdecOutputIsStream` | a decode leaves what the format promises for its input | `OutputsAreTheStream` |
| `GpuInStep` | the interpreter is in the command, place and word the guest is sending | `InterpreterFollowsTheGuest` |
| `GpuCaptureInStep` | the second machine is in the interpreter's image transfer | `CaptureFollowsTheInterpreter` |
| `GpuReadsBack` | an image reads back as it was sent | `ImagesReadBack` |
| `SpuEndReported` | an end reported is of the note that plays | `EndsAreOfTheNote` |
| `GteTriples` | a triple command is the single one three times | `TriplesAreSingles` |
| `DmaDrawsTheTable` | a walk sends the nodes of the guest's list, each once and in order | `TablesAreDrawn` |

All are checked by `parts`, which takes one part at a time through its whole
interface.  Bounds: a buffer of eight halfwords and an output of five words, so
that both fill and a stream's padding reaches an end; a screen of two pixels by
one, so that a rectangle wraps and has an odd number of pixels; one command byte
of each length and kind; two sound blocks and a pitch above one sample, so that
a voice passes two block ends in one step; three list nodes in four words, so
that a table is cleared in pieces and a list has a node without words.

Polylines are left out of `GpuHeads` (an assumption): the interpreter takes a
fixed length for them and loses step, see section 12.  The capture machine
follows only while no reset comes inside a command (`~GpuAborts`) and no
parameter's top byte looks like an image load (`GpuTops`), both hypotheses of the
theorem and settings of the run; it does lose step otherwise, see there too.

## 7. The translated program (`GuestCpu`, `GuestRun`)

`GuestCpu` is what a guest program means: the machine with its branch delay
slots, over the instructions the recompiler's control flow tells apart.
`GuestRun` is how it runs: C functions written by `emitter.rs` with their labels,
hand-offs and dispatch cases, the generated dispatcher, the overlay guard that
compares the first words of a module with what was translated, and the
interpreter that takes over when they differ.  The state is the C stack.

`GrImplementsCpu` (run `parts`) says that the second refines the first: each
instruction is executed once, in order, with the same registers, in every chunk,
across chunks, in the interpreter and across both, as long as the program keeps
the conventions of compiled code (`CpuWild` otherwise).  It is proved too
(`GuestImplementsCpu`, section 11), for every build that satisfies `GrKeeps`: what
the translated program and the one in memory keep, checked build by build, such as
that no slot is entered by a jump from elsewhere in its chunk, and that the guard
sees at every entry that a module is another one.  TLC evaluates it as an
assumption for all 8736 builds of the run, 7488 of them with another module in
memory.  The branch that links (`bal`) is not among what `GrKeeps` allows: the
emitter makes it a goto, so that the return of its callee would leave the chunk.

Bounds: kernel functions
of 12 words in every combination of calls, branches into and out of a function
in data, and returns; a module of six words at the same place, as translated or
one of six others; three frames.

## 8. The kernel's calls (`Kernel`, `DiscFiles`, `Lzss`)

`ker_stack` is the one stack on which guest code, deliveries and kicks nest; a
register group is known by the depth of the code that wrote it last.  Gates,
deliveries event by event, kicks dispatch by dispatch, and returns are the
actions.  `fs_*` is the mount, the slots and guest memory; a byte of the disc is
named by its place, so a byte at the wrong place is seen.  `lz_*` is one call of
the decompressor over a stream of tokens, with the guard R518 on byte stores.

| property | says | proof |
|---|---|---|
| `KerContextKept` | interrupted code finds its registers, however deep deliveries and kicks nest above it | `InterruptedCodeIsWhole` |
| `KerDeliveredToAll` | a delivery passes over no event it owes | `DeliveriesMissNothing` |
| `FsReadDelivers` | the bytes a read says it has read are in memory | `ReadsDeliver` |
| `LzDecodes` | a decode that succeeds leaves the stream's meaning in memory and nothing else changed | `DecodesTheStream` |

All are checked by `host`.  Bounds: two slots and four frames, so that a handler
opens, closes and delivers over the delivery that called it; a disc of eight
sectors of two bytes with a directory in a directory, reads of 0 to 9 bytes from
before, in and behind a file, four calls; streams of three tokens with
overlapping and too long matches, sizes up to 6, at most 2 calls.

## 9. Memory card (`MemcardImage`, `CardStore`, `SioMemcard`)

`MemcardImage` has the pure part: format, directory frames, file writer,
checksum, card file.  `SioMemcard` has the protocol: one byte from the host is
one `Send`, which runs `sio_process_byte` in its state, pushes the reply and
raises the interrupt; `Pop`, `WriteControl`, and the emulator's own calls
(`PutFile`, `Load`, `Format`, `Reset`, `SetButtons`) may come between any two
bytes.  A save may fail or come out short (`Cuts`).

`CardStore` is what a card promises: it changes a whole sector at a time, only
by a write offered in full with a fitting checksum, or by a file operation, and
every change goes to the card file in the same step.  `offer`, the bytes the host
has sent of the write under way, is a history variable of `SioMemcard`; the
refinement is `Store == INSTANCE CardStore`, and `ImplementsCardStore` is its
`Spec`.

| property | says | run | proof |
|---|---|---|---|
| `ImplementsCardStore` | the port refines `CardStore` | `sio_protocol` | `SerialPortImplementsCardStore` |
| `TypeOK` | ranges; the FIFO never exceeds its depth | `sio_protocol` | `RegistersKeepTheirWidth` |
| `ExchangesEnd` | every exchange comes back to idle | `sio_protocol` | TLC only |
| `FilesStayApart` | a new file takes free blocks, one chain, and touches no other file | `sio_files` | `FilesKeepApart` |

`OpenExchangesAreAcknowledged` is proved beside them: an open exchange shows the
ACK bit.

Bounds: two blocks of three sectors of two bytes, so sector 1 is a directory
frame that both the host and the file writer change, blocks can run out, and a
file can span two blocks; sector 9 is behind the card.  A FIFO of one reply is
full at every second byte.  Fairness: weak fairness of `Send` alone - a host
that opened an exchange keeps clocking bytes; it may also reset, pop or send
rubbish for ever.

## 10. The recompiler (`Discovery`, `DiscStage`, `BuildScan`, `Unpacking`)

**Discovery.**  Each turn of the inner loop of `discover` is an action: `Take`
begins a walk, `Plain` steps over an instruction and tracks the constant, `Jump`,
`Call`, `Branch`, `JumpRegister`, `CallRegister` and `Trap` end the walk as one
of the arms of the `match` does.  An instruction is its control transfer and
target; of the others only the effect on the one register that jumps go through
matters: it becomes a constant (`set`), unknown (`load`), or keeps its value
(`plain`, and `cop`, which writes the register on the machine but is not taken
apart by the decoder).  `program` is any array of instructions, `roots` any
entry and list of extra entries.  The reference is reachability: `Reached` is
the least set that holds the roots and is closed under `Follow`, `Executed` adds
the delay slots.

**Disc stage.**  `StNext` goes through the file table, reads each file's sectors,
tries the decoder, tries it again behind a header of its own, and notes what it
writes.  `Unpacking` sets it beside `Lzss`: the tokens are read off the bytes
without unpacking anything (`StTokens`).  **Driver.**  `BuildScan` folds captured modules into the image and runs
the scans that seed the walk.

| property | says | run | proof |
|---|---|---|---|
| `VisitedIsExecuted` | no data is marked: marked words are executed on some path | `discovery` | `MarkedIsExecuted` |
| `WalkIsClosed` | at the end no path leads out of a decoded word to an unmarked one | `discovery` | `NothingIsLeft` |
| `JumpsAreProved` | a recorded target is the constant set on the straight line before the jump | `discovery` | `RecordedJumpsAreProved` |
| `Terminates` | discovery ends | `discovery` | TLC only |
| `StUnpacksAsTheGame` | what the stage unpacks is what the game's decompressor makes of the same bytes | `host` | `UnpackedAsByTheGame` |
| `BuEntriesAreSeeds` | every entry that the image or the annotations name is a seed | `host` | `EntriesAreFound` |

`EntriesAreCode` is proved beside them: every function entry in the region is
marked.  `WalkIsClosed` excepts the words marked as the neighbour of a transfer,
and `discovery_reach` shows why: the word behind a `syscall` or `break` is marked
as if it were a delay slot, and the walk queued there stops at once, so what
follows a trap is not discovered unless something else leads to it
(`discovery.rs:73-76` against 120-123 and the module's first sentence).  The same
happens to a jump into a delay slot, whose emitted body ends after that word.

Bounds: all programs of four words over nine kinds of instruction (`plain` is
left out, the walk treats it as `cop`), with one target inside the region and one
outside, from every entry, with and without an extra entry; four words hold
`set`, a transfer, its slot and a second transfer, which is what a stale constant
needs.  For the stage, all files of four bytes behind a header and a control byte,
in sectors of four bytes, alone and behind a header of their own, with a poisoned
row and an empty file behind the disc's end.  For the driver, all images of four
words that build addresses, and linked ones with every kind of capture and name
file.  Fairness: `WF(Next)` of `Discovery`, the loop of a single thread runs on.

## 11. What is proved, and how

Every theorem starts from a module's specification and the named assumptions on
its constants; TLC evaluates each assumption in the runs.  39 results are listed
in `PROJECT.json`.  The pattern is the same throughout: an inductive invariant,
one lemma for each action, and lemmas about the operators that the actions are
built from.

* **CdController.**  `IInv` is: the record is typed, loaded sectors have bytes,
  and under a read the staged payload is the needle's (`Good`), and the cells
  are typed.  There is one lemma per transformer (it maps a good record to a
  good one) and one per action.  The two state properties need each other:
  whether a load is due depends on the bytes left, and what the needle is after
  a transfer depends on the sector being retired with its last byte.  The
  action properties follow from `IInv` and a frame lemma per transformer;
  `NoSectorIsTorn` assumes `~StallHeals`.
* **AnchorGuard.**  `IInv` adds to the properties that a latched routine on the
  stack holds its latch.  The latch of the fd-tick is free when no tick is on
  the stack; those of the kick and the delivery are not, since a restart leaves
  them, and the proof needs only the direction that survives.
* **ShellRestart.**  `RsRowFollows` is not inductive: a restore takes the row
  from the pristine image, so the image must have its row in place too.  That
  lives run out is an action property, and needs that no count is ever above
  its cap: the signal handler takes back a count above its cap, which would
  give a life back.  `RsIInv` is both.
* **GuestRun.**  The CPU has a stack of calls, the program a stack of C frames,
  and they are not in step: a jump out of a function replaces a frame, and the
  interpreter keeps calls inside its window in one frame.  `GrIInv` says that
  there is a cut of the calls into runs, one for each frame (`GrFits`): one call
  for a frame of translated code; for the interpreter one from outside, whose
  return address is where it leaves to, and then calls that return into the
  window.  A frame waits where the call of the next frame returns to.  That the
  words of a jump's target are in this chunk, or begin another, comes from the
  emitter's loop, which ends (it can split a chunk only as often as there are
  words) and leaves nothing to split (`StartsSplit`).  The assumptions are on the
  builds (`GrKeeps`), except one about the running guest: `GrTailsKeep` says that a
  jump which is not a call or a return enters a stale module with the return
  address of its own function, and leaves it with no inner call open and not to
  the address at which the module returns.  The interpreter takes control at that
  address for a return; a guest that has loaded another address first is still
  within the conventions, so this is a hypothesis of the theorem: 58,888 of the
  59,581 states of the run are reached under it, with such jumps both ways.
* **SioMemcard.**  `IInv` says, for each state of a write, that the host's offer
  is what the address registers and the buffer hold so far.  Buffer, index and
  address outlive port resets and abandoned writes, so the agreement has to be
  rebuilt from the first address byte on.  Each step then maps to a `CardStore`
  step or a stutter.  The widths (`TypeOK`) need more than widths: the byte
  index stays within the sector because the states that use it begin it at zero
  and leave it at the sector's end (`Bounded`); the card is whole (`Cards`) because the
  file writer puts frames and blocks of the right length.  `FilesKeepApart` is
  about the file writer alone: it finds the free blocks in ascending order, so
  those it takes are free, different and as many as the file needs, and the chain
  runs through them in that order.
* **Discovery.**  `IInv` relates the three parts of the work: marked words, the
  address under the walk, and the queue.  What is ahead is reached; what is
  decoded leads to something marked or ahead; functions are marked or ahead; and
  the tracked constant was given on the straight line to the walk's address.
  One lemma (`UnitGood`) covers all control transfers.
* **BuildScan.**  What the image builds is a recursive function over its words
  (`BuHeld`): the registers, run in a line.  The scan forgets nothing of that,
  since it keeps what it knew of a register, and is behind by no word
  (`BuFollows`); so what the words so far have built is a seed (`BuSeeded`).  The
  one assumption about the captures is that one which passes its size gate fills
  its window, as the sizes in the code make it (`BuFills`).
* **Kernel.**  `KerIInv` relates each frame to the one above it: a code frame's
  registers are the current ones, those its kick saved, or those the delivery
  above it saved for the handler it has called (`Intact`, `Stands`, `Kept`); and
  a delivery owes only events that its walk has still to come to (`Owing`).
* **Mdec.**  Framing, the buffer and the tables need each other: a word of a
  stream fits because the words received are at most those declared, and a table
  is whole at the end of a load because they are then exactly those.  `MdTables`
  says of every table which of its words are new.  What a decode leaves is proved
  with a reader beside the decoder: the format's own reading of the halfwords
  received, which the decoder is at the same block of after each halfword
  (`MdOut`).
* **Dma.**  `DmaIInv`: the list in memory is the guest's list, no node is on it
  twice, and a running walk stands on the node after those it has sent.
* **Gpu.**  `GpuSteps` says, from the interpreter's state alone, which words the
  format still calls for - so the two lengths, one computed from the format and
  one by the code's own table, are compared once for every command byte.
  `GpuCap` says that the capture machine is in the interpreter's transfer, and
  `GpuImages` that the pixels sent so far stand in VRAM, each at a place of its
  own.  The hypotheses are those of the run and named in each statement: no
  polylines, no reset inside a command, no parameter that looks like a load.
* **Spu.**  `SpuIInv`: every voice is in its ranges, and what has reported an end
  has passed one.  How many blocks a sample passes is a recursion over its pitch;
  that each step of it is a voice again is proved with `Recursion`.  The levels a
  guest may write (`SpuLevels`) are assumed not to be negative.
* **Gte.**  No command loses a register or changes the length of a queue
  (`GteAssumption` says the same of what the guest may write).  The rounds of a
  triple then do not disturb each other: what a vertex or a colour becomes
  depends on registers that no earlier round has written, or on those queues
  whose shift the single command makes as well.
* **DiscFiles.**  A read copies whole sectors, each one over the tail of what
  the one before wrote.  `FsIInv` says that the chunks lie in a row and that no
  later chunk begins at or before a byte of an earlier one, so that what a read
  reports stays (`ReadsDeliver`).
* **Lzss.**  `LzDecodes` compares the decoder with a meaning of streams that
  says only: the output is the one whose every byte is what the token that covers
  it says.  `LzSoFar` holds after every token, by induction over the stream
  (`DecodeGoesOn`) and over the bytes of a match (`CopyCopies`, `CopyRepeats`);
  `MeaningIs` shows that there is just one such output, since every byte but a
  literal repeats an earlier one.
* **Unpacking.**  Three decoders read the same bytes: two recursions over the
  bytes of the stream, one over its tokens.  `StTokens` says where every token
  lies (`StPlan`), so all three can be compared at the end of each token: the
  outputs and the places are the same as long as nobody has given up.  A decoder
  that has, has for a reason which the others meet too - the stream ends, the
  output is full - except for a match from before the output, where only the
  forgiving one goes on.  The one assumption is that the place the game unpacks to
  holds what the stage takes for a plausible size (`UnpackingAssumption`).

**Recursion.**  The library states induction with operators as parameters.
`Recursion` states it with sets and functions instead: a property is the set of
the numbers that have it (`Inductive`), a step is a function, and a recursive
function is shown to exist and to obey its equation (`RecursionReaches`).  The
recursive functions of `Spu`, `DiscFiles`, `Lzss`, `Mdec`, `MemcardImage`,
`BuildScan`, `Unpacking` and `GuestRun` are proved about this way.  It also holds the facts about division
that the bit fields and checksums need.

Only model-checked:

* Liveness (`ExchangesEnd`, `Terminates`, `WdHangsEnd`): fairness is out of the
  prover's reach.
* `WdOneStart`: it holds for the hangs chosen and not for every state of the
  cells - two watchdogs that know the same posture are kept apart by which of
  them counted first.
* `PartsTypeOK`, `HostTypeOK`: collections of the modules' type invariants;
  `KernelTypes`, `LevelsStayInRange` and the inductive invariants prove the parts
  of them that the theorems need.

The runs that end in a violation have no theorem.

## 12. What the code does that a comment does not say

Met while modelling, beside the four runs that end in a violation
(`cd_stale_answer`, `anchor_watcher`, `discovery_reach`, `restart_request`).
Line numbers are of `source/runtime/runtime.c` unless a file is named.

**Controller.**  `GetStat` ends the read streak (2361) although the comment at
2353 calls it passive.  The header is staged before the snap moves the needle
(1947-1966), so it is of another address than the payload.  The comment of R918
says no poll release lives inside a guest context; the R1411 drain (27761-27779)
runs one there.  A stall heal may swap a half-read sector (3664).

**Watchdogs.**  In the chains as they stand, R1426A, R1436A, R1452, R1453,
R1459T, R1459V, R1467A, R1467M, R1464C, R1464I, R1421A, R1455, R1460F and R702G
never act on the hangs recorded for them, because R702W, R1285, R1458 or R1464J
act first; with byte polls also R1473 and R1475, whose pending interrupt the
spin-clear takes after 256 reads.  An on-demand load (4565) re-anchors the needle
in the same poll, so the posture "not loaded" of R1465A and R1459U does not stand.
R1427A, R1428A and R1430A act after 4 polls although the comment at 5236 says
about 262,000; R1458's confirm is 131,072 polls with a budget of 64 where its
comment says 2 million and 8.  R1467M does not check FE04.  R1473's hold is set
back by a command other than 09 despite 3818.  `rdcomp` and `seek7` are never
re-armed despite the comment at 6152.

**Pump.**  Some services set to zero the arguments of the function they were
called from (27991-28003, 28771-28783) although the comment at 28599 says "full
ctx"; one door restores them (5957-5960).  The fd-retire gives up at its second
look; its comment (28099-28102) demands an idle drive, which the code does not
check.  The movie hand-over (28221-28245) serves a sector twice that the guest
does not step past.  R1419R, S, U and W never act; R1440A (26728) waits for 65,536
inside a block limited to 120 calls; R1381's armed path (19901) begins with
`if (0 && ...`.

**Restarts.**  The request kept is at the wrong address (`restart_request`); the
dump that a comment cites (8666-8668) reads other cells than `arch_save` keeps
(8670-8688).  A restore is dropped when the guest faulted under VSync's return
address, while the receipt says restored; only four doors clear it.  The decoder's
door is called one-shot (8576) and fires at every later over-read.  The watcher
thread installs the other SIGSEGV handler each second (1194-1198), so the crash
kit with its restore no longer runs.  A longjmp can go to the anchor's frame after
it has ended (31365, 31639-31641).  A restart out of a kick leaves `hb_active`
set (10019).  After a restart the guest runs at depth 1 or more for the rest of
the run, so the alarm handler (13954) re-arms for ever.  A deferred delivery is
drained only after a longjmp (32243-32246), its flag is cleared first, and it is
dropped when `busy` is held.

**DMA and GPU.**  DICR is a plain cell, so a flag written back stays set; channel
6 raises neither flag nor interrupt; a list walk is cut after 65,536 nodes.  A
shaded line (50h) takes its colour word for a vertex; polylines lose step.  GP1's
reset does not reach the capture machine or a read under way, which stay in data
state; the capture machine takes the parameters of other commands for headers
although the comment at 508-511 says payload words never reach it.  Mask bits are
not used; a fill does not round its width.

**SPU and GTE.**  A voice that goes off within a sample still moves on, may get a
release while off, and reports an end.  A pitch below 1000h plays the old block
after key-on; the repeat address outlives a key-on; a written level may be
negative.  The DMA channel ignores the transfer address.  `gte_divide` wraps for
H >= SZ3 (`hle_gte.c:371-378`); light commands read IR registers already replaced
(634-639); the colours of NCS, NCCS and DPCS come from unshifted sums.

**Kernel.**  A hook's kick keeps the 32 registers but not hi and lo.  WaitEvent is
always delivered.  The position is never moved by a file read despite the comment
at 15906; ";1" in a guest's path never matches, and "cdrom:" counts as a
directory.  A short read copies 2048 bytes all the same (16344-16350), reading
behind the sector buffer.  R518 drops bytes of value 3 of a file, and the decode
flag that switches it off stays set after a failed decode (7077).

**Memory card.**  Unknown card commands and pad bytes go back to idle with the
ACK bit still set; `READ_CHECKSUM` reads behind the card for sector numbers from
1024 on; the good-end byte is sent also for a write outside the card and for a
failed save.  The two bytes of a pad poll may come from different button words.

**Recompiler.**  `functions.insert(t)` of a register call is not guarded by
`valid(t)` (`discovery.rs:115`) as that of a call is (86).  `jr rs` reads its
register behind the delay slot, unlike rule 1 of `emitter.rs:16-17`; a trap as the
last word of a chunk has no hand-off (395-411); a branch to a consumed delay slot
runs its jump again with temporaries that were never set.  A window branch into
the middle of a kernel function ends in the unknown-function door; a function of an
interpreted module that jumps out at its end completes its caller as well.  In
`main.rs` an empty file behind the disc's end stops the program (`raw[0]`), the
scan for a stream gives up at the first of five lengths that does not fit, so files
below 68 bytes are not scanned, `coord_same` is defined and not used although
R783's comment demands it for both captures, and a `lui` outlives a later write of
its register although the comment says it does not.

## 13. Not modelled, and the plan

Left out inside modelled parts: the directory calls, raw sector formats, pad
buffers, BIOS gates that are one answer each, the vertical-blank counter, bus
registers without an effect, guards of single stores, the recording door of a
ring slot (R1371), the ring serve of R1372 (4473-4509; its condition asks for an
address from 801F3300h on and below 8020300h, a digit short, and never holds), the
pump's genuine-answer entry (R1351) and
its third kick, first-fault mode, polylines, texturing and blending, the ADPCM
samples and the mix, LZCS and ORGB, the tracker of one register among 32.

Left out altogether: probes, cameras and one-shot patches of the runtime (edits of
one game's memory at fixed addresses), the printing of the crash kit, the run
scripts, viewers, the third-party CD model - I/O, formatting, or code without a
state of its own.

| next | what | how |
|---|---|---|
| 1 | `WdOneStart` as a theorem | an assumption on the hangs that keeps two watchdogs of one posture apart |
