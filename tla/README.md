# A TLA+ model of SCPU-EMU

SCPU-EMU turns a RAD expansion unit (a Raspberry Pi on the C64/C128 cartridge
port) into a CMD SuperCPU: the Pi holds /DMA, runs the guest program out of its
own memory at 20 MHz, and keeps the parts of the real machine that matter, the
VIC-II's DRAM and the I/O chips, up to date over the expansion port.  This
directory models the parts of that system whose correctness depends on long
sequences of calls, on the interleaving of cores, or on many cases of one
computation.  TLC checks the models on small instances, and TLAPS proves central
invariants for all instances.

`PROJECT.json` is the index: components, runs, mutants, the map from each
definition to its source lines, findings, hazards with the properties aimed at
them, and theorems.  Definitions commented *Mutant* are faulty variants, used to
check that each property can fail.

## The system

| Part | State it keeps | Operations | Interacts with |
|---|---|---|---|
| `CWriteBuffer` | mirror policy, dirty and synced bitmaps, ring of addresses, pending values, negative-scan cache, sweep cursor | `onRamWrite`, `flushUpToPolicy`, `flushRangeUpTo`, `resyncSweep`, `resyncDisplayed`, `discard`, `setOptMode` | called by `CC64Memory` on every store and by `runFrame()` to drain |
| `CC64Memory` | 64K shadow, port and PLA mode, VIC and CIA2 shadows, sprite-pointer row, hot blocks, CIA2 timers, IEC holds, VIC log | `read8`, `write8`, `writeFast`, `tick`, `reset` | write buffer, physical bus, core 1 (VIC log), CPU |
| `CSuperCPU` | tick debt, mirror halted, diagnostics, scrub phase | `init`, `reset`, `runFrame`, `enable/disablePhysicalMirror` | owns all of the above |
| `CSuperCPURegisters`, memory map, banking | register gate, speed sources, optimisation mode, bootmap, DOS extension, SIMM size | register reads and writes, address decode | write buffer policy, pacer, CPU |
| `CREU` | live and shadow registers, armed transfer | `read`, `write`, `noteFF00Write`, `executeTransfer` | memory |
| CPU cores (65816, 6510) | registers, width caches, interrupt lines | `run`, `step`, `irq`, `nmi` | memory |
| VIC log replay, renderer (core 1) | log tail, generation, register image, mode | prime, replay, render, park | ring written by core 0 |
| C128 refresh service (core 3) | epoch word, busy word, line-sync flags | coarse epochs, line scheduler, start, stop, cancel | every physical transfer of core 0; the /DMA pin |
| RAD bus driver | acquired, signals, calibrated points, map under I/O | `acquire`, `release`, calibrations, transfers, display diagnostics | refresh service, host machine |
| boot, video selection | startup stage, selected presentation | start-up, frame hook, switch | everything |

What is hard here.  *Concurrency*: core 0 emulates and drives the bus, core 1
renders from a ring core 0 writes without a lock, core 3 pulses /DMA between core
0's transfers, on a machine with a weak memory model.  *Long call sequences*: the
write buffer's elimination of redundant stores is sound only if an invariant
between shadow, DRAM, two bitmaps and a ring survives every order of stores,
policy changes, partial drains, relocations and resets.  *Stale state*: a cached
negative scan, cached register widths, a pacer that a reset does not tell, a map
that a RESET undoes, a pointer that overtakes its data.  *Bounded waits*:
hand-shakes that give up and are then completed late by the other side.  *Failure
paths*: a startup that fails at any of a dozen places must give the machine back.

## Modules

**Write buffer.**  `WriteBuffer` models `write_buffer.{h,cpp}` with the parts of
`CC64Memory` and `CSuperCPU` that call it.  The 64K space is `Block \X Offset`; the
ring is the sequence `queue`; `dirty` and `synced` are the bitmaps as sets.
`OnRamWrite` is the four ways through `onRamWrite()`: timing only, skipped,
eliminated, accepted.  A drain is a loop: `FlushBegin` is its entry, `Take` and
`Defer` the two branches of `flushSelectedChunk()`'s loop, `SendBurst` and
`NoneTaken` its end.  All of it runs on core 0, so `Idle` keeps other calls out
while one is in progress.  The generation counters appear as differences
(`queueLag`, `hotMoved`), since only equality with the remembered value is tested.
`PointerOrder` adds a history variable for the order of pointers and data.

**C128 refresh.**  `C128Refresh` models `c128_refresh.{h,cpp}` and the bus calls
around it.  Each core is a program counter; the epoch and busy words go through a
store buffer per core that `DataMemBarrier` drains.  A deadline may pass, and a
bounded spin give up, at any moment.

**Video switch.**  `VideoSwitch` models the knock at `$D0BA`, the frame hook
`scpuUpdateVideoSelection()` (one action per path through it) and core 1's loop
reduced to where it touches shared state.

**VIC log.**  `VICLog` models the lock-free hand-over of register writes to core 1:
on core 0 the write path with its shadow, tag and head stores, the raster anchors,
the capture switch and `reset()` store by store; on core 1 the latch of head and
generation, the copy, `CVICRasterTimeline::build`, the bands and
`CVICRasterReplay`.  A frame whose pages outgrow the snapshot is drawn from one latched
state (`Apply`'s other choice, `vic_raster.cpp:467-474`).  Registers are cut to the screen matrix, the bank and one
sprite pointer; the clock is emulated C64 cycles.

**Register file and decoders.**  `Registers` models every register read and write
of `CSuperCPURegisters`, the gate, the speed sources, the pacer, bootmap and DOS
extension, SIMM size and reset, the PLA, and the four decoders of an access (the
full and the inline paths of `CC64Memory`, the map above bank 0, the vectors).  A
decoder answers with the store an access reaches.

**Processors.**  `W65C816` executes every mnemonic of the 65816 by operation and
addressing mode, with the width caches, the cycle key and the fast path of
emulation mode; `M6502` is the 6502 core; `CpuWords` has what they share.
`CpuLoop` is time: `run()`'s batches, interrupt sampling, WAI and STP, composed with
`tickFast`, the serial holds and the CIA2 timer model of `CC64Memory`.

**REU.**  `REU` moves one byte per step as `executeTransfer` does, through the
memory path and the `$FF00` hook.  `REUAbstract` is what the unit promises: a
command moves its block in one step.  `REU` implements it under the mapping at the
end of the module.

**Frame scheduler.**  `FrameScheduler` models `runFrame()`: slices, tick debt, the
raster-aware drain, the approach run, sweep, scrub and the resync diagnostic.

**Bus and boot.**  `Calibration` has the scans' choices as operators on what a scan
saw.  `RadBus` adds `acquire`, `release`, the takeovers, the map under I/O, the
transfers with their turnaround, the host and core 3.  `Boot` composes it with
`scpuBootRun`, its failure paths, the hook with the RAD and RESET buttons, and
restarts of the Pi.  `Sentinel` models the thirteen display diagnostics of the bus
driver as programs of seed, expose, read and repair steps over faulty hardware.

The `MC` modules give the constants of the instances.  `WriteBufferProofs` (with the
order results of `PointerOrder`), `HDMIProofs` (`VICLog` and `VideoSwitch`),
`C128RefreshProofs`, `SuperCPUProofs` (`Registers` and `FrameScheduler`), `REUProofs`,
`CpuProofs` (`W65C816` and `CpuLoop`), `BootProofs` and `SentinelProofs` hold the theorems;
where one of them is about two modules, the second names its specification for itself
(`SwitchSpec`, `FrameSpec`, `LoopSpec`).

### Abstractions

* `WriteBuffer`: one byte per block in its runs; nothing in the code looks at more
  of an address than its block, its place in a pointer row and its place in a region.
  Any clean mirrored byte may be re-sent by `resyncDisplayed`, which over-approximates
  its installments; any row byte may be treated as active or not.  `suspect` records
  the addresses for which the code's own invariant does not hold (finding 1).
* `C128Refresh`: the service flags are sequentially consistent, since a
  `DataSyncBarrier` follows each store.  A start that gives up is in `RadBus`.
* `VideoSwitch`: one call of the hook is one step, since no step of core 1 reads two
  of the variables it writes.  Time is used once: the hook, which runs once a frame,
  runs at most once between core 1's load of `m_PictureEnabled` and the adjacent
  store of `m_PictureParked`.
* `CpuLoop`: deadlines count down; a stretched access waits for any number of cycles
  up to a whole C64 cycle.  `W65C816`: the instruction stream is an input.
* `FrameScheduler`: where the beam is, and what the guest does in a slice, is free;
  of the queue only the number of bytes per class counts.
* `RadBus`, `Boot`: which samples of a scan are good is an input (`Eyes`).
* `Sentinel`: a cell is right, wrong, or not yet written, against the arm's pattern.

## Runs

`tlc -config <cfg> <module>` in this directory.  All pass.

| Run | Instance | Shows |
|---|---|---|
| `coherence` | 3 bytes, 2 values, 2 policies, one byte under I/O and one pointer, a border and a display-time drain with budgets 1 and 2, chunk 2 | `CleanBytesEqual`, `NothingQueuedForHDMI` |
| `queue` | 4 bytes, two of them pointers, 3 kinds of drain, 2 hot sets, chunk 2 | `RingMatchesBitmap`, `CacheNeverHidesWork`, `PointerFollowsItsData`, `CompleteScanKeepsOrder`, `TurnsComeNearer` |
| `c128_refresh` | no constants: the whole state space | `NoPulseDuringTransfer`, `Core3KeepsOut`, `WaitsEnd`, `NotStranded` |
| `video_switch` | a debounce of 2 frames | `ModeAgrees`, `MirrorResumesQuietly`, `RequestHonoured` |
| `viclog` | a ring of 3 events; 4 raster lines, one above the picture; 2 matrices, 2 attempts of a latch, 2 generations; writes as below, 4 cycles | `ReplayTruth`, `RowsShowBeamState`, `MixedFramesExplained` |
| `registers` | 4 machines, an address of every decoded range, 5 port settings | `WindowsFollowRegisters`, `ReportedSpeedIsPaced`, `PathsAgree` |
| `lockstep` | every mnemonic and mode after up to 2 preamble instructions, 20 register files | `WidthsFresh`, `ReturnsToCaller`, `EmulationIs6502`, `FastPathAgrees`, `DecimalArithmetic` |
| `timing` | timer A, 2 cycles per C64 cycle, batches of 3, both NMI levels | `RateInStep`, `PromptNMI` |
| `reu` | 4 C64 bytes, 2 fitted expansion bytes, programs of 4 writes | `OneTransferAtATime`, `ImplementsBlockTransfer` |
| `frame` | 5 ticks a frame, slices of 2, 1 MHz of 2 ticks, overruns of 1 cycle | `SerialUndisturbed`, `WorkRepaid`, `FrameEnds` |
| `boot` | C64 and C128 in every configuration, 4 read samples, a 2 by 3 write grid, 2 takeover attempts | `MachineGivenBack`, `C128Refreshed`, `MapAgrees`, `OrdinaryWritesLand`, `PointsCentred`, `ButtonReboots` |
| `sentinel` | 2 cells, 2 faults, 3 attempts of a prefill | `QuietOracle`, `DamageAttributed` |

The bounds are the smallest at which the interesting cases happen.  Three addresses
are needed for an entry to overtake another past a third, four for a partial scan
that both takes and defers; a chunk smaller than the queue makes a drain send
several bursts; `GenMod` just above `Capacity` makes the wrap-around of the queue's
generation reachable.  A ring of three events overruns with four writes; two
generations put two resets against one snapshot.  With two expansion bytes and four
addressable, a transfer laps the expansion and the zero length means four.  Two
faults let a lost write and a misreading meet on one cell, and three attempts are
the code's own.  The eyes of `boot` range over every set of good samples in the scan
that the machine's first acquisition depends on, the others being wide open or shut.

`viclog` is explored in two scopes that its constraint joins (`MCVICLog.Scopes`), since
all at once is too much: four writes of the matrix register and of the compare line, with
the beam anywhere, where the ring overruns and frames of three bands occur, the writes of
each on lines of their own; and anything the producer can do (pointers, resets, capture
switches), two times with the beam anywhere and three times at the start of a frame, where
resets cross a latch on its last attempt.  The theorems have no such bounds.

Two properties have a condition besides size.  `RowsShowBeamState` is about frames whose
drawn events are register writes inside the picture: finding 9 is what an event above
it does, and a pointer write, which the renderer applies one row late, takes the
register writes behind it with it.  In `boot`, RESET is held until the hook has seen
it (`ShortPulse = FALSE`); what a shorter pulse does is the last claim below.

Deadlock is not checked in `lockstep` and `reu` (the program is over), `sentinel` (the
diagnostic returns) and `boot` (a halted or rebooted Pi does nothing more).

### Fairness

* `c128_refresh`: both cores keep executing and stores become visible; BA returns
  often enough to finish a transfer (strong fairness of `TransferEnds`: the VIC lowers
  BA for a few cycles of a line).  `NotStranded` assumes in addition that the host's
  clock runs, in its own premise; `WaitsEnd` does not.
* `video_switch`: both cores keep running.  The replay does not hold every frame for
  ever (`CVICRasterTimeline::build` returns HOLD only until an event of a later frame
  arrives or the newest is a frame and a half old), and the reset button is not
  pressed in every frame.
* `frame`: one thread whose calls return.
* `boot`: core 0 is not preempted and its waits are bounded; the hook runs, since a
  frame ends (`FrameEnds`); core 3 runs on its own core; the user lets RESET go.

* Finding 3 is shown under `FairSpec` of `WriteBuffer`: again and again the border finds
  time for a drain (strong fairness of `BorderDrain`: the displayed matrix while any of it
  is queued, ordinary traffic only otherwise), and a call that has begun runs to its end.
  `TurnsComeNearer`, which holds, needs no fairness.

## Findings

Each is in `PROJECT.json` with its line and the sentence it contradicts.  Where a
configuration is named, TLC refutes the property with it.

| # | What the code does | Shown by |
|---|---|---|
| 1 | a delivered clean byte can differ from the shadow: an old value is queued, the policy changes, a store is skipped, the flush marks the byte synced | `MCWriteBuffer` / `MCWriteBufferClaims.cfg` |
| 2 | skipped entries change order when the budget cuts a scan short | `MCWriteBufferClaims.cfg` |
| 3 | a sprite pointer rewritten for ever, or any byte that drains rotate for ever, is never delivered by the queue | `MCWriteBufferClaims.cfg` |
| 4 | transfers claim the refresh interlock before they look at BA | `C128Refresh` / `C128RefreshBAClaim.cfg` |
| 5 | a request for the VIC before the first accepted switch does not park core 1 | `VideoSwitch` / `VideoSwitchClaims.cfg` |
| 6 | a switch to HDMI cancelled and asked for again is completed by the old frame | `VideoSwitchClaims.cfg` |
| 7 | in native C128 mode the 65816 never reaches the 8722's registers at `$FF00` | `MCRegisters` / `MCRegistersMMUClaim.cfg` |
| 8 | an acknowledge and an underflow in one tick hide the NMI edge from the processor | `MCCpuLoop` / `MCCpuLoopEdgeClaim.cfg` |
| 9 | an event above the first picture line sends its frame's splits to the bottom | `MCVICLog` / `MCVICLogRowsClaim.cfg` |
| 10 | a frame of two epochs can be presented while a reset is running and, when the fourth attempt to latch was crossed by a reset, after it, until the replay is primed again | `MCVICLogClaims.cfg` |
| 11 | equal heads around the copy do not prove that the state belongs to that head | `MCVICLogClaims.cfg` |
| 12 | after a reset the tracked pointer row is not the row of the reset state | `MCVICLogClaims.cfg` |
| 13 | the resync diagnostic reports complete with a sprite shown and part of the picture not rewritten | `MCFrameScheduler` / `MCFrameSchedulerRepairClaim.cfg` |
| 14 | a refresh start that gives up leaves its request, and core 3 may pulse /DMA at a released machine | `MCBoot` / `MCBootClaims.cfg` |
| 15 | a startup that fails after an Ultimax takeover releases a processor whose KERNAL is not mapped | `MCBootClaims.cfg` |
| 16 | a takeover that gives up lets the processor run in the all-RAM map before it is reset | `MCBootClaims.cfg` |
| 17 | preparing the map under I/O resets CIA2 behind the shadow of its direction register | `MCBootClaims.cfg` |
| 18 | the read sweep's phase 0 is at a literal point, not at the configured one | `Sentinel` / `SentinelReferenceClaim.cfg` |

`MCBootClaims.cfg` and `MCVICLogClaims.cfg` hold five properties each,
`MCWriteBufferClaims.cfg` three and `VideoSwitchClaims.cfg` two; run them with `-continue`,
or with one property at a time.  The fifth of `MCBootClaims.cfg`,
`MapSurvivesReset`, fails because a RESET released before the hook samples it is never
noticed, and the map it undid is not restored.  The further findings come from reading the
code while modelling it: SIMM addresses above the fitted size do not alias, the
6502's dummy write stays on, the REU's bank register keeps three bits, `$FF00` in
native mode never starts an armed command, a machine reset does not reach the REU,
and a timer that counts CNT pulses loses its NMI.

## Proofs

`tlapm <module>` checks a proof module.  Each theorem holds for every value of the
constants that satisfies the named assumptions of the module that declares them; TLC
evaluates these in the runs.  Every inductive invariant was checked by TLC on an
instance of the component before it was proved.

`WriteBufferProofs`: `TypeCorrect`, `RingCorrect` (`RingMatchesBitmap`), `HDMICorrect`
(`NothingQueuedForHDMI`), `CacheCorrect` (`CacheNeverHidesWork`), `EliminationSound`
(`CleanBytesEqual`), `CompleteScansStable` (`CompleteScanKeepsOrder`),
`PointersCommit` (`PointerFollowsItsData`) and `TurnsCome` (`TurnsComeNearer`).

* `RingMatchesBitmap` alone is not inductive.  A store appends only while the ring is
  shorter than `Capacity`, and a full ring would drop the entry but set the bit: the
  proof needs that a ring without duplicates that misses an address is shorter than the
  number of addresses (a pigeonhole lemma), that a burst exists only while a scan is on,
  and that nothing is sent or replayed while delivery is off (`CallInv`).
* `CacheNeverHidesWork` rests on an invariant of the scan in progress: what has been
  rotated so far is not eligible, so a scan that ends having taken nothing has seen only
  ineligible entries, and afterwards an entry becomes eligible only by a new entry or by
  a rebuild of the hot set, each of which moves a generation.  `queueLag` cannot wrap to
  zero because fewer than `GenMod` entries fit into the ring before a drain invalidates
  the cache.
* `CleanBytesEqual` needs that no two blocks under I/O are relocated to one block
  (`RelocInv`), since two shadows behind one target could not both be equal to it, and
  that an address under I/O is neither dirty nor synced while it cannot be reached
  (`ReachInv`).  The steps that carry the argument are the store that steals a relocated
  block, which makes the target's authority another byte, and the re-issue that follows.
* The order results use `SchedulerAssumption` (`PointerOrder`): a budget fits into a
  chunk and a drain that spares a region is one at display time or a priority drain,
  which is all `flushMirrorsRasterAware` asks for.  Without it finding 2 is a
  counterexample.  `StableInv` splits the ring into the part still to be looked at and
  the part put back, each in the order of the scan's beginning; a rotation moves one
  entry from the first to the second.  `HistoryInv` adds that nothing is promised of the
  order while a sparing drain runs.
* `TurnsComeNearer` needs no scheduler assumption.  While a drain that spares nothing runs
  it takes from the head only, so what is left keeps the order in which the drain found
  it, and once it has taken a first entry that entry was ahead of all that is left
  (`TurnInv`); a store only appends, or moves a pointer byte to the tail (`StoreAhead`).

`HDMIProofs`: `ReplayTrue` (`ReplayTruth`), `MixedOnlyAroundReset` (`MixedFramesExplained`), `RowsTrue`
(`RowsShowBeamState`), and for the switch `ModeCorrect` (`ModeAgrees`) and
`QuietHandover` (`MirrorResumesQuietly`).

* `ReplayTruth` speaks of the moment at which core 1 has taken everything; inductive is
  that *from where the replay stands, the rest of the log leads to what the VIC has now*
  (`ReplayInv`).  "Leads to" is a trace (`Trace`): a row of the memory map for every
  index, each one step of an event from the last; a store of core 0 extends it at the
  head, core 1's replay consumes it at the tail.  The same of a latched state (`LiveInv`),
  which core 1 may adopt.  The proof needs that the events to be applied are still in the
  ring or an overrun was noted (`RingInv`), and that heads and generations are never
  sampled ahead of core 0, but by a latch whose samples disagree (`SampleInv`).
* `MixedFramesExplained` names both situations in which a mixed frame is presented: a reset
  is running, or the replay was primed from a latch whose last attempt a reset crossed
  (`epochs.crossed`; finding 10 is that both happen).  That there is no third needs that only
  between a reset's first and third store the registers are an epoch ahead of the memory
  (`EpochsApart`), that samples are taken in order (`SampleOrder`), and that what was
  drawn and what was snapshot belong to the generation checked at the end (`EpochsSeen`).
* `RowsShowBeamState` is about one step.  Each event is at the row the beam had reached,
  so the events up to a band's end are those the beam passed; that the band ends at the
  right event is an induction over the scan.
* For the switch the invariant adds that `m_PictureParked` is set only outside a frame and
  that HDMI is reached only through an accepted transition.  The case that needs it: core 1
  has loaded `m_PictureEnabled` as set and the hook clears it before core 1 stores; the
  acknowledgement is then stale, but the hook has just run and does not run again before
  the store.

`C128RefreshProofs`: `NeverPulsedUnderTransfer` (`NoPulseDuringTransfer`) and
`PromisesKept` (`Core3KeepsOut`), for store buffers of any length.  The argument is
Dekker's, made through the store buffers: core 3's last store closes the epoch before
its barrier, so that no open epoch is visible or on its way when it looks at the busy word
(`EpochInv`); core 0's last store raises the busy word before its fence, and it is visible
when core 0 looks at the epoch again (`BusyInv`); whoever owns the bus therefore excludes
whoever may pulse (`OwnInv`).  `ServiceInv`, `SyncInv` and `FallbackInv` tie the service
flags to where the cores are.

`REUProofs`: `TransferNeverNests` (`OneTransferAtATime`) and `BlockTransferImplemented`
(`ImplementsBlockTransfer`), under `UnitAssumption`.  The first needs that nothing is
armed while a transfer runs, so that a byte which lands on `$FF00` finds nothing to start.
The second is the refinement of `REUAbstract`: the bytes of a transfer are stutters,
because the abstract memories are those the transfer started from, and its end is the
abstract step.  The invariant says how far the loop has come: its locals are a function of
the bytes done (`LoopInv`), and by type (`DataInv`) a byte on the receiving side is old or
came with the last of the bytes done that go there, a swap has lost no byte and, unless it
laps, has put each where its counterpart was, and a verify has met no difference yet.  The
witness "last so far" is carried along by the loop, so no induction over the block is
needed; a swap uses that exchanging two cells leaves the count of every value (`Exchange`),
and that as many locations as bytes means no byte comes back (`NeverBack`).

`SuperCPUProofs`, the registers: `WindowsCorrect` (`WindowsFollowRegisters`),
`SpeedCorrect` (`ReportedSpeedIsPaced`) and `DecodersAgree` (`PathsAgree`).  The KERNAL
window follows the register gate (`KernalInv`) and the boot window the bootmap register
where a ROM is fitted (`BootInv`).  The pacer may be behind the registers only between
slices, with `speedChanged` set to say so (`PaceInv`): a reset changes the speed sources
without telling it.  The decoders are compared case by case of their early exits; the
assumptions say that addresses have 16 bits, SIMM sizes are those the code offers and a
128-mode machine has both halves of its ROM.

`SuperCPUProofs`, the frame: `MirrorYieldsToSerial` (`SerialUndisturbed`) and `NoTimeLost`
(`WorkRepaid`).  The first adds that from the look at the serial bus to the last byte of
a drain nothing lets the guest or the hook run.  The second adds that during the slices the
ticks used are the initial debt plus the ticks executed, and that a debt is made once,
after the slices, from zero; the arithmetic is that whole cycles rounded up exceed the
remaining ticks by less than a cycle.  It assumes that what one approach can run ahead
is less than a frame (`FrameAssumption`): an approach ends at the next
border, and `run()` overruns by an instruction.

`CpuProofs`, the run loop: `RatesCorrect` (`RateInStep`) and `NMIsPrompt` (`PromptNMI`).  Every
handler of the memory is shown to keep both factors at the effective one and to leave a
break request where it raises the synthetic level (`Breaks`); in a batch, a raised level
the processor has not seen comes with a sample still pending (`SampleInv`), so that only
the first instruction of a batch could meet one.

`CpuProofs`, the processor: `WidthsAlwaysFresh` (`WidthsFresh`), `FastPathIsTheSwitch`
(`FastPathAgrees`), `CallsReturn` (`ReturnsToCaller`) and `DecimalsRight`
(`DecimalArithmetic`), for every stream of encodings the opcode table has
(`StreamAssumption`) and every register file of the right widths (`StartsAssumption`).

* The invariant is `Good`: registers and memory have their widths, and what is cached is
  what `P`, `E` and `D` imply.  `WidthsFresh` alone is not inductive: it says nothing of
  the values that memory and the accumulator hand to an index register, to `P` or to the
  stack pointer.  A lemma per instruction group
  shows that it keeps `Good` (`ExecGood`), and under it one per operand, addressing mode
  and register write.
* The fast path skips writes and masks of the switch that change nothing in emulation
  mode: registers of 8 bits, a stack in page 1, an effective address already in its bank.
  Each fast operation is one of the switch's with those terms rewritten by `Good`
  (`FastIsGeneric`).
* A return pulls what the call pushed: successive bytes of a stack that may wrap in page 1
  or in bank 0 are at different addresses, so that each write is read back, and `applyE` and
  the width update of `RTI` restore what they restored before (`Refreshed`).
* Decimal arithmetic goes digit by digit.  One digit's sum and carry are the decimal ones
  (`AddDigit`, `SubDigit`), their composition is the decimal number's, and the carry of
  `SBC`, which the code takes from the binary difference, is the decimal borrow because
  the order of two BCD values is that of the numbers they stand for.

`BootProofs`: `MachineReturned` (`MachineGivenBack`), `RefreshHolds` (`C128Refreshed`),
`MapInForce` (`MapAgrees`), `WritesLand` (`OrdinaryWritesLand`) and `PointsChosen`
(`PointsCentred`).  The invariant follows
core 0's path: which lines are held where (`HoldInv`); where `$01` can be `$34`, who knows
of it, and that a running processor leaves that map by RESET before /DMA is let go
(`PortInv`); that the request to core 3 precedes the first transfer on a C128
(`RefreshInv`); which of the callers of the takeover has told the mirror (`AccessInv`); and
that the turnaround flag is set wherever a write may follow a read (`WireInv`).  The scans
are arbitrary: of `Eyes` only its type is assumed.  `PointsChosen` holds for any range,
step and grid, and of what the one-pass scans compute: a loop invariant says that the run
kept is a longest one so far and the run open the one that ends here, by induction over
the samples; the write grid's best point is one by induction over its cells.

`SentinelProofs`: `OraclesQuiet` (`QuietOracle`) and `VerdictsRight` (`DamageAttributed`).
The thirteen diagnostics are straight-line programs, and the proof annotates them as
such: in front of every step stands a phase, which says what may disturb the bus (`QuietRule`)
and what the maps taken so far know of the memory (`MapRule`): that no map is taken, that
the base map is the memory, that the damage is what distinguishes a map from it, that it
is in the report.  A path through the steps still to come (`Path`) leads from the
present phase to the one the verdict needs (`PhaseInv`); every step obeys its rule.
`CostInv` counts: a cell that was read wrong and is right has cost a fault.
`FaultAssumption` bounds the hardware: fewer faults in a diagnostic than the readings of
the BA guard (three), which take a verdict only if they agree, and no more than a prefill
has attempts.  With more, hardware that reads wrong three times in a row convinces any
code.

Induction over data is done with `NatLessThanWellFounded`: a set of naturals that is not
empty has a least element, so that a counterexample has a first one.

Checked by TLC only:

* liveness (`WaitsEnd`, `NotStranded`, `RequestHonoured`, `FrameEnds`,
  `ButtonReboots`): the prover does not treat fairness;
* `EmulationIs6502`: that two processors of a hundred mnemonics agree is a case analysis
  over every pair of handlers, of which the fast path's (`FastIsGeneric`) is a part.

## Not modelled

* Pixels, sprites and collisions of the renderer, the HDMI text and the menus: data.
* Nanosecond bus timing, GPIO tables, cache maintenance, the SID's POT filter: hardware.
* The cycle arithmetic of the line scheduler (phase permutation, deadline recovery) and
  the C128 window scan; the C128 refresh diagnostics, which
  `C128_REFRESH_DIAGNOSTIC_IMAGE = false` leaves out of the build.
* Host-clock pacing and keepalive, statistics, logging and report formatting.
* Undocumented 6502 encodings, which the code runs as no-ops of their length.
* REU transfers onto the unit's own registers, which re-enter `executeTransfer`
  without bound.
* Configuration parsing and file loading; the test double of the host bus.

## Plan

Next would be the line scheduler's arithmetic, as a module beside `C128Refresh`.
