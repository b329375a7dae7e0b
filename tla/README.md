# neser in TLA+

neser is a Nintendo Entertainment System emulator in Rust. It is one process with two
threads: the main thread runs the event loop and the whole emulated machine, cycle by
cycle; the SDL audio thread drains the samples the machine produces. Nothing is persisted,
so there is no crash recovery; the only concurrency is the audio channel. What is hard is
*time inside the machine*: a CPU, a PPU and an APU that advance in turn, interrupt each
other, and leave flags for each other that are read, cleared and reset at different moments.

Paths below are relative to the repository, whose crate lives in `src/`.

## Inventory

| Component | State | Operations | Interaction | Hard part | Correct when |
|---|---|---|---|---|---|
| System tick `nes.rs` | fractional PPU cycles, `ready_to_render` | `run_cpu_tick`, `reset`, `tick_ppu`, `tick_apu` | drives PPU and APU, then the CPU, each cycle; services NMI and IRQ; runs OAM DMA | edges that fall inside a DMA, another interrupt, a BRK; reset at any boundary | every NMI delivered once, IRQs masked and on time, cycle counters in step |
| CPU `cpu2/` | registers, current instruction, NMI/IRQ flags, poll delay, `halted`, `total_cycles` | `tick_cycle`, `trigger_nmi`, `trigger_irq`, `reset`, 256 decoded opcodes | reads and writes through the memory controller | cycle counts that result from two overlapping state machines, dummy accesses, composite opcodes; the one-instruction delay of CLI/SEI/PLP, BRK hijacking, KIL | each opcode takes its cycles, accesses its target and nothing else, computes what programs rely on |
| Memory controller `mem_controller.rs` | RAM, open bus, pending DMA page, joypads, mapper | `read`, `write`, `take_oam_dma_page`, `execute_oam_dma`, `map_cartridge` | CPU bus to PPU, APU, joypads, mapper | reads with side effects | each address reaches one device; the DMA is taken once |
| PPU status and timing `ppu/status.rs`, `ppu/timing.rs`, `ppu/ppu.rs` | VBlank flag, NMI latch, frame flag, scanline, pixel, odd-frame flag | `enter_vblank`, `exit_vblank`, `read_status`, `poll_nmi`, `write_control`, `tick` | CPU reads $2002 and writes $2000/$2001 at any dot | status read racing VBlank, odd-frame skip | one VBlank and at most one NMI a frame, frame length as documented |
| PPU address registers `ppu/registers.rs` | `v`, `t`, `x`, `w`, I/O bus and its decay | `write_scroll`, `write_address`, `inc_*`, `copy_*` | CPU writes, background fetch | shared write toggle, wraparound of scroll counters | counters wrap as documented, a frame renders the scroll last written |
| Sprites `ppu/sprites.rs` | OAM, secondary OAM, buffers, counts | evaluation, fetch, swap, `get_pixel` | driven per dot by the PPU | evaluation over 192 dots with the hardware's overflow bug, buffers across a reset | the first eight sprites on the line, in OAM order |
| Background `ppu/background.rs` | latches, shift registers | fetch, load, shift, `get_pixel` | driven per dot | eight-dot pipeline, two tiles prefetched; fine x acts at once | the tile at the scroll position is shown |
| PPU memory `ppu/memory.rs` | name tables, palette, mirroring mode | `read`/`write` of both, pattern accesses through the mapper, `reset` | `$2007`, background and sprite fetches | mirrored addresses, a mirroring mode copied once | a byte is read back where the board wires it |
| APU frame counter `apu/frame_counter.rs` | mode, inhibit, cycle counter, IRQ flag, delayed write | `write_register`, `clock`, `process_delayed_write`, `get/clear_irq_flag` | clocked by `Apu::clock`; $4017 and $4015 at any cycle | delayed write and jitter, three-cycle IRQ window, reset | no IRQ when inhibited, one half frame per period |
| APU channels `apu/pulse.rs`, `triangle.rs`, `noise.rs`, `dmc.rs` | timers, envelopes, sweeps, length and linear counters, DMC reader | register writes, `clock_*`, `$4015` | clocked by the frame counter and the APU cycle | halting while counting, DMC end of sample | silenced channels stay silent, DMC raises its IRQ once per sample |
| APU mixer and sampling `apu/apu.rs` | pending sample, accumulators | `clock`, `sample_ready`, `get_sample`, `read_status`, `reset` | drained by the event loop | samples overwritten when not drained | sample cadence |
| Audio output `audio.rs` | bounded channel of 22050 samples, volume | `queue_sample`, audio callback, `pause`, `resume` | producer: event loop; consumer: SDL thread | full and empty channel, concurrent volume | samples play in order, none twice, the machine never blocks |
| Event loop `eventloop.rs`, `main.rs` | paused, counters, frame limiter | `run`, key handling | calls `run_cpu_tick` until a frame is ready | pause, halt, reset and quit between frames | every frame shown once; input is served even when nothing is drawn |
| Joypad `input/joypad.rs` | strobe, index, buttons | `write_strobe`, `read`, `set_button` | $4016/$4017; event loop sets buttons | buttons change while the program shifts | a poll reads eight buttons in order, then ones |
| Cartridges `cartridge/nrom.rs`, `uxrom.rs`, `cnrom.rs`, `axrom.rs`, `mmc1.rs` | bank register; MMC1 shift register and four registers | `read_prg`, `write_prg`, `read_chr`, `write_chr`, `get_mirroring` | memory controller and PPU | serial writes interrupted by a reset write, bank numbers wider than the ROM, stale mirroring | banks inside the ROM, five writes per register |
| iNES loader `cartridge/cartridge.rs`, `mapper.rs` | none | `Cartridge::new`, `create_mapper` | feeds the mapper | header bits, trainer, sizes that do not match the file | every section of the file comes where the CPU and the PPU look for it |
| First CPU `cpu/` | as `cpu2/` | `run_opcode`, `tick_cycle` | none: compiled, but main runs `cpu2` | | a second implementation of the same processor, here the reference for the first |
| Screen buffer, palette, argument parsing | pixels | | | | pure data and I/O |

`cpu/` is an older generation of the CPU, complete and compiled; main runs `cpu2/` only, and of `cpu/` only
the opcode table is used, by `Nes::trace` (`nes.rs:351`). It is a second implementation of the same
processor by the same authors, and serves here as the reference that the first is compared with.
`ppu/ppu_modular.rs` and `ppu/rendering.rs::render_pixel` are an older generation of the PPU that nothing
calls. `lib.rs` declares a module `newcpu` whose directory is not there.

## Plan

Modelled and checked:

| Module | Part | Abstract counterpart | Proved |
|---|---|---|---|
| `NesTick` | interrupts, DMA and reset around `run_cpu_tick` | | `CpuProofs` |
| `FrameCounter`, `FrameCounterTimed` | the APU's schedule and its delayed writes | refines `FrameSequence` | `ApuProofs` |
| `Dmc` | the delta modulation channel | | `ApuProofs` |
| `Apu` | the two composed: both pull the CPU's IRQ line | | `ApuProofs` |
| `Channel` | pulses, triangle and noise: length, envelope, sweep, timer, output | | `ApuProofs` |
| `PpuFrame` | VBlank, NMI latch, status read, odd-frame skip, dot by dot | | `PpuFrameProofs` |
| `Sprites` | OAM, evaluation, pattern fetches, buffers, sprite 0, drawing | the definitions `Wanted`, `ScanFinds` | `SpritesProofs` |
| `Scroll` | `v`, `t`, `x`, `w`, the read buffer, background fetches and shift registers | the definitions `ColumnAt`, `RowAt` | `ScrollProofs` |
| `AudioPipe` | the sample path between the two threads | refines `LossyFifo` | `AudioPipeProofs` |
| `EventLoop`, `Joypad` | frames, pause, reset, halt, keys, the limiter; the controller and its polls | | `EventLoopProofs` |
| `Mmc1` | the serial mapper | | `CartridgesProofs` |
| `Cartridges` | loader, all five mappers, memory map, PPU memory, composed with `Mmc1` | | `CartridgesProofs` |
| `Bytes`, `Opcodes`, `CpuBus` | each opcode of `cpu2/` cycle by cycle on the bus | `FirstCpu` | `CpuProofs` |
| `Alu` | what the instruction types compute | `FirstAlu` | `CpuProofs` |

Left: `AccessesAsFirst` of `CpuBus`, the one safety property without a theorem (the section on what is proved says why).

Every module takes its positions and sizes as CONSTANTS under a named assumption, has one
action per operation, and states invariants as conjunctions of named parts, so that it can be
both checked on a scaled-down machine and proved about for the real one. A definition `X_Y` above
`X` is `X` with a plausible fault Y; PROJECT.json names the property that tells the two apart. Where
no constraint is named, the state space of a run is finite as it stands.

## NesTick: interrupts, DMA and reset

`NesTick.tla` models `Nes::run_cpu_tick` with the parts of `Cpu2`, the PPU's status flags and
the memory controller it touches. One action is one iteration of its loop (`Fetch`, `Execute`,
`BrkVector`, `Complete`, `Jammed`: PPU and APU advance a cycle, `poll_nmi` moves an edge into the
CPU, then `tick_cycle`), its tail (`Service`: NMI, IRQ, frame flag), its DMA branch (`OamDma`), or
`Nes::reset` (`Reset`). `pc` says where in the function the machine is. The program is arbitrary:
`Fetch(k)` picks the class of the next instruction, and the classes are what the interrupt
machinery can tell apart.

*Abstraction.* Time is in CPU cycles; `ppu.pos` is the number of cycles since the last VBlank, and a
frame is any number of cycles between `FrameMin` and `FrameMax`, which covers the odd-frame skip
and PAL's 3.2 dots per cycle. The APU is the level of its IRQ line, which may rise at any clock and
falls when the program reads $4015, and the parity of its cycle counter. Registers, stack and
addresses are left out: the properties do not tell their values apart. `ppu.owed` counts the
VBlanks raised with NMIs enabled and not yet delivered; `taken`, `last`, `iBefore`, `unmasked` and
`held` are history, read only by the properties.

*Runs.* `nes_tick` checks the invariants and action properties below on frames of 34 or 35
cycles with a VBlank of 12, a 3-cycle interrupt sequence, a 7-cycle DMA and instructions of 2 to 7
cycles. The bounds keep the order of the real lengths that `NesAssumption` states (a
DMA and a sequence fit in VBlank, three sequences and an instruction fit in the rest of the frame),
so each of the following happens in the run: VBlank inside a DMA, inside a BRK on either side of
its vector cycle, inside the NMI's and the IRQ's sequences; two VBlanks during consecutive DMAs; a
reset at every boundary. Nothing else is bounded: the state space is finite.

| Property | Says |
|---|---|
| `NmiExactlyOnce` | an NMI edge is never lost and never delivered twice |
| `CyclesInLockstep` | the parities of CPU and APU cycle counters stay opposite while the CPU runs |
| `IrqLatency` | an IRQ that finds I clear waits at most one instruction |
| `ResetMasksIrq` | a reset masks IRQs although `delay_interrupt_check` survives it |

What the model shows besides: the tail of `run_cpu_tick` services a pending NMI (`nes.rs:204`) and polls the
IRQ in the same call (`nes.rs:213`), and `should_poll_irq` looks neither at `in_interrupt_sequence` nor, while
the delay of CLI, SEI or PLP is active, at the I flag the NMI just set, so an IRQ can be serviced before the
first instruction of the NMI's handler, where `cpu2/cpu.rs:2145` says that one executes in between;
`in_interrupt_sequence` is only read by `poll_pending_interrupt`, which nothing but a test calls. A jammed CPU
services unmasked IRQs, although `instruction_types.rs:1037` says that it does not respond to interrupts; it
counts no cycles while the APU is clocked, so `CyclesInLockstep` needs `~halted`. A KIL fetched right after a
reset can be interrupted through the stale delay flag, so `ResetMasksIrq` needs it too. And the comment on
`run_cpu_tick` ("ticks the PPU after each complete CPU opcode", `nes.rs:129`) is older than its code, which
ticks in every cycle.

*Proofs.* `CpuProofs.tla` proves, for every value of the constants that satisfies
`NesAssumption`, all of these, `TypeOK`, and two more: `IrqOnlyUnmasked` (an IRQ obeys the I flag it must
look at) and `DmaEndsAligned` (a DMA ends on the same parity whichever it started on). The real
values satisfy it: NTSC has frames of about 29780 cycles with a VBlank of 2273, PAL 33247 and 7459;
`DmaBase` is 513, `IntCycles` 7. `NmiExactlyOnce` is not inductive: `NmiInv` adds where an edge can
be (`LatchInv`: in the latch only between two calls and at most a sequence old; `PendingInv`: in
the CPU only inside a call and at most a sequence and an instruction old) and from these ages
the assumption rules out both ways to lose one, the end of VBlank, which clears the latch, and the
next VBlank, which would merge with it. `IrqInv` adds to the two IRQ properties what the delay flag
remembers (`MaskInv`) and where an IRQ that was held back once can be (`LatencyInv`).

## FrameCounter: the APU's schedule

`FrameCounter.tla` models `FrameCounter` and the parts of `Apu` that drive it: `Clock` (one
`Apu::clock`), `WriteFrame` ($4017), `ReadStatus` ($4015) and `Reset`, in any order. A reset
is a function of the last write: `AfterReset` is `queue_delayed_write` followed by the nine clocks
of `Apu::reset`, computed with the same operators as a clock. Whether the CPU's cycle counter is
odd at the reset is a nondeterministic choice; nothing is bounded but `CounterMax`, the width of the counter.

`FrameSequence.tla` is the abstract specification: signals and IRQ as a function of the age of the
sequence, with `%` where the code wraps by hand; a reset starts a sequence and leaves mode and inhibit bit as they
are. `FrameCounterTimed.tla` adds that age as history and shows the refinement (`KeepsSchedule`). The age is
counted modulo a sequence once the first has passed, so nothing is cut off.

The model also shows that a reset leaves the counter at 5 or 6, the delayed write zeroing it in the
middle of the nine clocks, where `apu.rs:170` and `:191` speak of 9 to 12.

*Proofs.* `ApuProofs.tla` proves `TypeOK`, `InhibitSilences` (no frame IRQ stands while the last write inhibits
it, resets included), `ResetKeepsMode` (the write a reset repeats takes effect exactly once and brings the mode back)
and the refinement `KeepsSchedule`, for every schedule that satisfies `FrameAssumption`. The counter keeps in
step with the age (`Aged`, kept by `ClockAged` and `ResetAged`); the work of a reset is in
`AfterResetRuns`, which follows its nine clocks through the wait, the delayed write and the clocks after it
(`ClockedWaiting`, `ClockedDue`, `ClockedRunning`).

## Dmc: samples and their IRQ

`Dmc.tla` models the delta modulation channel: `ClockDmc` is `clock_timer` with the output unit and the
memory reader it may call, the other actions are $4010, $4013, $4015 and the reset. Sample
addresses, data and output level are left out (the code plays constant zeros); the sample buffer is
filled and emptied within one call. `target` and `fetched` remember the sample in progress.

*Proofs.* `ApuProofs.tla` proves `DmcTypeOK`, `IrqAfterEnd`, `SampleWhole` and `LoopHasNoGap` for every table of
periods, every set of lengths and every width. The first three are inductive together; the lemmas follow
the nesting of the code (`FetchedOne`, `CycledOnce`, `ClockedOnce`), and `SampleWhole` needs `DmcTypeOK` to know
that the length in the register is not 0 when a sample that has bytes restarts.

## Apu: the two that interrupt

`Apu.tla` clocks the frame counter and the delta channel together, as `Apu::clock` does. They share the
CPU's IRQ line and the register $4015, whose sides acknowledge one of them each: a read
the frame counter, a write the channel.

*Run.* `apu` checks the product on a sequence scaled down to 18 cycles, all of it reachable: every
restart, on either parity, followed through any number of sequences. The order of the cycles is that of the real
ones (`FrameAssumption`); the quarter frames start after `ResetClocks` = 9, as in the code. Periods are 0
and 1 and samples 1 and 2 bytes of 2 bits, with registers rewritten and the channel switched in every state: a
timer above the period it is given, and a sample whose length changes in its middle, both occur.
`CounterMax` is the width of the counter. Fairness is `WF(ClockApu)`: `run_cpu_tick` clocks the APU in every
cycle it runs; only `SignalsRecur` uses it.

| Property | Says |
|---|---|
| `KeepsSchedule` | every quarter frame, half frame and IRQ falls on the cycle that the last restart determines, in the mode last written, whatever resets come between |
| `SignalsRecur` | once the program leaves the frame counter alone, half frames and quarter frames come again and again |
| `IrqAfterEnd` | no IRQ stands while a sample is fetched or the channel's IRQs are disabled |
| `SampleWhole` | bytes fetched and bytes to come make up the length the sample started with |
| `LoopHasNoGap` | a loop never ends by itself; an end raises its IRQ exactly when enabled; the output falls silent only for want of bytes |

*Proofs.* The parts share nothing but the IRQ line, so `ApuInv` is the conjunction of what holds of each, and the
theorems above are stated of `ApuSpec`. All but `SignalsRecur` is proved.

## Channel: notes

`Channel.tla` models one pulse, the triangle or the noise, built of the units that the code repeats in
each: length counter, timer with sequencer, envelope, sweep, linear counter, shift register. `ClockChannel` is one
`Apu::clock` as the channel sees it, with the frame counter's signals and the parity of the cycle as inputs;
the other actions are the register writes, `$4015` and `Apu::reset`. The channels share nothing but those
inputs, so one stands for all and its kind is chosen at the start. Mixing and the debugging switches are left out.

*Run.* `channel`: periods of 0 to 5 of which those below 2 are muted, two levels, a sweep up in every second
half frame and one down in every one, one length, linear reloads of 0 and 1, a shift register of four
bits with its tap at 2. That is enough for a sweep to stop at either end, for a note to be halted in the middle, and
for the shift register to pass all its states. Fairness: each of the two signals and the timers' cycle comes again
and again. `run_cpu_tick` clocks the APU in every cycle; that both signals recur in either mode is `SignalsRecur`.

| Property | Says |
|---|---|
| `NoStaleNote` | a pulse or noise that is switched off holds no note that enabling it would resume |
| `NotesEnd` | left alone, a note that does not loop falls silent, one that loops starts its envelope again and again |
| `SweepSettles` | a sweep left alone settles on a period and never runs around, in either complement |
| `NoiseRecurs` | from whatever states switching modes leaves, the long mode returns to its first state |

*Proofs.* `ApuProofs.tla` proves `NoStaleNote`, the ranges of all counters, and that the level is one the mixer's
tables have (`OutputIsLevel`), for every table of lengths and periods and every width. That needs the range of the period
at each step of a sweep, either complement included. The three other properties are liveness and TLC's alone.

The model also shows: `Apu::reset` disables the triangle and keeps its counters, and `Triangle::output` looks at
the counters only, so a triangle sounds on after a reset while `triangle.rs:195` says that it is silenced; with
the control flag set it does so for ever, which is why `NotesEnd` asks for a clear one. The first pulse's target
wraps in 16 bits when a negated sweep has shift 0, which mutes every note. The triangle's timer is clocked every second cycle like
the others.

## PpuFrame: the beam and the flags

`PpuFrame.tla` models `Timing`, `Status` and the parts of `Ppu` that join them. `Dot` is one call of
`Ppu::tick` with everything it does to the flags; `WriteControl`, `WriteMask` and `ReadStatus` are
the program's accesses to $2000, $2001 and $2002; `PollNmi` and `PollFrame` are the two polls of
`run_cpu_tick`; `Reset` is `Nes::reset`. The pictures are left out: a rendered dot may set the sprite
flags or not.

*Abstraction.* The program accesses a register at most once in three dots (`gap`), the shortest
CPU cycle; how the cycles lie on the dots otherwise is left open, which covers both TV systems and
every alignment. `age`, `last`, `seen` and `polled` are history.

*Run.* `ppu_frame` checks frames of 6 lines (NTSC) and 7 (PAL) of 5 dots. The special dots are the
first two and last two of a line and the special lines are the pre-render line, the VBlank line
and the rest, all of which a frame of this size has; an access may fall on each of them. Fairness is
`WF(Dot)`: every iteration of `run_cpu_tick` ticks the PPU.

| Property | Says |
|---|---|
| `OncePerVBlank` | flag and latch stand in VBlank only; a VBlank is seen once by reads, except a read on the very dot that sets the flag, and brings at most one NMI, however $2000 is toggled |
| `FramesAlternate` | a frame is full or, on NTSC, one dot short, never short twice in a row |
| `FramesComplete` | frames go on completing with NMIs off and whatever the program does |

*Proofs.* `PpuFrameProofs.tla` proves `OncePerVBlank` and `FramesAlternate` for frames of every size.
`OncePerVBlank` counts reads; `ReadOnce` adds the read that a standing flag still allows. For the lengths, `AgeInv` ties the
dots since VBlank to the position of the beam, less one when the frame that ended since was the short one, and says when
the frame in progress is odd.

The model also shows that enabling NMIs in VBlank raises none until the next one:
`Status::trigger_nmi` ("used when NMI is enabled mid-VBlank", `status.rs:70`) has no caller.

## Sprites: what a line shows

`Sprites.tla` models OAM with OAMADDR, the evaluation with its two indices, the fetches, the buffers of two
lines, the pixel and sprite 0. `Dot` is `Ppu::tick` with all it does to them; the writes of $2000, $2001,
$2003 and $2004, a transfer of a page, and the reset come at any dot. `Painted` is the layer a dot writes to
the screen. A pattern is the address it is fetched from (`Row`, `Pattern`, with the bytes wrapping as in the
code), a sprite is one pixel wide, and clearing and fetching take one dot a slot; the colour, with
grayscale and emphasis, is data of the layer. `plan` and `due` remember what the line has to show by
definition (`Wanted`: the first sprites in range in OAM order; `ScanFinds`: the hardware's diagonal scan),
`home` and `intent` what OAM has to hold.

*Run.* `sprites`: 4 sprites for 2 slots, 4 visible lines, the 22 dots the evaluation needs at least
(`SpritesAssumption` holds of 64, 8 and 192). `MaxWrites` = 4 accesses and resets in a
behaviour, the first two where VBlank starts, to set the machine up, the others at any dot. The pages have more
sprites on a line than slots, a flipped sprite, one behind the background, one below the screen.

| Property | Says |
|---|---|
| `SpritesAsEvaluated` | after an undisturbed line the next shows, at every pixel, the first opaque of the first sprites in range, or the background that it is behind |
| `OverflowAsScanned` | the overflow flag is set exactly by what the diagonal scan meets, and the evaluation reaches the last sprite in its dots |
| `HitAsShown` | the hit flag is raised on exactly the dots where sprite 0 shows over the background, clipping and edges included |
| `OamIsPage` | OAM holds the page of the last transfer made outside of rendering with OAMADDR at 0, and fetching brings OAMADDR back there |

What else it shows: sprites are drawn although only the background is enabled (`ppu.rs:323`); line 0 shows
the sprites that the last visible line of the frame before prepared; the first swap after power on
only marks the buffers ready; a reset keeps both buffers. A line in which the height changes or rendering is turned on late may fetch a row outside its
sprite, where `7 - sprite_row` underflows; the properties promise nothing of such a line.

*Proofs.* `SpritesProofs.tla` proves the four properties and `TypeOK` for any number of sprites, slots and lines that
satisfies `SpritesAssumption`. The evaluation is followed dot by dot: the sprites in range that it has passed
are counted by their rank (`RankStep`, `RankInjective`), secondary OAM holds those whose rank is below the number found
(`Kept`, `Taking`), the diagonal scan is where `ScanFinds` puts it (`Scanning`), and it is never so late that the last
sprite is missed (`InTime`, for which the assumption counts the dots). `Planned` joins these, `Shows` says the same of
the buffers once they are swapped, and `Lowered` that the hit flag is down when a picture starts. The attempt to
prove `HitAsShown` found a premise it lacked: the test for sprite 0 compares the line with the y that OAM has when the dot is
drawn, so a program that moves sprite 0 after the evaluation is promised nothing (`due.y`).

## Scroll: addresses and background

`Scroll.tla` models `v`, `t`, `x`, `w`, the buffer of $2007, and the background pipeline: latches, shift
registers, the pixel. A name or pattern byte is the address it was fetched from, so a pixel says which row and
column of which tile it is. `Dot` is `Ppu::tick`; the program's accesses to $2000, $2001, $2002, $2005, $2006
and $2007 and the reset come between the dots. `hor` and `ver` remember the scroll position that a line and a
picture started from; `writes` and `run` the writes since $2002 was read and the reads since $2006 was written.

*Run.* `scroll`: name tables of 2 by 2 tiles of two lines with two rows behind them (as 30 of 32), four visible lines of two tiles,
tiles 8 dots wide as in the code. `MaxAccesses` = 4, the first `Setup` = 3 where VBlank starts (a pair needs
two, the mixed sequence four), the others where a CPU cycle of three dots puts them, a dot later on each line.
`LowRows`, `Block` and `Idle` scale the second byte of an address (8 rows), the block that shares a palette
(4 tiles) and the lines below the picture (21, on PAL 71).

| Property | Says |
|---|---|
| `PixelsScrolled` | every pixel of an undisturbed line shows tile, row, column and palette at the scroll position, over wraps into the next table, with writes to `t` at any time |
| `ReadsInOrder` | outside of rendering, reads of $2007 return the bytes from the address on, one read late, palette entries at once |
| `PairLands` | after a read of $2002 both halves of a scroll position, of an address, and of $2006-$2005-$2005-$2006 arrive where they belong |

A program that scrolls to a row behind the last one sees it to its end and then the same name table again
(`RowAt`): the code keeps this behaviour of the hardware. `v` has a bit more than an address: a write to
$2005 between the halves of an address sets the topmost bit of its fine y, which the first half had cleared, and `v` is then
`Beyond` the memory until the next address.

*Proofs.* `ScrollProofs.tla` proves `ScrollTypeOK` and the three properties for every size that
`ScrollAssumption` allows, the real one among them. `PixelsScrolled` looks at one dot and depends on all since the line
before; its invariant `Scrolling` says where everything on the way from `v` to the pixel is: the column of `v` is the tiles passed
on from the start of the line (`ColumnKept`), its row the line of the picture (`RowKept`, over the end of a
line, where the code increments the row and copies the columns on successive dots), each latch has what its dot fetched (`LatchKept`), and
the shift registers hold a strip of tiles that moves by one in every dot (`StreamKept`). TLC checked it on the run's instance first.
`PairLands` needs what the first write of a pair leaves in `t` (`Halfway`), `ReadsInOrder` where the reads have brought `v`
and what they left in the buffer (`Reading`). Half of the module is arithmetic of quotients and remainders, since an
address is a number to the program and fields to the picture.

## AudioPipe: from the APU to the audio thread

`AudioPipe.tla` is the one place with two threads. The main thread runs a tick (`StartTick`, `Clock`
once a cycle, `EndTick`), then drains (`Drain`: `sample_ready`, `get_sample`; `Send`: `queue_sample`,
whose `try_send` drops the sample when the channel is full). `Callback` is one slot of the SDL
callback's output, at any time. `Reset` falls between two ticks. Samples are numbered, and volume is
left out.

`LossyFifo.tla` is what the path promises: samples come out in order, at most once, and only the
newest can be replaced or dropped. The refinement mapping strings channel, hand and slot together.

*Run.* `audio_pipe`: a channel of 2, a sample every 3 or 4 cycles of 2 units, ticks shorter than a
sample (`AudioAssumption`, as 40.6 cycles a sample against at most 22 of an instruction with two
interrupts) and a DMA of almost three samples (the code's 513 cycles make more than twelve).
`MaxSamples` = 6 bounds the numbering: three times what the channel holds, so it runs full and empty
in every order. Fairness is `WF(Main)` only: the audio thread may stop for good.

| Property | Says |
|---|---|
| `LosesNewestOnly` | the path refines `LossyFifo` |
| `SlotSuffices` | only a DMA overwrites samples in the APU's slot, fewer than it lasts; it is empty between ticks |
| `NeverWaits` | a stopped audio thread never blocks the machine |

*Proofs.* `AudioPipeProofs.tla` proves `SlotSuffices` and the refinement `LosesNewestOnly` for every rate, length of a
tick and capacity that satisfies `AudioAssumption`. `Balanced` keeps the books of a tick: what is in the accumulator
and in the samples mixed was there before or has been spent since, so that a tick is too short for a second sample. `OneAtATime`
says that slot and hand are not full at once, which makes the refinement mapping a sequence without gaps; each
action is then a step of the queue or none. `NeverWaits` is liveness and TLC's alone.

What the model shows besides: each OAM transfer, that is once a frame in most games, loses all but
one of its samples, as the slot holds one and `run_cpu_tick` transfers a whole page in a call.

## EventLoop and Joypad: frames, time and keys

`EventLoop.tla` models `EventLoop::run` with the machine as the loop sees it, a ready flag and a halted
flag. One action is one event (`Quit`, `Space`, `Reset`, `Key`), the end of polling, one tick, the end of the
frame's emulation, its presentation, or the limiter; `TickHeadless` is the branch without a window.
Time passes in `Show` (the work of a frame, any member of `Work`), `Limit` and the nap of a paused
iteration, and is cut at `Longest`, the largest value anything is compared with.

`Joypad.tla` is the controller: held buttons, an index that reads advance, the strobe. It is among the variables
of `EventLoop`, whose keys change it between two frames while the program, in any tick, writes $4016 or reads it
(`Program`). `poll` remembers the states each button was in since the strobe fell and what was read. The second
controller is strobed with the first and nothing presses its buttons.

*Run.* `event_loop`: with a window and without; target 5, work below, near and above it; two buttons, of
which a poll is cut by any number of key events. Fairness: the loop's own steps are weakly
fair; `SF(CompletesFrame)` states that a machine that is ticked over and over completes a frame,
which is `FramesComplete` of `PpuFrame`. Ticks themselves have no other fairness.

| Property | Says |
|---|---|
| `ShownOnce` | each completed frame is shown once before the next is begun, over pauses, resets and halts |
| `PairsOnTime` | two successive frames take no less than one target |
| `PolledInOrder` | a poll returns a bit for each button in order, each a state that button was in since the strobe fell, and then ones |
| `Responsive` | events are polled again and again, although the emulation in between has no bound of its own |

*Proofs.* `EventLoopProofs.tla` proves `ShownOnce`, `PolledInOrder` and `PairsOnTime` for every target, every set of
working times and every number of buttons. `Showing` says where a ready frame may be; `Polling` that the index counts the bits
read, and that what a button is now is among what it was; `Timed` that whenever a frame may be shown, the time since
the last one makes up with the gap before it for a target. `Responsive` is liveness and TLC's alone.

One frame alone may take less than a target: `last_frame_time` is set before the sleep
(`eventloop.rs:367`), so the sleep is charged to the next frame, which then does not sleep; with little
work the machine runs at nearly twice the target rate. `PairsOnTime` is what remains true. The target is that of 60 frames a
second on PAL too.

A poll that a frame's end cuts in two returns a mixture of two states, as buttons are read live and not
latched. Reading while the strobe is high returns the button at the current index, not always the first,
and the index returns to 0 only when the strobe falls.

## Mmc1: the serial cartridge

`Mmc1.tla` models the mapper at its real widths: `WriteBit` is a write with bit 7 clear to one of the four
register ranges, `WriteReset` one with bit 7 set. A read is the bank that it falls into, as a
function of the registers and the ROM's size (`PrgRead`, `ChrRead`). `ppu` is the mirroring mode that
`map_cartridge` handed to the PPU. ROM contents and program RAM are data. `sent` and `steered` are history.

*Run.* The safety properties are checked in the run of `Cartridges`, which composes the mapper with the loader
and the memory map. The system reset does not reach the mapper, so it is no action here.

| Property | Says |
|---|---|
| `LoadsWord` | a register gets the five bits sent since the last value or reset, lowest first, and nothing else changes one |
| `UpperIsLast` | from power on or a reset write until the control register is loaded, the vectors are in the last bank |
| `ReadsInside` | every read falls inside the ROM in every mode |

*Proofs.* `CartridgesProofs.tla` proves these of the composed machine, `TypeOK`, and `KeepsControl` (a reset write disturbs
neither mirroring nor character banks), for every number of loads and every ROM of at least two banks.
`LoadsWord` is not inductive: `SerialInv` says that the shift register holds the bits sent so far in its
upper places; `BitJoins` and `FifthBit` are the arithmetic of a
step. `SteeredInv` ties the mode to the history for `UpperIsLast`. A ROM of a single bank, which the
assumption excludes, is read past its end in the 32K modes.

## Cartridges: from the file to the buses

`Cartridges.tla` models the loader (`Cartridge::new`, `create_mapper`), NROM, UxROM, CNROM and AxROM with
their one register, the part of the memory controller and of the PPU's memory that carries an access to
them, and extends `Mmc1`. A read of ROM is the bank it reads (`ReadCart`), so that the file's sections, banks and
addresses meet in one formula; of RAM it matters which cell an address reaches, and `cells` holds those
that were written, `stored` the places the board's wiring makes of them. `ResetNes` is what `Nes::reset` does:
it clears the PPU's memory, and neither mapper nor mirroring hear of it.

*Run.* `cartridges` takes images of every mapper, of every mirroring and of every size the mappers tell apart, with and
without a trainer, some a byte short or too long, and a mapper that does not exist. Written addresses lie on both sides of each boundary of the map.
`MaxStores` = 1 place at a time (each place is checked against all of the others) and `MaxLoads` = 2 values
of the MMC1, as its banks depend on two registers at a time.

| Property | Says |
|---|---|
| `ImageAsWired` | reads fall into the section of the file that holds the program or the patterns; fixed halves have the last bank; every bank can be reached |
| `CellsAsWired` | a byte written through one address is read through exactly the addresses the board wires to it; what a reset forgets and what not. Name tables: NROM, UxROM and CNROM, as the header says; palette and RAM: every board |
| `LoadsWord`, `UpperIsLast`, `ReadsInside` | those of `Mmc1`, in the composed machine |

*Proofs.* `CartridgesProofs.tla` proves both for every set of images of real boards (`BoardsAssumption`: sizes that the
mapper's board has), with and without trainer and program RAM, whatever the length of the file, every address and every byte.
`CellsAsWired` is inductive once it is known that the board stays (`Board`) and that the tables and palette entries that the
wiring keeps apart are apart in the code (`TablesApart`, `ColoursApart`). `WiredTable` is the board's wiring, which for MMC1
follows the control register and for AxROM bit 4 of the register. Of these two the name-table part is false, so it is claimed of the
others only (`FixedTables`), and a finding stands in its place.
For `ImageAsWired`, `Sections` does the arithmetic of the file, and `BankInside` and `BankReached` say of each mapper that its banks are in the ROM and none is out of reach.

`mirroring` finds a code bug: nothing but `map_cartridge` passes the mirroring on to the PPU (`mem_controller.rs:53`), so that
what an MMC1 program draws after it switched its name tables shows in the wrong ones (`MirroringFollows`). The run has one image, one value to load and
two stores. AxROM, whose documentation promises two screens (`axrom.rs:17,22`), violates it in two steps: its `get_mirroring` does not tell
them apart (`axrom.rs:111`) and the PPU has one (`ppu/memory.rs:123`).

What else it shows: the register of UxROM is not masked, and a bank that is not there reads as zeros; the loader accepts a program of no banks, by
whose number the first read of NROM or CNROM divides (left out of the images).

## CpuBus: every opcode, cycle by cycle

`Cpu2::tick_cycle` decodes an opcode into an addressing mode and an instruction type and ticks the two,
the first tick of the type in the same cycle as the last of the mode (`InstructionTicks`). `Opcodes.tla`
holds the decoder, a row for each high digit, and the lengths and cycle counts of `cpu/opcode.rs`.
`CpuBus.tla` has an operator for each mode and each type that accesses the bus; `FetchOpcode` is the first cycle
of an opcode, `Tick` any later one, `Nmi` and `Irq` the five accesses of each, `ResetCpu` those of
`Cpu2::reset`, which may drop an instruction. `trace` is the history of accesses, cycle by cycle.

`FirstCpu.tla` is the reference: `run_opcode` of the older CPU, which executes an opcode at once, arm by arm,
and `tick_cycle`, which counts its cycles off. It takes what an instruction has found (registers and the
bytes it read) and says which cycles it takes, which accesses it makes and where it goes on.

*Abstraction.* Memory and the registers that only feed the ALU are left out: a read returns any byte, an
index or mask register holds any of `Indices`, a branch is taken or not. The dot a cycle has in the frame
is that of `PpuFrame`, the I flag that of `NesTick`.

*Run.* `cpu_bus` runs all 256 opcodes with bytes of four values, so that there are pages beyond
zero page and stack, offsets of both signs, and an index that crosses a page or wraps around.
Instructions lie at two addresses: one is followed by its operands in its own page, one by operands in the
next. Vectors point there. When control leaves these addresses the run stops, so deadlock is not checked.

| Property | Says |
|---|---|
| `CyclesAsFirst` | an opcode takes the cycles of the first CPU: no count is written down in the new one |
| `NextAsFirst` | control goes on where the first CPU goes on, with the stack it leaves, and the same opcodes halt |
| `AccessesAsFirst` | above the zero page an opcode makes the accesses of the first CPU in their order, dummy reads of wrong pages included, one a cycle, and accesses its target in the last cycle |

The two differ, and the properties name each difference (`Expected`, `Rewritten`, `Unstable`): of all but BRK and the
branches the first CPU reads the opcode twice, `tick_cycle` to look it up (`cpu/cpu.rs:2019`) and `run_opcode` again
(`cpu/cpu.rs:168`), and the new one once; ROR and RRA read
their target twice in one cycle; TOP reads its absolute target; PHA, PLA and PLP make a dummy read more and BRK one less;
JSR reads its operand in another order; XAS and AXA across a page take different pages; a BRK that an IRQ takes over
reads and writes its status byte again. Accesses to the zero page are not compared: the cycle that adds an index there
uses no bus in the new CPU, although the comment on the mode has a dummy read there (`addressing.rs:255`).
When an NMI takes a BRK over is decided at different moments, so the reference is told whether it did. Left out of
the first CPU are its reset, its interrupts and its delayed I flag.

Where the two agree a comment may still say otherwise: an opcode without operand is said to read the byte behind it while it executes
(`addressing.rs:39`, `cpu2/cpu.rs:3163`), but the implied mode is done before it is ticked (`addressing.rs:47`, `instruction.rs:46`),
so that its read is never made. The first CPU makes none either, and `AccessesAsFirst` says so of both.

*Proofs.* `CpuProofs.tla` proves `CyclesAsFirst` and `NextAsFirst` for every program, every content of memory, every
set of addresses and indices, and bytes of two to eight bits. Neither is inductive: a count or a pc at the end of an instruction is the sum of what
two state machines did in up to eight cycles. The invariant, `BusInv`, says after every cycle where the two are:

- `Elapsed`: the cycles in the trace are those of the mode and those of the type, less the one they share.
- `InMode`: the mode is at one of the ticks it has (`ModeCycles`), and the base, the target and the page crossing are what the trace's reads
  make of them (`Located`).
- `Started`, `Effect`: the type is at one of its ticks (`TypeCycles`), and pc and the stack pointer are what
  it has made of them by then, starting behind the operand bytes the mode has read (`Behind`); `RtsEffect`, `BrkEffect` and the like name the reads the new pc comes from.
- An instruction is busy until mode and type are done, and halted exactly if it is a KIL.

`ModeTicks` shows the step for a mode from a lemma for each mode, `TickKeeps` that for a type, and `BusInvariant` that every action
keeps it. `OpcodesAgree` compares the two decoders and the table of cycles, opcode by opcode, a row of sixteen at a
time; it yields that the cycles of mode and type add up to the table's (`CyclesAre`). What is left is the first CPU's side, by kind
of arm: `RunIs` says which arm runs, and `PlainGoes`, `JumpGoes` and those after them that it goes where `Effect` says. The arms of a CASE in
`Bytes` and in `OperandRead` exclude each other, as TLA+ leaves open which of two that hold is taken.

## Alu: what programs rely on

`Alu.tla` has an operator for each instruction type that computes, on registers, flags and the one byte
its mode found. `AluNext` is any of them, or another byte: programs of every kind. `FirstAlu.tla` has the helpers
of the first CPU and the arms that compute without one; the two share no operator but those on bits.

*Run.* `alu` takes bytes of three bits, all states and all operands; `Bit`, carry and
overflow sit at the top of a byte of any width. The D flag (which nothing reads) and the packing of P are left out; the
stack pointer is in `CpuBus`.

| Property | Says |
|---|---|
| `WideArithmetic` | two-byte sums, differences, comparisons (unsigned by C, signed by N and V) and shifts made of one-byte instructions are right |
| `ComputesAsFirst` | every type computes what the first CPU computes, undocumented ones, flags and branches included |

XAA is the exception: the two mix different constants into its accumulator.

*Proofs.* `CpuProofs.tla` proves `AluTypeOK` and both properties for bytes of every width from two bits
to eight (`SizeAssumption`). The bit operators of `Bytes` are sums over the digits of a byte; `DigitsFacts` says that
the digits determine it and that the highest one is its sign, `BitsOf` what bits of a result are, and `AndAll`,
`XorFacts` and `OrFacts` follow. For `WideArithmetic`, one ADC or SBC is a sum of one bit more; a pair of
them adds or subtracts words and orders them (`WordSum`, `WordDifference`), the signs of the operands
decide overflow (`SumSign`), and shifts carry a bit across (`ShiftsWide`, `RotatesBack`). For
`ComputesAsFirst`, the types are grouped as `FirstAlu` is, one `First...` lemma each; SLO, RLA, SRE, RRA, DCP
and ISB are compositions of two others (`Compositions`).

## What is proved, what is checked

Proved by TLAPS, from the named assumptions on the constants and nothing else: each safety property and each action
property that a run checks, but for `AccessesAsFirst`; both refinements, step by step (`KeepsSchedule` of
`FrameSequence`, `LosesNewestOnly` of `LossyFifo`); and the type invariants, which no run needs to check. The argument is
the same everywhere: an inductive invariant (`Inv`, `IInv`, `ApuInv`, `BusInv`), one lemma for each action that it
survives, and the property as a consequence of it. The assumptions are as weak as the code allows and hold of the real
machine's numbers; each module's section names them. The runs check the same formulas on instances in which the
interesting cases happen, so that a proof is not about a machine that never moves.

Only model-checked:

- Liveness (`FramesComplete`, `SignalsRecur`, `NotesEnd`, `SweepSettles`, `NoiseRecurs`, `NeverWaits`, `Responsive`),
  which depends on fairness and so is out of the prover's reach.
- `AccessesAsFirst` of `CpuBus`: it filters and flattens the accesses of a whole instruction, and what the recursive
  definitions behind `SelectSeq` and `FlattenSeq` compute is shown by induction over data, which is out of reach too. `BusInv` has the
  bytes read and the number of cycles, but not the whole list of accesses.

The models are composed where the code shares state: `Apu` joins the frame counter and the delta channel,
`Cartridges` the loader, mappers and memories, `EventLoop` the loop and the controller, and
`NesTick` has the PPU's latch, the APU's IRQ line and the CPU in one state. The rest meet at what one shows and
the other takes as given: `NesTick` and `PpuFrame` describe the VBlank and the latch at different grains, a cycle
and a dot; `EventLoop` assumes of the machine what `PpuFrame` shows (`FramesComplete`), `Channel` of the frame
counter what `Apu` shows (`SignalsRecur`).

## Not modelled

PROJECT.json lists every component with the reason. In short:

- `ppu/ppu_modular.rs` and `Rendering::render_pixel`, an older PPU that nothing runs; the first CPU's reset,
  interrupts and delayed I flag, which repeat the new one's.
- Registers decoded in `mem_controller.rs`, the CPU's open bus, and the I/O bus of the PPU with the decay of
  each of its bits (`registers.rs:95`): pure tables and functions of time.
- Colours, grayscale, emphasis, the screen array, the mixer's tables, volume and resampling: data.
- Two accesses that a read-modify-write instruction makes to an MMC1 register both shift a bit in;
  `CpuBus` makes the two writes and `Mmc1` takes each, but they are not composed.
- The floating-point remainder of PAL's 3.2 dots a cycle (`nes.rs:240`; `PpuFrame` leaves open how cycles lie on
  dots), and the sample rate on PAL, where `cycles_per_sample` stays NTSC's (`apu.rs:103`) and the device underruns.
- Windows, textures, argument parsing, reading files, the test harness.
