# A TLA+ model of fmrb-audio-tools

fmrb-audio-tools turns NES music (NSF files) into FMSQ, a compact command stream for the NES
sound chip (the APU), and plays both. This directory holds TLA+ modules translated from the C and
C++ sources, the TLC configurations that check them, and TLAPS proofs. Paths are relative to
`src/`.

## 1. The system

```
 NSF file ─> game-music-emu (nsf2fmsq/gme)         NSF file ─> 6502emu_sdl2_player
             Music_Emu ─ Classic_Emu ─ Nsf_Emu                 nsf_player ─ nes_cpu ──┐
                                          │ markers, writes                           │ writes
                                     Apu_Logger                                       v
                                          │ log                                      APU
                          nsf2fmsq.cpp, fmsq_writer.cpp                                ^
                                          │ .fmsq file                                │ writes
                                          └────────> sdl2_simple_player: fmsq_player ─┘
```

| component | state it keeps | operations | what makes it correct |
|---|---|---|---|
| FMSQ player, `sdl2_simple_player/fmsq_player.c` | data, pc, wait, playing, looped, frames; a static copy of $4015 | load, free, reset, tick | any stream, cut off or malformed, is interpreted to an end; the verdict of a tick is right; nothing runs without data |
| Converter, `nsf2fmsq/src/nsf2fmsq.cpp` | the log's position, pending WAIT, stream, frame count | record, emit INIT, a frame, the end | every write is replayed in the tick of the PLAY call it belongs to |
| File writer, `fmsq_writer.cpp` | the file | write | a file is whole or refused |
| APU logger, `gme/Apu_Logger.cpp` | entries, frame, start of frame, limit, enabled | a call per event, save, load | a write is filed under its frame; a log survives its file |
| NSF emulator, `gme/Nsf_Emu.cpp` | CPU, saved CPU, next_play, play_extra, play_ready | start_track_, run_clocks | PLAY is on time, does not drift, preempts INIT and nothing else; the log is well formed |
| Output stream, `gme/Music_Emu.cpp` | out_time, emu_time, silence, buffer, ended flags, fade | start_track, play, skip, seek, set_fade | samples are neither lost nor repeated; sound is not taken for silence; calls return |
| 6502 NSF player, `6502emu_sdl2_player/src` | CPU, 64 KB of memory, ROM, playing | load, start, tick, free | each call of the tune returns to the player; stack and banks are usable by the next call |
| 6502 core of game-music-emu, `gme/Nes_Cpu.cpp` | registers, lazy flags, clock below a moving base | every opcode, run, end of a run | it is the same machine as the other player's core, in registers, memory, writes and clocks |
| NES APU, `gme/Nes_Apu.cpp`, `Nes_Oscs.cpp` | registers, sequencer, envelopes, sweeps, lengths, phases, the DMC's reader; all shifted back at each end of a frame | write, read status, run until, end frame, tempo, count DMC reads | lazy emulation and frames have no effect; predictions of reads and interrupts come true |
| Buffer loop, `gme/Classic_Emu.cpp`, with `Blip_Buffer.cpp`, `Effects_Buffer.cpp` | buffers in resampled time, voices' buffers, mute mask, effects | play_, mute, effects | time and samples agree, a frame has room, nothing heard is skipped, the loop ends |
| File loading, `gme/Gme_File.cpp`, `Nsf_Emu.cpp` 1–560, `Classic_Emu` Rom_Data | ROM, chips, voices, banks, tracks | open, load, fail, reload, delete, start | a failed load leaves nothing; banks lie in the ROM; voices follow the chips |
| Playlists, `gme/M3u_Playlist.cpp` | entries, track remapping | load, clear, start by entry | a track that starts exists |
| Expansion chips' synthesis, resamplers, readers, text | – | – | not modelled, see section 7 |

What is hard in it. The tools are sequential but for the SDL audio thread, so the difficulty is
in *sequences*: a tick that is one C call and dozens of commands; an emulator that runs ahead of
its listener; an INIT that does not return and is preempted by PLAY; a period that is no whole
number of clocks, cut by buffers that are no whole number of periods; two encodings of time (log
frames and WAITs) that must agree after a run of any length; a CPU with lazy flags and a clock
that is negative; a sound chip that is emulated only when somebody asks, and predicts when it will
interrupt; a file that replaces another one half-way; files cut short; calls of the API in orders
no test has. `PROJECT.json` lists each such place at its line under `hazards`.

## 2. The modules

| module | models | lines of code translated |
|---|---|---|
| `FmsqFormat` | the opcodes and registers, as arithmetic on bytes | `nsf2fmsq/src/fmsq_format.h` |
| `FmsqPlayer` | load, free, reset, tick | `fmsq_player.c` |
| `ApuLog` | abstract: what a recording's log may look like | what `Nsf_Emu.cpp` does with the logger |
| `FmsqConvert` | recording to stream to file | `nsf2fmsq.cpp`, `fmsq_writer.cpp` |
| `FrameReplay` | abstract: the k-th tick replays the k-th PLAY call | – |
| `FmsqPipeline` | composes `FmsqConvert` and `FmsqPlayer` as the two programs do | `nsf2fmsq/src/main.cpp`, `sdl2_simple_player/main.c` |
| `ApuLogger` | the logger, its limit and its file | `Apu_Logger.cpp` |
| `NsfCapture` | extends `ApuLogger`: the emulator that feeds it | `Nsf_Emu.cpp` 600–720 |
| `MusicStream` | start_track, play, skip, fade, silence | `Music_Emu.cpp` |
| `NsfPlayer6502` | the second player, and of its 6502 what matters to its stack and banks | `nsf_player.c`, `nes_cpu.c` |
| `Memory6502` | bytes, flags, memory of both CPU cores | `nes_cpu.c`, `Nes_Cpu.cpp` |
| `GmeCpu` | one turn of `Nes_Cpu::run`, and a run's ends | `Nes_Cpu.cpp`, `Nes_Cpu.h` |
| `NsfPlayerCpu` | `nes_cpu_step` | `nes_cpu.c` |
| `CpuLockstep` | composes the two cores on one tune | – |
| `NesApu` | the sound chip, as operations on a record | `Nes_Apu.cpp`, `Nes_Oscs.cpp` |
| `ApuFrames` | the chip under its caller, cut into frames and not | `Nsf_Emu.cpp`, `Nes_Apu.h` |
| `RomData` | the padded, masked ROM and its addresses | `Classic_Emu.h`, `Classic_Emu.cpp` |
| `M3uPlaylist` | parsing lines to entries | `M3u_Playlist.cpp` |
| `BlipBuffers` | sample buffers in time; the mixers of the effects buffer | `Blip_Buffer.cpp`, `Multi_Buffer.cpp`, `Effects_Buffer.cpp` |
| `GmeEmu` | composes the last three: load, start, mute, effects, play | `gme.cpp`, `Gme_File.cpp`, `Nsf_Emu.cpp`, `Classic_Emu.cpp` |
| `FmsqPlayerProofs`, `FmsqPipelineProofs`, `NsfCaptureProofs`, `GmeEmuProofs`, `ApuFramesProofs`, `CpuLockstepProofs` | theorems about the module named (`NsfCaptureProofs`: and about `ApuLogger`) | – |
| `NsfPlayersProofs` | theorems about `MusicStream` and `NsfPlayer6502`, what plays an NSF in the two players | – |
| `NoEffectProofs` | the theorem about `ApuFrames` that time frames have no effect | – |
| `MC*` | values and bounds for TLC | – |

How state and actions correspond to the code:

* **FmsqPlayer.** The variables are the fields of `fmsq_player_t`; `status` is the `static` of
  `fmsq_player_tick`. A tick is `TickStopped`, `TickWaiting` or `TickCommands` followed by one
  action per command (`DoWait`, `DoEnd`, `DoLoop`, `DoRegWrite`, `DoDpcm…`, `DoNote…`,
  `DoParam`, `DoUnknown`), and `CutOff` for the loop condition that fails after a truncated
  command. The APU is external: `out` holds the register writes of a step and `apuStatus` what
  $4015 holds. As in `read_byte`, an operand beyond the end reads as END and stops the player,
  yet the command still runs with what it read. Whatever the tests of the switch let through is a
  channel command, as in the code.
* **FmsqConvert.** `log` is the logger's content. `EmitInit`, `EmitFrame`, `EmitEnd` are the
  parts of the conversion loop, whose writes are those `WritesAt` a set of positions of the log;
  `Waits` is `emit_wait`. `WriteFile` may produce no file, the
  whole file or any prefix of it. Header fields are modulo `FieldMod` (2^16).
* **NsfCapture.** `where` is what the program counter points into (INIT, PLAY, or the sentinel
  `badop_addr`), `saved_state` the preempted routine. `run_clocks` is `StartBuffer`, then its
  loop (`Instruction`, `Illegal`, `Resume`, `Idle`, `PlayDue`) and `EndBuffer`. An instruction takes
  1..MaxCost clocks, so it may overrun the end of a run as the real CPU does. `Illegal` is the branch
  for what is no instruction: unmapped memory reads as opcode $F2, which takes no clocks, and the
  program counter is moved on by one. What ends such turns is that it has 16 bits and comes to the
  sentinel; `slide` counts them, at most `MaxSlide` (65536 in the code) in a row. `base`, `periods`
  and `frame_clock` are history, for the properties.
* **ApuLogger.** An operation per call, each with the enabled flag and the limit. A track starts with `StartInit`,
  the two calls the emulator makes in a row: `reset_frame_counter`, then `log_init_start`; entries
  of the track before stay, so the frame of a write is not that of the last marker but of the
  routine started last.
* **MusicStream.** A call is split where it runs the emulator; `at` is the place. Of the samples
  generated the model keeps how many are silent at the end, from which `CountSilence` makes what
  `count_silence` returns: it puts a sentinel over the first sample and counts down to it, so the result is
  one sample more than the tail, and the whole chunk when only the first sample has sound. `loud_end`,
  the end of the latest sound but for such a first sample, is history. `EmuMayEnd` lets the core end or fail at any chunk.
* **NsfPlayer6502.** `Start` and `Tick` go as far as `nes_cpu_jsr`'s call of `nes_cpu_run`;
  then instructions follow one by one until `Returns`. The tune is the environment: it works,
  calls, returns, pushes, pulls, selects banks, stores over its pages, runs into a BRK, or
  does none of this for ever. Assumed of it: it pulls only what it pushed and needs no more stack
  than there is (`Len(own) <= StackSize`). Memory is seen in half banks so that a ROM that ends within a bank
  differs from one that does not. `own` (the bytes the call
  in progress has on the stack) and `cut` are history.
* **GmeCpu, NsfPlayerCpu, CpuLockstep.** Each core is a record, and an operator takes it over one
  instruction: `GmeStep` for a turn of `run`'s loop, with its copies of the registers, `nz` and `c`
  for the lazy flags and the negative `s_time`; `NesCpuStep` for a case of `nes_cpu_step`.
  `StartRun` and `LeaveRun` are the ends of `run`, where flags are packed and the base moves. The
  tune is the environment: at the program counter is any instruction that agrees with what was
  stored there, so it may also modify itself. The memory both have is the RAM, the cartridge's RAM and
  `Rom`, what the banks in place show of the file; `Seams` are the banks that do not follow the one before them in
  the file. game-music-emu's core takes operands through the host pointer of the opcode's page: where that
  page's memory ends (`Beyond`) it finds other bytes (`Behind`) than the next address has, and each core runs the instruction
  with its own. `apart` is set, and the comparison ends, with an instruction that leaves what both players
  define: BRK, which halts the second one; opcodes of no official instruction; LDX and LDY beyond $FFFF; operands beyond
  such an end ($7FF/$800, $7FFF/$8000, the end of the file, a seam); a read outside `Readable` (mirrors, $4015, open
  bus); a write outside `Writable` (bank registers, ROM, mirrors); and a program counter that leaves it (`Astray`).
* **NesApu, ApuFrames.** `WriteRegister`, `Status`, `EndFrame`, `SetTempo`, `CountReads` are the
  functions of those names on one record; `RunUntil` is the sequencer's loop; `RunSquare`, `RunTriangle`, `RunNoise`
  and `DmcRun` move phases, delays and counters by what the loops of `Nes_Oscs.cpp` add up to.
  Amplitudes are left out. `ApuFrames` drives two such records
  with the same calls: `cut`, whose time is shifted back at frame ends, and `whole`, which has none.
* **GmeEmu, RomData, M3uPlaylist, BlipBuffers.** `emu` is what `Gme_File`, `Music_Emu` and `Nsf_Emu`
  keep of a file and a track, `osc` the buffer each oscillator of a chip adds to, `fx` the
  effects buffer, `remain` what `play_` has still to deliver. `Load`, `LoadNothing` and `LoadM3u`
  have the files' and playlists' failures in them, at the step where the code returns. `Play` enters
  `play_`, and each `PlayOn` is one turn of its loop: read what there is, or tell the voices of a
  change, run a frame and end it. Of its samples a buffer keeps how many may be non-zero (`dirty`); `due` and `read`, the time
  emulated and the samples delivered, are history.

Refinements: `FmsqPipeline` implements `FrameReplay` (`ReplaysTheTune`), with the schedule
computed from the log alone; `NsfCapture` implements `ApuLog` (`LogIsWellFormed`), so what the
converter is checked against is what the emulator can produce. A shared `ApuLog` is what joins
the two halves of the tool chain. `CpuLockstep` and `ApuFrames` are refinements of another kind: the same
inputs into two implementations, of which one is the reference of the other.

## 3. The runs

| run | question | bounds |
|---|---|---|
| `player` | Does every tick return with the right verdict, whatever the stream and the order of calls? (`TickVerdict`, `TickProgress`, `TickReturns`, `PlayingHasData`) | every stream of 0 and 1 command bytes, each followed by nothing or one operand, over 13 opcodes that stand for all cases of the switch; refused files; 8 longer streams with loops and full operand lists; 3 frames |
| `pipeline` | Does a tick replay exactly one PLAY call, to the last, through file and header? (`ReplaysTheTune`, `PlaysToTheEnd`, `WholeTuneIsHeard`, `ShortFileIsSilent`) | 4 PLAY calls, 2 writes, WAITs of at most 2 frames, so that a run of silent frames needs one, two and a partial WAIT |
| `logger` | Is a write filed under its frame under any order of calls, tracks started anew included? (`WritesFiledUnderFrame`) | 4 entries, limits 0 to 2, two addresses of which one is not logged |
| `capture` | Is PLAY punctual, without drift, and never blocked by INIT? Is the log well formed? (`PlayIsPunctual`, `NoDrift`, `PlayPreemptsOnlyInit`, `InitCannotBlockPlay`, `LogIsWellFormed`, `RunClocksReturns`) | period 4½ clocks, buffers of 7, instructions of 1 and 2 clocks, up to 2 illegal ones in a row, which take none, 4 buffers: PLAY falls before, at and after a buffer's end, with and without the fraction, while INIT or PLAY is at any point |
| `stream` | Does running ahead of the listener lose, repeat or silence a sample? Do the calls return? (`Accounting`, `SilenceIsSilent`, `EndLosesNoSound`, `CallsReturn`) | buffer 4, requests of 2 and 6 (below and above the buffer), silence limit 6, two fades, times up to 14; a silence is found, played in parts, broken by sound, and ends the track; a chunk's sound may be in its first sample alone |
| `player6502` | Can a tune's call that crashes or never returns harm the next one? (`RtsFindsItsCaller`, `StackEmptyBetweenCalls`, `EveryCallReturns`, `PlaysALoadedFile`, `InitFindsInitialBanks`, `TornPagesAreOfTheLastBank`) | stack of 4 bytes, so that INIT and one PLAY cut off fill it and the next wraps; 16 cycles, two to six instructions a call; two frames a song, any number of songs; a ROM of 2½ banks and one without bank switching |
| `cpu` | Are the two 6502 cores one machine, wherever the runs of one of them end? (`SameMachine`, `ClocksAgree`) | all 256 opcodes from four register contents, each followed by any of 15 instructions that look at what it left (flags, stack, carry, page crossings); six operands at the edges of pages and signs; a program that starts four bytes below a bank whose predecessor it does not continue, and a file that ends a page below the top of memory; runs of 1 and of 32767 clocks (the most that `run_clocks` asks for), so that a run ends between the two instructions or after them |
| `apu` | Does cutting time into frames change what the tune reads or the chip holds? Are lengths, interrupts and reads on time? (`FramesHaveNoEffect`, `EnabledMeansPlaying`, `CountReadsIsExact`, `DmcIrqOnTime`, `SequencerKeepsTime`) | real periods; NTSC, PAL and a tempo of 3/2; channels without a buffer; four setups that start every unit, with samples of 1 and 17 bytes, looped and with IRQ; three calls, 4 clocks, one and two sequencer steps apart; questions up to 9000 clocks ahead |
| `emu` | Do buffers keep time and room, is nothing heard skipped, and does nothing of one file survive into the next? (`KeepsTime`, `FramesFit`, `NothingIsSkipped`, `PlayAdvances`, `VoicesFollowConfig`, `BanksAreInRom`, `FailedLoadLeavesNothing`) | real rates and sizes; files with and without banks, with expansion chips, with more voices than types, one with load address 0, and one that fails at each step of loading; two loads, one playlist, two settings, two starts, two plays of 2048 and 6400 samples (in mono less and more than a frame), one and eight groups |

Three runs expect a violation. Each checks one statement of a comment or document of the repository
against the code; the counterexample is the shortest way to see the difference.

| run | statement | what the code does |
|---|---|---|
| `logger_load` | `Apu_Logger.cpp:215`: set the frame count from the file | `clear()` runs after that |
| `capture_time` | `Apu_Logger.cpp:55`: time is relative to the frame's start | the start is reset to 0 with each buffer |
| `playlist_track` | `Gme_File.cpp:191`: a playlist's track that the file does not have is refused | after a playlist, a text without entries leaves the first one's count, and the track is started |

`CHECK_DEADLOCK FALSE` stands in the configurations whose system ends: the two programs of the
pipeline, and the recordings, programs and sequences of calls that stop at their bound.

Bounds that are numbers of the code are not made smaller where TLC can bear them: clock rates, periods,
sizes of buffers, the addresses of a ROM and all opcodes are the real ones. What is small is
the number of calls. The parts of the state that a call leaves to the next one are a few records,
and the interesting cases need two or three calls: a setting between two frames, a load that fails
after one that succeeded, an instruction that reads what the one before left in a lazy flag. `MaxSlide` is 2
instead of 65536, because each illegal byte is like the one before; that the turns end takes a
first, a further and a last one.

Every property of a passing run has a mutant in `PROJECT.json`: a variant of one definition, kept
beside it in the module under a `Mutant` comment, with which TLC finds the property violated.

## 4. Fairness

* `WF(InTick)` (FmsqPlayer), `WF(InCall)` (MusicStream), `WF(running /\ Next)` (NsfCapture),
  `WF(Step \/ Returns)` (NsfPlayer6502): a C function that has been called runs on until it
  returns; nothing in the program can suspend it. No fairness is assumed of *which* instruction,
  command or branch is taken, nor that anybody calls anything.
* `WF(Load \/ Reset \/ Tick)` (FmsqPipeline): the main loop of the player program ticks while the
  player plays. The signal that stops it early is not modelled, so `PlaysToTheEnd` speaks of
  a replay that is not interrupted.
* `CpuLockstep`, `ApuFrames`, `ApuLogger` and `GmeEmu` state no fairness, and no property of theirs
  needs it. That `play_` ends is stated as `PlayAdvances`: each turn of its loop delivers samples or
  makes the next one deliver some.
* `TickReturns` is stated for streams without a LOOP byte: a LOOP that jumps back without a WAIT
  keeps `fmsq_player_tick` busy for ever, see section 6.

## 5. What is proved

Eight modules hold proofs, of one component each, of two that play, or of the whole tool chain, for every value of
the constants that the named assumptions of the component's module allow. In each, the property that a run checks on one instance is
strengthened to an inductive invariant, which one lemma per action shows to be preserved, and the
theorems follow from it. An action property follows from the same lemmas.

**`NsfCaptureProofs`** (`CaptureAssumption`: a PLAY period is longer than an instruction). For every
period, clock divisor, buffer length and instruction cost, and an INIT and a PLAY that take as long as
they like and run into any memory:

* `CaptureTypes`, `OneRoutineIsSaved`, `Punctual`, `RateIsExact`, `InitIsPreempted`;
* `RecordsAnApuLog`: the emulator implements `ApuLog`. Each step of it maps to a step of the abstract
  log or a stutter; that `INIT_END` is logged once, with the first PLAY_START, is the part that needs
  the invariant;
* `CaptureInvariant`: the inductive invariant, `LogTyped /\ CpuTyped /\ Calls /\ ClockTyped /\ Drift`.

`PlayPreemptsOnlyInit` needs `Calls`: while PLAY is armed, the last one has returned. `NoDrift` needs to
know what `play_extra` may be: 0 or the fraction of a period when periods are whole or half clocks,
and how far the next PLAY then is from its ideal clock (`Drift`).

And of the logger by itself, as `MCApuLogger` composes it (`Recorder`): `FramesAreFiled`, for logs of any length, limits
and times, under any order of logging, configuring and starting tracks. The invariant (`Files`) relates the logger's own frame to the
routine whose start was logged last: its frame if that is PLAY, 0 if it is INIT, which `StartInit` sees to by resetting
the frame before it logs. The lemma `OneMore` says what one more entry does to that.

**`FmsqPipelineProofs`** (`ConvertAssumption`: registers and bytes, a WAIT of at most 128 frames, and fields
of any width). For every recording the emulator can make, of any length, and whatever the disk keeps
of the file:

* `TuneIsReplayed`: the refinement `ReplaysTheTune`. Each tick of the player is one step of `FrameReplay` and
  everything else a stutter;
* `PlayedToTheEnd`: a player that stopped by itself has replayed the last PLAY call, and counted as many
  frames as the header says, if the header's fields were wide enough for the tune;
* `ShortFileIsRefused`: a file cut short anywhere is silent, if the stream fits the header's field. Without
  that it need not be refused: `data_size` wraps, and a prefix can be as long as a header asks for;
* `PipelineInvariant`: the inductive invariant, `ConvInv /\ CountInv /\ PlayInv`.

The argument decodes the stream. A place `<<p, f, w>>` says that byte `p` starts a command, before which the
stream stands for `f - 1` frames of the schedule and `w` writes of the next; `Decodes` says
of a set of such places that the command at each (`Leads`) leads to another, or is the END after the last frame.
The converter extends the set with each WAIT and REG_WRITE it appends (`AppendWaits`, `AppendWrites`,
`AppendEnd`), the player walks along it. The schedule is counted from the log, so `NextStart` and `FrameSpan` say how the
search for the next marker and the count of PLAY calls agree. Folds over the log are
unfolded as recursive functions: a function of that shape exists for each length, which is an induction by
the least number that would not do (`LeastNumber`), and is then the one CHOOSE takes.

**`GmeEmuProofs`** (`RateAssumption`: 2000 to 192000 samples a second, a bound of the model, as the code takes any rate; `UnitAssumption`: pages have a
power of two as size, 4096 in the code; `FilesAssumption`: the fields of a header, which counts at least one
track; and the ranges of the other constants). For mono and multi-channel emulators, both regions, every
file, every set of chips and masks, whatever lies in memory behind the table of types, and any order of calls:

* `TimeIsKept`: every buffer, mixed or skipped, holds the time emulated less the samples delivered;
* `FramesFitBuffer`: a frame ends inside its buffer at *every* such rate; the arithmetic (51 ms rounded
  up to samples, down to milliseconds, to clocks and back with a rounded factor) leaves a sample;
* `LoopAdvances`: `play_` cannot spin, because a frame is at least one sample long;
* `SoundIsHeard`: what the mixers skip as silence is silent;
* `VoicesAreUpToDate`: at each frame each oscillator of the file's chips adds to the buffer its voice has now;
* `BanksShowTheFile`: a mapped page, and what an instruction reaches past it, is in the ROM and
  shows one page of the file;
* `NothingIsLeft`: a load that fails at any step leaves nothing of any file;
* `EmuInvariant`, `FileInvariant`: the inductive invariants behind these.

`EmuInvariant` (`IInv`) adds to the time in the buffers that `play_` is only entered with a track of a loaded file,
so that the clock rate is one of the two regions'. `FileInvariant` (`FileInv`) has three parts.
`FileShaped`: with no tracks of its own an emulator has nothing of a file, and with some a ROM as `set_addr` leaves it, from
which every mapped page comes. `OthersSilent`: no oscillator of an absent chip is connected. `Told`: voices
that have seen the last change of the effects are right (`Follow`), so a change that nobody was told of yet is the only way for them to
be wrong, and a frame starts by telling them. That each oscillator has exactly one voice
(`OneVoice`) is where `set_voice`'s order of chips must be `init_sound`'s.
That a masked address of a page starts a page needs the mask to be 2^k - 1, no less than the page's:
`Bit`, the shift, is a recursive function, unfolded as above (`BitUnfolds`, `BitDivides`, `MaskIsBits`), and `PagesWrap` is
the modular arithmetic. `SoundIsHeard` needs `Quiet`: a channel's own buffer has sound only while the effects' mixer has as many
samples to run as the buffer has and the latency more, and once the effects are off, none of the sound
reaches past those samples, although an impulse is wider than the latency; a frame is
longer than an impulse at every rate (`FrameBounds`), so the next one covers what reaches past the end of this one.

**`ApuFramesProofs`** (`TemposAssumption`: `Music_Emu::set_tempo` takes tempos from 0.02 to 4;
`WritesAssumption`: bytes are written; `WaitsAssumption`: time goes on, as `run_until_` asserts). For NTSC
and PAL, every tempo, whatever channels have a buffer, every list of writes by INIT, every
byte written to any register, waits of any length and any order of writes, status reads, frames and changes of tempo:

* `EnabledMeansPlayingHolds`: a channel that is off has no length, and the DMC is on while it has bytes;
* `CountReadsIsExactHolds`: `count_reads` foretells the bytes a run to any later time reads;
* `DmcIrqIsOnTime`: the IRQ is raised at the clock `recalc_irq` worked out, and not one before;
* `SequencerKeepsItsTime`: the sequencer's steps are at the places of its mode's table, wherever its time was cut;
* `ChipsStayInOrder`: the inductive invariant behind these.

`InOrder` says of each chip (`Chip`) that its DMC, its sequencer and its channels agree. `DmcOk`: while there are
bytes one is read ahead, and an IRQ that is due is due at `IrqTime`, the clock after the last bit of the last byte,
computed from the registers; a run by any number of bits leaves `IrqTime` where it was (`IrqTimeStays`).
`Timed`: a sequencer's period is even and at least 1864 clocks, which is what the bound on tempos is for. `OnBeat`: the
next step is at its place. A write to $4017 starts the sequencer on the clock's parity, so the
two chips agree on its place only because their steps are an even number of clocks apart: `SameSide`.

The two loops of the code are `Repeat`, a recursive function of the number of turns. `ByteEndsRead` is the induction
over a DMC's bytes: after k ends of bytes it has read `min(k, length)` of them, or k if it loops.
`LoopReachesTheEnd` is the one over `run_until_`'s turns: each moves to the end of the run or a period on, so
the number of turns the model allows is always enough, and the loop of the code ends. The code of the
other units matters only in what it leaves alone (`Clockless`).

**`NoEffectProofs`** (the same assumptions, and `HorizonAssumption`: the chip that is never told of a
frame counts its clocks below half of `no_irq`, five minutes of music): `FramesHaveNoEffectHolds`, what
Nes_Apu.h:42 promises of `end_frame`.

The invariant is `Alike`: the two chips have answered alike and are `InStep`, that is, the one with
frames is `Fine` with the other: the same (`Same`), its clocks and IRQ times counted from `base` clocks later. Three facts make it inductive.
*A run does the same to both* (`RunUntilSame`): what an oscillator, the sequencer or the DMC does
depends on how long it runs and not on when, and an IRQ worked out ahead of like times is at like times.
*A run that stops on its way does what one that does not stop does* (`RunUntilSplits`): the end of a frame runs the chip with frames
alone, so the other runs on from an earlier time. Each unit adds up on its own: the steps of a timer (`StepsAdd`), the
place in the DMC's byte (`PlacesAdd`), the ends of bytes (`ByteEndsAdd`), the turns of `run_until_` (`LoopSplits`).
*Setting the clock back changes nothing* (`ShiftedFine`), but for an earliest IRQ that is
past, which the code sets to 0: `Due` says that two such times are alike. Then each operation keeps
`Fine` (`WrittenFine`, `AnsweredFine`, `SetTempoFine`), and chips that are in step show the same (`SeenAlike`).
The relation needs bounds of its own: no sample is longer than 4081 bytes and no delay longer than
the slowest rate (`Small`), or an IRQ ahead of a time could not be told from `no_irq`. What
the property leaves out (see below, the phase of a triangle and the noise of one that is
not mixed) the relation leaves out too, and so shows that nothing else is reached by it.

**`FmsqPlayerProofs`** (`FilesAssumption`: data are bytes). For every set of files of any
length and any content, and any order of calls: `PlayerTypes` (pc never leaves the data,
registers and values stay in range, though operands are read beyond the end), `DataIsThere`,
`VerdictIsTrue` and `TickMovesOn`. The inductive invariant (`PlayerInvariant`) is the first two with
`TickHasRoom`: a tick in progress has not counted its frame. The lemma `CommandIsRight` is shared by
all commands that stay in the tick; `OnlyEndAtEnd` (beyond the data there is only END) is why each of
them moves forward. `MaxFrames` is a bound of the model; the theorems hold for each value of it.

**`NsfPlayersProofs`**, of `MusicStream` (assumption: `StreamAssumption`, the ranges of the constants). For every
buffer size, lookahead, silence limit, request size and fade, and any order of calls:

* `StreamTypes`: no count or time goes below zero;
* `AccountingHolds`: until the track ends, `emu_time = out_time + pos + silence_count +
  buf_remain`. It is what the assertion `emu_time >= out_time` of play rests on;
* `FillsEmptyBuffer`: the assertion of `fill_buf`;
* `SilenceOwedIsSilent`: no sound is replaced by zeros, except what is in the first sample of a chunk and
  in no later one of it, which `count_silence` does not see;
* `NoSoundLost`: when a silence ends the track, no sound generated is left unplayed, with the same exception;
* `StreamInvariant`: the inductive invariant.

`Accounting` is not inductive: the step that plays the buffer needs to know that
silence is played first (`Places`, at "buffer"), the step that generates the rest needs to know that
nothing is owed (`BufFreeWhenFilled`), and the trimming at the start needs `out_time = 0` there.
`SilenceIsSilent` needs `Places` as well: in "trim" and "rest" the latest sound is where the buffer
ends. `NoSoundLost` needs `BufIsRecent`: a buffer is kept only for a sound in it, so `silence_time` lies at
most `BufSize` before `emu_time`; as the silence limit is not below the buffer size, a silence long
enough to end the track leaves the buffer empty. So

    IInv == TypeOK /\ Accounting /\ BufFreeWhenFilled /\ SilenceIsSilent /\ Places /\ BufIsRecent

The assumption `SilenceMax >= BufSize` is true of the code (6 seconds of stereo samples against a
buffer of 2048) at every sample rate above 171 Hz.

And of `NsfPlayer6502` (`PlayerAssumption`). For every stack size from 4, every cycle budget and
every set of files:

* `RtsReturns`: an RTS of INIT or PLAY goes back to its own caller, whatever calls that were cut off
  have left on the stack and wherever the stack pointer has wrapped to;
* `StackIsEmpty`: while every call of a song returns, each finds the stack empty;
* `StackHolds`: the inductive invariant behind the two;
* `FileIsLoaded`: no routine runs on a file that was freed or failed to load;
* `BanksAreInitial`, `PagesTearAtTheEnd`: what the pages show, for every ROM size and header.

Where an RTS goes depends on two bytes of memory, so `RtsFindsItsCaller` needs the
content of the stack: `OwnBytesOnStack` (what this call pushed lies above the stack pointer, in
order) and `OwnIsWellFormed` (it is the sentinel, then data and whole return addresses, never half of
one). Both are relative to the stack pointer, which is why what lies elsewhere does not matter.
The lemmas `PushHolds`, `Push16Holds` and `PopHolds` say what a push and a pop do to such a layout on a
stack that wraps around; every action cites one of them. The assumption that matters is in the
model's guards: the tune keeps within the stack (`Len(own) <= StackSize`) and pulls what it pushed.
The properties of the banks are inductive together with the type of `mem`; `CopyBankShows` is what
a copy does to a page, and an instruction takes time, so INIT is at its first one only right after `Start`.

**`CpuLockstepProofs`** (`LockstepAssumption`, `TuneAssumption`: bytes and addresses are what their widths
allow; `RunAssumption`: a run is asked for at most 32767 clocks; `FileAssumption`: the file is seen above $8000, in banks of 4 KB). For every content of
memory, every file and choice of banks, every start, every program (its own changes to itself included) and every way
to cut it into runs, until an instruction leaves what both players define (`apart`, section 2):

* `MachineAlways`: the two cores have the same registers, flags and RAM, and have made the same writes to the sound
  chip in the same order;
* `ClocksAlways`: the clocks of the one are the cycles of the other and the pages crossed and branches taken, and
  `s_time`, which the code keeps in 16 bits, always fits them.

The invariant of the first is `Machine`: within a run the cores are `Alike`; outside, the registers that `run`
left are the other core's (`Kept`) and the memory still is (`Rests`). `Alike` relates two ways to keep one machine.
`FlagsAre` has what `SameMachine` does not say and the next instruction needs: that `nz` and `c`
are words, N is bit 7 *or* bit 15 of `nz`, Z a low byte of 0, C bit 8 of `c`. Each way in which the code leaves `nz` and `c`
is then a lemma of arithmetic: a loaded byte (`ByteNz`), the sums that INC and DEC do not take the low byte of (`NzPlus`,
`NzMinus`), a difference (`CompareValues`), an addition whose V is bit 8 of a biased sum on one
core and a comparison of signs on the other (`Overflow`), BIT (`BitFlags`), a status that is pulled
(`StatusFlags`) or pushed (`FlagsOfByte`), a shift (`ShiftAgrees`). The stack pointer of the one is the address last
pushed, of the other a byte (`StackPlaces`).

There is one lemma for each class of instructions (`AluStep`, `LoadXYStep`, `CompareXYStep`, `StoreStep`, `ModifyStep`,
`ShiftAStep`, `RegisterStep`, `StackStep`, `FlagStep`, `BranchStep`, `JmpStep`, `JmpIndStep`, `JsrStep`, `ReturnStep`, `NopStep`).
That an opcode is in that class on both cores, in the same addressing mode, is checked row by row of the table
(`AluRows` to `JumpRows`, `Classes`): `ARITH_ADDR_MODES` finds its mode by arithmetic on the opcode, `nes_cpu_step` by its case.
`StepAlike` puts the classes together, `TuneAlike` adds the bytes that both find at `pc`, which are the same where the
instruction is `Straight`; `StartAlike` and `LeaveKept` are the ends of a run.

The invariant of the second is `InTime`. A class has one more lemma, on what it adds to the clocks of the table
(`AluTime` to `BranchTime`): nothing, or `Extra`. `ClockRows` compares `clock_table` with the cycles of the other switch: they
are equal but for branches, which the table counts as taken. `PenaltyIs` says that `Extra`, which the code works
out from the carry of an addition to the low byte, is the 6502's rule about pages (`PageCrossed`, `PageLeft`); the theorem then is
that SEI, PLP and the start of a run move `base` and `s_time` by opposite amounts (`ClockedForms`, `StartTime`). For the
16 bits `InTime` also says that within a run `base` is the end asked for, that `s_time` is at least -32767, and
that an instruction begins below 0 and adds no more than its own clocks (`PenaltyBound`).

Only model-checked:

* liveness (`CallsReturn`, `TickReturns`, `RunClocksReturns`, `PlaysToTheEnd`, `EveryCallReturns`), which
  the prover does not do.

Every invariant and every action property that a passing run checks is proved. What the runs add
is that the interesting cases are there: each property has a variant of the code that breaks it.

## 6. Observations

Differences between the code and its documents, and places to know of, met while modelling, that no
run is spent on:

The FMSQ format, its writer and its player.

* `fmsq_player.c:238` says "Track current status register": a REG_WRITE to $4015, and reset, change the
  register and not the static copy, which also survives load. A DPCM or note command after that
  writes a value computed from the old one. The converter never writes such commands.
* `doc/fmsq_format.md:46` gives data_size as the size of the stream; `fmsq_writer.cpp:25` casts
  it to 16 bits, so a longer stream (about a minute of dense music) is written whole under its size modulo
  65536, and the player stops early. frame_count wraps in the same way.
* Bytes 0xE3–0xEF and 0xF8–0xFD, reserved, fall through to the channel commands and run as
  commands of one of the four channels, or are skipped as one byte (`fmsq_player.c:303`).
* `doc/fmsq_format.md:236` starts the stream with INIT's writes and a WAIT; the converter emits
  no WAIT between INIT and the first frame (`nsf2fmsq.cpp:154`), so both are heard in tick 1.
  `WritesOfFrame` has it that way.
* A LOOP with no WAIT on its way back holds `fmsq_player_tick` for ever; the format document
  does not exclude it, the converter never writes it.
* When the tune is slower than a frame PLAY is skipped, and the replay, which has one tick per PLAY
  call, is shorter than the original.
* The value start_track gives $4017, and anything else the emulator sets before INIT, is not in
  the log, so a replay starts from the player's own reset.
* `nsf2fmsq.cpp:102` counts `out_time` in 32 bits, which wraps after 24347 seconds.

The recording.

* INIT_END (`Apu_Logger.h:19`) is logged when the first PLAY is due, whether or not INIT has
  returned (`Nsf_Emu.cpp:694`). A log without INIT_END loses INIT's writes. PLAY_END ("PLAY completed",
  `Apu_Logger.h:21`) is logged only when a PLAY returns to an INIT it preempted.
* `NoDrift` is stated for whole and half clocks, as the standard NTSC and PAL rates have. The fraction
  of earlier periods is not added in `play_extra = play_period - period * divisor`, so at other fractions
  PLAY drifts. A tempo that makes the period less than `clock_divisor` gives periods of no clocks
  (`Nsf_Emu.cpp:183`); the tools set no tempo.

The output stream and the buffers.

* `Music_Emu.h:204` has silence_time as "number of samples where most recent silence began"; skip
  passes over sound and leaves it alone. `ignore_silence` (`Music_Emu.h:83`) does not keep a silence that is already
  being played from ending the track (`Music_Emu.cpp:426`).
* `Music_Emu.cpp:368` says of `count_silence` "number of consecutive silent samples at end". The sentinel that
  stops its loop overwrites the first sample, and the loop's last step is counted: the result is one more than that
  number, and the whole chunk if only the first sample has sound. `silence_time` is so one sample early, and such
  a click is played as zeros, or dropped when the silence ends the track. `SilenceIsSilent` and
  `EndLosesNoSound` hold of every other sound.
* A fade shorter than a block divides by zero (`Music_Emu.cpp:324`); the tools set none.
* `Stereo_Buffer` and the mixing for two channels are reached by no path of the tools. A delta
  reaches 16 samples while the latency is 8: that is why there are 18 extra samples.

The sound chip.

* `Nes_Apu.h:42` says "Time frames have no effect on emulation". They do affect the noise register: a silent
  noise channel shuffles it once per call, not per period (`Nes_Oscs.cpp:505`, which says
  "approximate"), and a muted triangle's phase and a muted noise's timer are moved by roundings of their own. The last one
  is not called approximate: `Nes_Oscs.cpp:486` rounds up to whole periods by a division that rounds toward 0, also when
  the timer is due after the end of the run, so once a longer period has been replaced by a shorter one, each run moves
  it nearer; unmuted, the noise goes on from another place. `FramesHaveNoEffect` leaves these three out
  and holds of everything else, an interrupt that is pending counting as due: `irq_changed` is not called when
  the sequencer raises its flag, and `earliest_irq_` is out of date until it is.
* A change to a slower tempo leaves `frame_delay` as it is, so the next sequencer step comes at the old
  distance; `SequencerKeepsTime` is stated of a tempo that has not changed since $4017 was written.

The CPU cores.

* `LDX abs,Y` and `LDY abs,X` beyond $FFFF do not wrap in game-music-emu's core (`Nes_Cpu.cpp:530`): they
  read behind the last page, where the second player's core reads zero page. `Parts` has it.
* `Nes_Cpu.cpp:177` and `:242` take an instruction's operands behind the opcode's own byte in host memory. Where that
  is not the next address (the end of the RAM, $7FFF/$8000, the end of the file, a bank that does not follow the one before it)
  the other core reads the next address, as a 6502 does, and the two run different instructions.
* Opcodes of no official instruction are NOPs of one byte in `nes_cpu.c`, and NOPs of their proper
  length or errors in the other; BRK halts the first one and pushes in the other.
* `nes_cpu.h:70` says of `nes_cpu_jsr` "run until RTS". After the budget the next tick calls PLAY
  again from the top, with the old frames still on the stack; `RtsFindsItsCaller` shows that this
  does no harm to the calls after it. The tail of a partly filled bank, and a file without bank
  switching that stored over itself, survive a restart.

Files and playlists.

* `Nsf_Emu.cpp:222` has 16 voice types "common to all sound chip configurations"; a header may name chips
  with 29 voices, for which `Classic_Emu.cpp:74` reads behind the table. `BeyondTypes` is what it may find.
* A decimal track 0 in a playlist is remapped to -1, which the check for "Invalid track" passes on to
  `Music_Emu`'s own.
* A playlist whose text cannot be read leaves the entries of the one before, whose strings are in
  memory that was just resized (`M3u_Playlist.cpp:480`).
* The comment of `decimal_track` (`M3u_Playlist.h:40`, "if track was specified in hex") says the opposite of the parser.

## 7. What is not modelled, and why

* Amplitudes and their synthesis: waveforms, volumes, non-linear mixing, impulses, filters, echo and reverb
  are numbers that no control depends on. `BlipBuffers` keeps time and where a buffer may be non-zero.
* `Nes_Fds_Apu`, `Nes_Fme7_Apu`, `Nes_Namco_Apu`, `Nes_Vrc6_Apu`, `Nes_Vrc7_Apu`, `ext/emu2413.c`: registers and
  synthesis of expansion chips, which FMSQ leaves out (`doc/fmsq_format.md:243`). `GmeEmu` has
  their voices, buffers and life cycle.
* `Dual_Resampler`, `Fir_Resampler`, `Stereo_Buffer`, `Mono_Buffer`, `Silent_Buffer`: on no path of the tools.
* `Data_Reader`: bytes in, bytes out; that a read fails is in `LoadNsf`. Text fields and `track_info`.
* SDL, the audio ring and `apu_if`: external (a submodule not in this tree). The ring is written by the main loop and read
  by SDL's thread; its code is not here to be translated, so the one place with two threads is left out.
* Command lines, text output, `--dump`, `save_text`, version 1 logs, WAV files, build scripts: formatting.

## 8. Plan

What would be modelled or proved next, in this order:

1. The registers of the expansion chips that have timing of their own (FDS, Namco), in the manner of `NesApu`.
2. `NsfCapture` with `GmeCpu` in place of its abstract CPU, for short programs.
3. Longer sequences of calls in `apu` and `emu`, which are bounded by the time TLC takes.

## 9. Running it

```
tlc -config MCMusicStream.cfg MCMusicStream      # any MC module with its .cfg
tlapm NsfCaptureProofs.tla                       # any of the Proofs modules
```
