----------------------------- MODULE NsfCapture -----------------------------
(***************************************************************************)
(* The NSF emulator as a recorder (nsf2fmsq/gme/Nsf_Emu.cpp): start_track_ *)
(* and run_clocks schedule the tune's INIT and PLAY routines on the        *)
(* emulated CPU, and APU_Logger is told of every register write and of the *)
(* start and end of the routines.                                          *)
(*                                                                         *)
(* The CPU is abstract: an instruction takes 1..MaxCost clocks, may write  *)
(* one APU register, and may be the RTS that leaves the routine for the    *)
(* sentinel address badop_addr.  A routine that runs into unmapped memory  *)
(* meets opcodes that stop the CPU and take no time.  `where` is what r.pc *)
(* points into.                                                            *)
(***************************************************************************)
EXTENDS ApuLogger

CONSTANTS PlayPeriod,    \* play_period, in clocks / Divisor
          Divisor,       \* clock_divisor: 12 in the code
          Duration,      \* clocks asked of each run_clocks
          MaxCost,       \* clocks of the longest instruction
          MaxSlide,      \* bytes that r.pc passes before it comes round to the
                         \* sentinel: at most 65536 in the code
          MaxBuffers, MaxWrites   \* bounds on one recording

\* A period is longer than an instruction.
ASSUME CaptureAssumption ==
  /\ Divisor \in Nat \ {0} /\ PlayPeriod \in Nat
  /\ MaxCost \in Nat \ {0} /\ MaxCost + 1 < PlayPeriod \div Divisor
  /\ Duration \in Nat \ {0} /\ MaxSlide \in Nat \ {0}
  /\ MaxBuffers \in Nat /\ MaxWrites \in Nat
  /\ Addrs \subseteq 0..23

VARIABLES
  running,      \* inside run_clocks
  time, next_play, play_extra, play_ready,
  where,        \* "init", "play", or "badop": the sentinel is next
  slide,        \* bytes stepped over since the last instruction
  saved_state,  \* "none", or the routine that PLAY preempted
  buffers,      \* run_clocks calls finished
  base,         \* clocks emulated before the present buffer
  periods,      \* play periods elapsed
  frame_clock   \* clock, from the beginning, of the last INIT or PLAY start

clock == <<time, next_play, play_extra, play_ready>>
cpu   == <<where, slide, saved_state>>
ghost == <<buffers, base, periods, frame_clock>>
vars  == <<loggerVars, running, clock, cpu, ghost>>

\* nsf2fmsq has enabled and cleared the logger and opened the file.
Init ==
  /\ enabled = TRUE /\ max_entries = 0 /\ saved = NoLogFile
  /\ frame_start_time = 0 /\ current_frame = 0 /\ entries = << >>
  /\ running = FALSE /\ time = 0
  /\ next_play = 0 /\ play_extra = 0 /\ play_ready = 0
  /\ where = "badop" /\ slide = 0 /\ saved_state = "none"
  /\ buffers = 0 /\ base = 0 /\ periods = 0 /\ frame_clock = 0

-----------------------------------------------------------------------------
Started == entries # << >>

\* Mutant: INIT holds up PLAY for one period more.
StartTrackLate ==
  /\ ~Started
  /\ play_ready' = 5 /\ play_extra' = 0
  /\ next_play' = PlayPeriod \div Divisor
  /\ saved_state' = "none" /\ where' = "init" /\ slide' = 0
  /\ StartInit(time)
  /\ UNCHANGED <<saved, running, time, ghost>>

\* start_track_: INIT is on the CPU and PLAY four periods away at most.
StartTrack ==
  /\ ~Started
  /\ play_ready' = 4 /\ play_extra' = 0
  /\ next_play' = PlayPeriod \div Divisor
  /\ saved_state' = "none" /\ where' = "init" /\ slide' = 0
  /\ StartInit(time)
  /\ UNCHANGED <<saved, running, time, ghost>>

\* run_clocks: the CPU's clock and the logger's frame start restart from 0.
StartBuffer ==
  /\ ~running /\ Started /\ buffers < MaxBuffers
  /\ running' = TRUE /\ time' = 0
  /\ ResetFrameStartTime
  /\ UNCHANGED <<saved, next_play, play_extra, play_ready, cpu, ghost>>

\* Mutant: the CPU runs on to the end of the buffer.
EndOfBuffer == Duration

\* The 16-bit time delta of the CPU splits a long run in two and changes nothing.
End == IF next_play < Duration THEN next_play ELSE Duration

\* cpu::run( end ) has time left.
CanRun == running /\ time < End

\* An instruction of INIT or PLAY; the last one may overrun `end`.
Instruction ==
  /\ CanRun /\ where # "badop"
  /\ \E c \in 1..MaxCost :
       /\ time' = time + c
       /\ \/ UNCHANGED <<logger, where>>
          \/ where' = "badop" /\ UNCHANGED logger
          \/ /\ \E a \in Addrs, d \in Data : LogWrite(time', a, d)
             /\ UNCHANGED where
  /\ slide' = 0
  /\ UNCHANGED <<saved, running, next_play, play_extra, play_ready, saved_state, ghost>>

\* Mutant: the sentinel is stepped over like any other, round and round.
IllegalAround ==
  /\ CanRun /\ where # "badop"
  /\ slide' = (slide + 1) % MaxSlide
  /\ UNCHANGED <<loggerVars, running, clock, where, saved_state, ghost>>

\* cpu::run stops in unmapped memory, at opcode $F2, which takes no time, and
\* run_clocks steps over it with r.pc++.  Instructions may follow, or the next
\* byte is as bad; r.pc has 16 bits, so that it comes round to the sentinel,
\* which lies in unmapped memory itself, MaxSlide bytes later at the latest.
Illegal ==
  /\ CanRun /\ where # "badop"
  /\ slide' = slide + 1
  /\ where' \in {where, "badop"}
  /\ slide' = MaxSlide => where' = "badop"
  /\ UNCHANGED <<loggerVars, running, clock, saved_state, ghost>>

\* cpu::run stops at the sentinel and there is a routine to resume.
Resume ==
  /\ CanRun /\ where = "badop" /\ saved_state # "none"
  /\ play_ready' = 1
  /\ IF current_frame = 0 THEN LogInitEnd(time) ELSE LogPlayEnd(time, current_frame)
  /\ where' = saved_state /\ slide' = 0 /\ saved_state' = "none"
  /\ UNCHANGED <<saved, running, time, next_play, play_extra, ghost>>

\* It stops with nothing to resume: idle until the next PLAY or the buffer's end.
Idle ==
  /\ CanRun /\ where = "badop" /\ saved_state = "none"
  /\ play_ready' = 1
  /\ time' = End
  /\ UNCHANGED <<loggerVars, running, next_play, play_extra, cpu, ghost>>

\* Mutant: the fraction of a clock is lost at each period.
PeriodTruncated == PlayPeriod \div Divisor

\* The whole clocks of the next period; play_extra carries the fraction on.
Period == (PlayPeriod + play_extra) \div Divisor

\* Periods until PLAY may be called; 0 while the last PLAY has not returned.
Countdown == IF play_ready > 0 THEN play_ready - 1 ELSE 0

\* Mutant: INIT_END is left to an INIT that returns.
PlayMarkersOnly == <<MarkerEntry("PLAY_START", 0, current_frame + 1)>>

\* What is logged of a PLAY call; the first one ends INIT.
PlayMarkers ==
  (IF current_frame = 0 THEN <<MarkerEntry("INIT_END", time - frame_start_time, 0)>>
                        ELSE << >>)
  \o <<MarkerEntry("PLAY_START", 0, current_frame + 1)>>

\* A play period has passed: PLAY is called, unless the last one is not done.
PlayDue ==
  /\ running /\ time >= next_play
  /\ play_extra' = PlayPeriod - Period * Divisor
  /\ next_play' = next_play + Period
  /\ play_ready' = Countdown
  /\ periods' = periods + 1
  /\ IF play_ready > 0 /\ play_ready' = 0
       THEN /\ saved_state' = IF where # "badop" THEN where ELSE saved_state
            /\ where' = "play" /\ slide' = 0
            /\ entries' = entries \o PlayMarkers
            /\ current_frame' = current_frame + 1
            /\ frame_start_time' = time /\ frame_clock' = base + time
       ELSE UNCHANGED <<cpu, entries, current_frame, frame_start_time, frame_clock>>
  /\ UNCHANGED <<enabled, max_entries, saved, running, time, buffers, base>>

\* Mutant: the end of a buffer counts as the return of PLAY.
EndBufferArms ==
  /\ running /\ time >= Duration /\ time < next_play
  /\ running' = FALSE
  /\ next_play' = next_play - time
  /\ play_ready' = 1
  /\ buffers' = buffers + 1 /\ base' = base + time
  /\ UNCHANGED <<loggerVars, time, play_extra, cpu, periods, frame_clock>>

EndBuffer ==
  /\ running /\ time >= Duration /\ time < next_play
  /\ running' = FALSE
  /\ next_play' = IF time > next_play THEN 0 ELSE next_play - time
  /\ buffers' = buffers + 1 /\ base' = base + time
  /\ UNCHANGED <<loggerVars, time, play_extra, play_ready, cpu, periods, frame_clock>>

IsWrite(e) == e.event = "WRITE"

Next == \/ StartTrack \/ StartBuffer \/ Illegal \/ Resume \/ Idle \/ PlayDue \/ EndBuffer
        \/ Instruction /\ Len(SelectSeq(entries', IsWrite)) <= MaxWrites

\* run_clocks runs until it returns.
Spec == Init /\ [][Next]_vars /\ WF_vars(running /\ Next)

-----------------------------------------------------------------------------
TypeOK ==
  /\ running \in BOOLEAN /\ time \in Nat /\ next_play \in Nat
  /\ play_extra \in Int /\ play_ready \in 0..4
  /\ where \in {"init", "play", "badop"} /\ slide \in 0..MaxSlide /\ saved_state \in {"none", "init"}
  /\ current_frame \in 0..periods /\ frame_start_time \in Nat

\* Nsf_Emu.cpp:685 checks that no routine is saved when PLAY is called: PLAY
\* preempts INIT but never another PLAY, so the one saved state is enough.
PlayPreemptsOnlyInit ==
  play_ready > 0 /\ current_frame > 0 => where # "play" /\ saved_state = "none"

\* PLAY is called less than one instruction after its period is over.
PlayIsPunctual == running => time < next_play + MaxCost

\* With a play period of a whole or a half number of clocks, as at the standard
\* NTSC and PAL rates, rounding never makes PLAY drift by more than a clock.
NoDrift ==
  LET off == (periods + 1) * PlayPeriod - (base + next_play) * Divisor
  IN  Started /\ 2 * (PlayPeriod % Divisor) \in {0, Divisor} => 0 <= off /\ off <= Divisor

\* An INIT that does not return holds up PLAY for four periods at most.
InitCannotBlockPlay == periods >= 4 => current_frame >= 1

\* The log is one that the converter understands: INIT_END once, just before the
\* first PLAY_START, and PLAY_END only after a PLAY_START.
Log == INSTANCE ApuLog WITH
         Offsets <- Addrs, Values <- Data,
         log <- [i \in 1..Len(entries) |->
                   IF IsWrite(entries[i])
                   THEN [event |-> "WRITE", off |-> entries[i].addr, val |-> entries[i].data]
                   ELSE [event |-> entries[i].event]]

LogIsWellFormed == Log!LogSpec

\* Every call of run_clocks returns, although PLAY's return, the sentinel, a
\* skipped period and the illegal opcodes it steps over take no time.
RunClocksReturns == running ~> ~running

\* Apu_Logger.cpp:55 gives a write its time relative to the frame's start.
TimeIsRelativeToFrame ==
  [][Instruction /\ entries' # entries
       => entries'[Len(entries')].time = base + time' - frame_clock]_vars

=============================================================================
