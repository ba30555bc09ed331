---------------------------- MODULE ApuFrames ----------------------------
(***************************************************************************)
(* The sound chip under its caller, twice. Nsf_Emu writes its registers,   *)
(* reads its status and ends its time frames, and Nes_Apu promises that    *)
(* frames "have no effect on emulation and each can be whatever length is  *)
(* convenient" (Nes_Apu.h:42). cut is the chip as it is used, whole is one *)
(* that gets the same writes and reads and no frame ends.                  *)
(***************************************************************************)
EXTENDS NesApu, Sequences

CONSTANTS Chips,          \* <<PAL, the oscillators with a buffer, tempo as a fraction>>
          Tempos,
          Setups,         \* writes at time 0
          Writes,         \* <<address, byte>> written later
          Waits,          \* clocks between two calls
          MaxCalls,
          Probes          \* clocks a question looks ahead

\* Music_Emu::set_tempo() takes no tempo below 0.02 and none above 4.
IsTempo(t) ==
    t[1] \in Nat \ {0} /\ t[2] \in Nat \ {0} /\ t[2] <= 50 * t[1] /\ t[1] <= 4 * t[2]
RegisterWrites == Int \X (0 .. 255)

ASSUME TemposAssumption ==
    (\A chip \in Chips : IsTempo(chip[3])) /\ (\A t \in Tempos : IsTempo(t))
ASSUME WritesAssumption == Setups \subseteq Seq(RegisterWrites) /\ Writes \subseteq RegisterWrites
\* run_until_() asserts that time does not go back, and a status read looks one clock back.
ASSUME WaitsAssumption == Waits \subseteq Nat \ {0} /\ Probes \subseteq Nat
\* The chip without frames is never set back: its times stay below half of no_irq, so that an
\* IRQ worked out ahead of them is told from none.
InHorizon(wait) == MaxCalls * wait <= NoIrq \div 2
ASSUME HorizonAssumption == MaxCalls \in Nat /\ \A wait \in Waits : InHorizon(wait)

VARIABLES cut, whole, base, now, calls, answers,
          origin          \* where the frame sequencer was last started; its tempo since then

vars == <<cut, whole, base, now, calls, answers, origin>>

\* start_track_(): reset, all channels but the DMC enabled, then what the tune's INIT writes.
Start(pal, outputs, tempo, writes) ==
    WriteAll(Reset(pal, outputs, tempo), 0, <<<<16405, 15>>>> \o writes)

Origin(s, t) == [at |-> t + (s.frame_delay % 2), mode |-> s.mode, steady |-> TRUE]

Init ==
    /\ \E chip \in Chips, writes \in Setups :
          /\ cut = Start(chip[1], chip[2], chip[3], writes)
          /\ whole = cut
    /\ base = 0 /\ now = 0 /\ calls = 0 /\ answers = <<{}, {}>>
    /\ origin = Origin(cut, 0)

\* Accesses of a 6502 are some clocks apart.
Later(wait) == calls < MaxCalls /\ now' = now + wait /\ calls' = calls + 1

Write(wait, w) ==
    /\ Later(wait)
    /\ cut' = WriteRegister(cut, now' - base, w[1], w[2])
    /\ whole' = WriteRegister(whole, now', w[1], w[2])
    /\ origin' = IF w[1] = 16407 THEN Origin(whole', now') ELSE origin
    /\ UNCHANGED <<base, answers>>

ReadStatus(wait) ==
    LET c == Status(cut, now' - base)
        w == Status(whole, now')
    IN /\ Later(wait)
       /\ cut' = c.apu /\ whole' = w.apu
       /\ answers' = <<c.result, w.result>>
       /\ UNCHANGED <<base, origin>>

\* The end of a block of play_: Nsf_Emu's run_clocks(), whose accesses came before it.
End(wait) ==
    /\ Later(wait)
    /\ cut' = EndFrame(cut, now' - base)
    /\ base' = now'
    /\ UNCHANGED <<whole, answers, origin>>

\* set_tempo() comes between two calls of play().
Tempo(t) ==
    /\ calls < MaxCalls /\ calls' = calls + 1 /\ base = now
    /\ cut' = SetTempo(cut, t[1], t[2]) /\ whole' = SetTempo(RunUntil(whole, now), t[1], t[2])
    /\ origin' = [origin EXCEPT !.steady = FALSE]
    /\ UNCHANGED <<base, now, answers>>

Next ==
    \/ \E wait \in Waits : \/ \E w \in Writes : Write(wait, w)
                           \/ ReadStatus(wait)
                           \/ End(wait)
    \/ \E t \in Tempos : Tempo(t)

Spec == Init /\ [][Next]_vars

\* Everything a chip holds at a time, its own times counted from the same origin. An IRQ that is
\* pending counts as due. Left out are what the code itself calls approximate, the phase of a
\* muted triangle and the noise register, and the timer of a muted noise.
Absolute(t, from) == IF t = NoIrq THEN t ELSE t + from
View(s, from, time) ==
    LET t == RunUntil(s, time - from)
        earliest == Absolute(t.earliest, from)
        heard == IF 2 \in t.outputs THEN 0 .. 2 ELSE 0 .. 1
        timed == IF 3 \in t.outputs THEN Oscs ELSE Oscs \ {3}
    IN [t EXCEPT !.last_time = @ + from, !.last_dmc_time = @ + from,
                 !.next_irq = Absolute(@, from), !.dmc.next_irq = Absolute(@, from),
                 !.earliest = IF t.irq_flag \/ earliest <= time THEN 0 ELSE earliest,
                 !.phase = [i \in heard |-> t.phase[i]], !.shifts = 0,
                 !.delay = [i \in timed |-> t.delay[i]]]

\* Nes_Apu.h:42, "Time frames have no effect on emulation": however the run is cut into frames,
\* the tune reads the same status and the chip is in the same state.
FramesHaveNoEffect ==
    /\ answers[1] = answers[2]
    /\ View(cut, base, now) = View(whole, 0, now)

\* A channel that $4015 disabled stays silent, whatever is written to it later; the DMC is
\* enabled exactly as long as it has bytes, and while it has, one is always read ahead.
EnabledMeansPlaying ==
    /\ \A i \in Oscs \ cut.enables : cut.len[i] = 0
    /\ 4 \in cut.enables => cut.len[4] > 0
    /\ cut.len[4] > 0 => cut.dmc.buf_full

\* count_dmc_reads(), "Number of DMC reads that would occur if run_until( t ) were executed"
\* (Nes_Apu.h:92): the number worked out is the number that running finds.
CountReadsIsExact ==
    \A ahead \in Probes :
        LET t == cut.last_dmc_time + ahead
        IN CountReads(cut, t) = RunDmcUntil(cut, t).dmc.reads - cut.dmc.reads

\* The time worked out for the DMC's IRQ is the very clock at which running raises it.
DmcIrqOnTime ==
    cut.dmc.next_irq # NoIrq =>
        /\ cut.dmc.next_irq > cut.last_dmc_time
        /\ ~RunDmcUntil(cut, cut.dmc.next_irq - 1).dmc.irq_flag
        /\ RunDmcUntil(cut, cut.dmc.next_irq).dmc.irq_flag

\* The steps of the sequencer lie at fixed places after the write to $4017 that started it:
\* in mode 0 four steps that last four periods but two clocks; in mode 1 the fourth of them
\* comes at once and the whole lasts five periods but eight clocks (but four on PAL).
Places(s, mode) ==
    LET p == s.frame_period
        second == IF s.pal THEN 2 * p ELSE 2 * p - 2
    IN IF mode < 128
       THEN [period |-> 4 * p - 2, at |-> <<0, p, second, 3 * p - 2>>]
       ELSE [period |-> 5 * p - (IF s.pal THEN 4 ELSE 8), at |-> <<0, p, second, 3 * p - 2>>]
SequencerKeepsTime ==
    LET s == View(cut, base, now)
        places == Places(s, origin.mode)
        next == s.last_time + s.frame_delay - origin.at
    IN origin.steady => next % places.period = places.at[s.frame + 1]

==========================================================================
