------------------------------ MODULE NesApu ------------------------------
(***************************************************************************)
(* The sound chip of game-music-emu: Nes_Apu, its frame sequencer and five *)
(* oscillators, as operations on a record. It is emulated lazily: nothing  *)
(* happens until somebody asks for a time, and then each oscillator is run *)
(* from where it was. The amplitudes handed to the synthesis are left out: *)
(* a run moves phases, delays and counters, and those are all here.        *)
(* Oscillators are 0, 1 squares, 2 triangle, 3 noise, 4 DMC.               *)
(***************************************************************************)
EXTENDS Integers, Sequences

Oscs == 0 .. 4
Enveloped == {0, 1, 3}
NoIrq == 1073741824                   \* no_irq, INT_MAX / 2 + 1
BitOf(v, i) == (v \div 2^i) % 2
Earlier(t, u) == IF t < u THEN t ELSE u
CDiv(v, d) == IF v >= 0 THEN v \div d ELSE -((-v) \div d)    \* C's division
RoundUp(v, d) == CDiv(v + d - 1, d)
\* s, after Op so many times.
Repeat(Op(_), s, times) ==
    LET after[n \in 0 .. times] == IF n = 0 THEN s ELSE Op(after[n - 1])
    IN after[times]

length_table == <<
    10, 254, 20, 2, 40, 4, 80, 6, 160, 8, 60, 10, 14, 12, 26, 14,
    12, 16, 24, 18, 48, 20, 96, 22, 192, 24, 72, 26, 16, 28, 32, 30 >>
noise_period_table == <<
    4, 8, 16, 32, 64, 96, 128, 160, 202, 254, 380, 508, 762, 1016, 2034, 4068 >>
dmc_period_table == [
    ntsc |-> <<428, 380, 340, 320, 286, 254, 226, 214, 190, 160, 142, 128, 106, 84, 72, 54>>,
    pal  |-> <<398, 354, 316, 298, 276, 236, 210, 198, 176, 148, 132, 118, 98, 78, 66, 50>> ]
FramePeriod(s) == IF s.pal THEN 8314 ELSE 7458

---------------------------------------------------------------------------
(* The oscillators *)

Period(s, i) == (s.regs[i][3] % 8) * 256 + s.regs[i][2]
Volume(s, i) == IF s.len[i] = 0 THEN 0
                ELSE IF BitOf(s.regs[i][0], 4) = 1 THEN s.regs[i][0] % 16 ELSE s.env[i]

\* The steps of a timer from time to end, of which the first is due at time.
StepsTo(time, end, timer) == IF time < end THEN RoundUp(end - time, timer) ELSE 0

\* A square steps on whether it is heard, silent or muted; its three paths differ in amplitude.
RunSquare(s, i, from, end) ==
    LET timer == (Period(s, i) + 1) * 2
        count == StepsTo(from + s.delay[i], end, timer)
    IN [s EXCEPT !.phase[i] = (@ + count) % 8,
                 !.delay[i] = from + @ + count * timer - end]

\* The triangle stops while a counter is 0. Muted, it is moved by maintain_phase, which ends two
\* phases away from where the steps end.
RunTriangle(s, from, end) ==
    LET timer == Period(s, 2) + 1
        count == StepsTo(from + s.delay[2], end, timer)
        back == IF 2 \notin s.outputs /\ count > 0 THEN count - 2 ELSE count
    IN IF s.len[2] = 0 \/ s.linear = 0 \/ timer < 3 THEN [s EXCEPT !.delay[2] = 0]
       ELSE [s EXCEPT !.phase[2] = ((@ - 1 - back) % 32) + 1,
                      !.delay[2] = from + @ + count * timer - end]

\* The noise register is seen as the number of times it was shifted. While its volume is 0 it is
\* shifted once for each run that has steps ("approximate noise cycling").
RunNoise(s, from, end) ==
    LET timer == noise_period_table[(s.regs[3][2] % 16) + 1]
        time == from + s.delay[3]
        count == StepsTo(time, end, timer)
        shifts == IF Volume(s, 3) # 0 THEN count
                  ELSE IF count > 0 /\ BitOf(s.regs[3][2], 7) = 0 THEN 1 ELSE 0
    IN IF 3 \notin s.outputs
       THEN [s EXCEPT !.delay[3] = time + RoundUp(end - time, timer) * timer - end]
       ELSE [s EXCEPT !.delay[3] = time + count * timer - end, !.shifts = @ + shifts]

ClockLength(s, i) ==
    LET halt == IF i = 2 THEN 7 ELSE 5
    IN IF s.len[i] > 0 /\ BitOf(s.regs[i][0], halt) = 0 THEN [s EXCEPT !.len[i] = @ - 1] ELSE s

ClockEnvelope(s, i) ==
    LET period == s.regs[i][0] % 16 IN
    IF s.written[i][3]
    THEN [s EXCEPT !.written[i] = [@ EXCEPT ![3] = FALSE], !.env_delay[i] = period, !.env[i] = 15]
    ELSE IF s.env_delay[i] > 0 THEN [s EXCEPT !.env_delay[i] = @ - 1]
    ELSE [s EXCEPT !.env_delay[i] = period,
                   !.env[i] = IF @ # 0 \/ BitOf(s.regs[i][0], 5) = 1 THEN (@ - 1) % 16 ELSE @]

ClockLinear(s) ==
    [s EXCEPT !.linear = IF s.written[2][3] THEN s.regs[2][0] % 128
                         ELSE IF @ > 0 THEN @ - 1 ELSE 0,
              !.written[2][3] = @ /\ BitOf(s.regs[2][0], 7) = 1]

\* Square 1 subtracts one more than square 2 when a sweep goes down.
Swept(s, i, negative_adjust) ==
    LET sweep == s.regs[i][1]
        period == Period(s, i)
        offset == period \div 2^(sweep % 8)
        new == period + (IF BitOf(sweep, 3) = 1 THEN negative_adjust - offset ELSE offset)
    IN IF sweep % 8 # 0 /\ sweep >= 128 /\ period >= 8 /\ new < 2048
       THEN [s.regs[i] EXCEPT ![2] = new % 256, ![3] = ((@ \div 8) * 8) + ((new \div 256) % 8)]
       ELSE s.regs[i]
ClockSweep(s, i, negative_adjust) ==
    LET due == s.sweep_delay[i] = 0
    IN [s EXCEPT !.regs[i] = IF due THEN Swept(s, i, negative_adjust) ELSE @,
                 !.sweep_delay[i] = IF due \/ s.written[i][1] THEN (s.regs[i][1] \div 16) % 8
                                    ELSE @ - 1,
                 !.written[i] = [@ EXCEPT ![1] = FALSE]]

---------------------------------------------------------------------------
(* The DMC *)

IrqChanged(s) ==
    [s EXCEPT !.earliest = IF s.dmc.irq_flag \/ s.irq_flag THEN 0
                           ELSE Earlier(s.dmc.next_irq, s.next_irq)]

\* A fault: the byte under way counts as a whole one.
RecalcIrqWholeBytes(s) ==
    IF s.dmc.irq_enabled /\ s.len[4] > 0
    THEN IrqChanged([s EXCEPT !.dmc.next_irq = s.last_dmc_time + s.delay[4]
                                               + (s.len[4] * 8 - 1) * s.dmc.period + 1])
    ELSE IrqChanged([s EXCEPT !.dmc.next_irq = NoIrq])

RecalcIrq(s) ==
    LET irq == IF s.dmc.irq_enabled /\ s.len[4] > 0
               THEN s.last_dmc_time + s.delay[4]
                    + ((s.len[4] - 1) * 8 + s.dmc.bits_remain - 1) * s.dmc.period + 1
               ELSE NoIrq
    IN IF irq = s.dmc.next_irq THEN s ELSE IrqChanged([s EXCEPT !.dmc.next_irq = irq])

ReloadSample(s) ==
    [s EXCEPT !.dmc.address = 16384 + s.regs[4][2] * 64, !.len[4] = s.regs[4][3] * 16 + 1]
Loops(s) == (s.regs[4][0] \div 64) % 2 = 1

\* One byte is read ahead. The last one reloads the sample or ends it with its IRQ.
ReadByte(s) ==
    [s EXCEPT !.dmc = [@ EXCEPT !.address = (s.dmc.address + 1) % 32768, !.buf_full = TRUE,
                                !.reads = s.dmc.reads + 1],
              !.len[4] = @ - 1]
EndSample(s) ==
    IrqChanged([s EXCEPT !.enables = @ \ {4},
                         !.dmc = [@ EXCEPT !.irq_flag = s.dmc.irq_enabled, !.next_irq = NoIrq]])
FillBuffer(s) ==
    IF s.dmc.buf_full \/ s.len[4] = 0 THEN s
    ELSE IF s.len[4] > 1 THEN ReadByte(s)
    ELSE IF Loops(s) THEN ReloadSample(ReadByte(s)) ELSE EndSample(ReadByte(s))

DmcStart(s) == RecalcIrq(FillBuffer(ReloadSample(s)))

\* The end of a byte: the one read ahead is played, and the next is read.
ByteEnd(s) ==
    IF ~s.dmc.buf_full THEN [s EXCEPT !.dmc = [@ EXCEPT !.bits_remain = 8, !.silence = TRUE]]
    ELSE FillBuffer([s EXCEPT !.dmc = [@ EXCEPT !.bits_remain = 8, !.buf_full = FALSE,
                                                !.silence = 4 \notin s.outputs]])

\* How many bytes end in so many bits.
ByteEnds(bits, remain) == IF bits < remain THEN 0 ELSE (bits - remain) \div 8 + 1

\* The bits from time to end. A silent DMC with nothing read ahead only keeps its place in the byte.
DmcRun(s, from, end) ==
    LET t == IF 4 \in s.outputs THEN s ELSE [s EXCEPT !.dmc.silence = TRUE]
        bits == StepsTo(from + s.delay[4], end, s.dmc.period)
        remain == s.dmc.bits_remain
        ends == ByteEnds(bits, remain)
        u == IF t.dmc.silence /\ ~t.dmc.buf_full
             THEN [t EXCEPT !.dmc.bits_remain = ((remain + 7 - (bits % 8)) % 8) + 1]
             ELSE [Repeat(ByteEnd, t, ends) EXCEPT
                       !.dmc.bits_remain = IF ends = 0 THEN remain - bits
                                           ELSE 8 - ((bits - remain) % 8)]
    IN [u EXCEPT !.delay[4] = from + @ + bits * s.dmc.period - end]

\* count_reads(): what running until time would read, worked out.
NextDmcRead(s) == IF s.len[4] = 0 THEN NoIrq
                  ELSE s.last_dmc_time + s.delay[4] + (s.dmc.bits_remain - 1) * s.dmc.period
\* A fault: a read on the very clock asked for is counted.
CountReadsInclusive(s, time) ==
    LET avail == time - NextDmcRead(s)
        count == avail \div (s.dmc.period * 8) + 1
    IN IF s.len[4] = 0 \/ avail < 0 THEN 0
       ELSE IF Loops(s) THEN count ELSE Earlier(count, s.len[4])

CountReads(s, time) ==
    LET avail == time - NextDmcRead(s)
        count == (avail - 1) \div (s.dmc.period * 8) + 1
    IN IF s.len[4] = 0 \/ avail <= 0 THEN 0
       ELSE IF Loops(s) THEN count ELSE Earlier(count, s.len[4])

DmcWrite(s, reg, data) ==
    LET irq == data \div 64 = 2                           \* the IRQ, and no loop
    IN IF reg # 0 THEN s
       ELSE RecalcIrq([s EXCEPT
                !.dmc.period = dmc_period_table[IF s.pal THEN "pal" ELSE "ntsc"][(data % 16) + 1],
                !.dmc.irq_enabled = irq, !.dmc.irq_flag = @ /\ irq])

---------------------------------------------------------------------------
(* Running *)

\* The next step of the frame sequencer: its IRQ, the length counters and sweeps on two steps
\* of four, the envelopes and the linear counter on each.
ClockLengths(s) ==
    LET t == ClockLength(s, 0)
        u == ClockLength(t, 1)
        v == ClockLength(u, 3)
    IN ClockLength(v, 2)
ClockSweeps(s) ==
    LET t == ClockSweep(s, 0, -1)
    IN ClockSweep(t, 1, 0)
ClockEnvelopes(s) ==
    LET t == ClockEnvelope(s, 0)
        u == ClockEnvelope(t, 1)
    IN ClockEnvelope(u, 3)

\* A fault: all steps of the sequencer last the same.
ToNextStepEven(s) ==
    IF s.frame = 3 /\ s.mode >= 128 THEN 2 * s.frame_period - 6 ELSE s.frame_period

\* The clocks from a step of the sequencer to the next.
ToNextStep(s) ==
    LET p == s.frame_period
    IN CASE s.frame = 2 /\ s.pal -> p - 2
         [] s.frame = 1 /\ ~s.pal -> p - 2
         [] s.frame = 3 /\ s.mode >= 128 -> p + p - (IF s.pal THEN 2 ELSE 6)
         [] OTHER -> p

FrameStep(s) ==
    LET irq == s.frame = 0 /\ s.mode % 128 < 64 /\ s.mode < 128
        t == [s EXCEPT
                !.next_irq = IF irq THEN s.last_time + s.frame_period * 4 + 2 ELSE @,
                !.irq_flag = @ \/ irq,
                !.frame = (@ + 1) % 4,
                !.frame_delay = ToNextStep(s)]
        u == IF s.frame \in {0, 2} THEN ClockSweeps(ClockLengths(t)) ELSE t
    IN ClockEnvelopes(ClockLinear(u))

RunOscillators(s, from, end) ==
    LET t == RunSquare(s, 0, from, end)
        u == RunSquare(t, 1, from, end)
        v == RunTriangle(u, from, end)
    IN RunNoise(v, from, end)

\* An iteration of run_until_(): the oscillators up to the next step of the sequencer or the end.
Iteration(s, end) ==
    LET time == Earlier(s.last_time + s.frame_delay, end)
        t == [RunOscillators(s, s.last_time, time) EXCEPT
                  !.last_time = time, !.frame_delay = @ - (time - s.last_time)]
    IN IF s.last_time = end THEN s ELSE IF time = end THEN t ELSE FrameStep(t)

RunDmcUntil(s, end) ==
    IF s.last_dmc_time < end
    THEN DmcRun([s EXCEPT !.last_dmc_time = end], s.last_dmc_time, end) ELSE s

\* run_until_(), whose loop ends within as many iterations as it is given here.
RunUntil(s, end) ==
    IF end = s.last_time THEN s
    ELSE Repeat(LAMBDA t : Iteration(t, end), RunDmcUntil(s, end),
                (end - s.last_time) \div (s.frame_period - 2) + 3)

\* A fault: the time worked out for the frame IRQ stays in the old frame.
EndFrameKeepsIrq(s, end) ==
    LET t == IF end > s.last_time THEN RunUntil(s, end) ELSE s
    IN [t EXCEPT !.last_time = @ - end, !.last_dmc_time = @ - end,
                 !.dmc.next_irq = IF @ = NoIrq THEN @ ELSE @ - end,
                 !.earliest = IF @ = NoIrq THEN @ ELSE IF @ < end THEN 0 ELSE @ - end]

\* Times are counted from the end of the last frame.
EndFrame(s, end) ==
    LET t == IF end > s.last_time THEN RunUntil(s, end) ELSE s
    IN [t EXCEPT !.last_time = @ - end, !.last_dmc_time = @ - end,
                 !.next_irq = IF @ = NoIrq THEN @ ELSE @ - end,
                 !.dmc.next_irq = IF @ = NoIrq THEN @ ELSE @ - end,
                 !.earliest = IF @ = NoIrq THEN @ ELSE IF @ < end THEN 0 ELSE @ - end]

---------------------------------------------------------------------------
(* Registers *)

\* A fault: the length is loaded whether or not the channel is enabled.
WriteChannelAlways(s, addr, data) ==
    LET i == (addr - 16384) \div 4
        t == [s EXCEPT !.regs[i][addr % 4] = data, !.written[i][addr % 4] = TRUE]
    IN IF i = 4 THEN DmcWrite(t, addr % 4, data)
       ELSE IF addr % 4 # 3 THEN t ELSE [t EXCEPT !.len[i] = length_table[data \div 8 + 1]]

\* $4000-$4013: a write to the fourth register of a channel that is enabled loads its length.
WriteChannel(s, addr, data) ==
    LET i == (addr - 16384) \div 4
        reg == addr % 4
        t == [s EXCEPT !.regs[i][reg] = data, !.written[i][reg] = TRUE]
    IN IF i = 4 THEN DmcWrite(t, reg, data)
       ELSE IF reg # 3 THEN t
       ELSE [t EXCEPT !.len[i] = IF i \in s.enables THEN length_table[data \div 8 + 1] ELSE @,
                      !.phase = IF i < 2 THEN [@ EXCEPT ![i] = 7] ELSE @]

\* $4015: a channel that is not enabled is cut; the DMC starts when its bit appears.
WriteEnables(s, data) ==
    LET on == {i \in Oscs : BitOf(data, i) = 1}
        t == [s EXCEPT !.len = [i \in Oscs |-> IF i \in on THEN s.len[i] ELSE 0],
                       !.dmc.irq_flag = FALSE, !.enables = on,
                       !.dmc.next_irq = IF 4 \in on THEN @ ELSE NoIrq]
        u == IF 4 \in on \ s.enables THEN DmcStart(t) ELSE t
    IN IF s.dmc.irq_flag \/ 4 \notin on THEN IrqChanged(u) ELSE u

\* $4017: the sequencer starts over, on the same side of a clock.
WriteMode(s, time, data) ==
    LET irq == BitOf(data, 6) = 0
        delay == (s.frame_delay % 2) + (IF data < 128 THEN s.frame_period ELSE 0)
    IN IrqChanged([s EXCEPT
           !.mode = data, !.irq_flag = @ /\ irq, !.frame_delay = delay,
           !.frame = IF data < 128 THEN 1 ELSE 0,
           !.next_irq = IF data < 128 /\ irq THEN time + delay + s.frame_period * 3 + 1 ELSE NoIrq])

WriteRegister(s, time, addr, data) ==
    LET t == RunUntil(s, time)
    IN CASE addr \in 16384 .. 16403 -> WriteChannel(t, addr, data)
         [] addr = 16405 -> WriteEnables(t, data)
         [] addr = 16407 -> WriteMode(t, time, data)
         [] OTHER -> t

\* $4015 read: as it was a clock before, but for a frame IRQ of this very clock, which it clears.
Status(s, time) ==
    LET before == RunUntil(s, time - 1)
        after == RunUntil(before, time)
    IN [result |-> {i \in Oscs : before.len[i] > 0}
                   \cup (IF before.dmc.irq_flag THEN {7} ELSE {})
                   \cup (IF after.irq_flag THEN {6} ELSE {}),
        apu |-> IF after.irq_flag THEN IrqChanged([after EXCEPT !.irq_flag = FALSE]) ELSE after]

SetTempo(s, num, den) ==
    [s EXCEPT !.frame_period = IF num = den THEN FramePeriod(s)
                               ELSE 2 * ((FramePeriod(s) * den) \div (2 * num))]

\* reset(), at time 0: the length counters are cleared by its write to $4015. The square's phase
\* is set by its write to their fourth register.
ResetWrites ==
    <<<<16407, 0>>, <<16405, 0>>>>
    \o [k \in 1 .. 20 |-> <<16383 + k, IF (k - 1) % 4 = 0 THEN 16 ELSE 0>>]
WriteAll(s, time, writes) ==
    LET after[n \in 0 .. Len(writes)] ==
            IF n = 0 THEN s ELSE WriteRegister(after[n - 1], time, writes[n][1], writes[n][2])
    IN after[Len(writes)]
PoweredOn(pal, outputs) ==
      [regs |-> [i \in Oscs |-> [k \in 0 .. 3 |-> 0]],
       written |-> [i \in Oscs |-> [k \in 0 .. 3 |-> FALSE]],
       len |-> [i \in Oscs |-> 0], delay |-> [i \in Oscs |-> 0], phase |-> [i \in 0 .. 2 |-> i \div 2],
       env |-> [i \in Enveloped |-> 0], env_delay |-> [i \in Enveloped |-> 0],
       sweep_delay |-> [i \in 0 .. 1 |-> 0], linear |-> 0, shifts |-> 0,
       dmc |-> [address |-> 0, period |-> 428, bits_remain |-> 1, buf_full |-> FALSE,
                silence |-> TRUE, next_irq |-> NoIrq, irq_enabled |-> FALSE, irq_flag |-> FALSE,
                reads |-> 0],
       last_time |-> 0, last_dmc_time |-> 0, frame_delay |-> 1,
       frame_period |-> 0, frame |-> 0, mode |-> 0, enables |-> {},
       irq_flag |-> FALSE, next_irq |-> NoIrq, earliest |-> NoIrq, outputs |-> outputs,
       pal |-> pal]
Reset(pal, outputs, tempo) ==
    WriteAll(SetTempo(PoweredOn(pal, outputs), tempo[1], tempo[2]), 0, ResetWrites)
===========================================================================
