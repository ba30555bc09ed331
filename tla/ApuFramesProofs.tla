--------------------------- MODULE ApuFramesProofs ---------------------------
(***************************************************************************)
(* For every sample, tempo and list of register writes, and for waits of   *)
(* any length: how the DMC gets through its bytes and when its IRQ comes,  *)
(* where the frame sequencer's steps fall however its time is cut, and     *)
(* that a channel which is enabled is one that plays.                      *)
(***************************************************************************)
EXTENDS ApuFrames, WellFoundedInduction, SequenceTheorems, TLAPS

\* A quotient and a remainder, by the lines they satisfy.
LEMMA Division ==
  ASSUME NEW n \in Int, NEW d \in Nat \ {0}
  PROVE  /\ n \div d \in Int /\ n % d \in Int
         /\ n = (n \div d) * d + (n % d) /\ 0 <= n % d /\ n % d < d
  OBVIOUS

\* The fields of a chip and of its DMC.
Fields == {"regs", "written", "len", "delay", "phase", "env", "env_delay", "sweep_delay", "linear",
           "shifts", "dmc", "last_time", "last_dmc_time", "frame_delay", "frame_period", "frame",
           "mode", "enables", "irq_flag", "next_irq", "earliest", "outputs", "pal"}
DmcFields == {"address", "period", "bits_remain", "buf_full", "silence", "next_irq",
              "irq_enabled", "irq_flag", "reads"}

\* The fields and the ranges that the chip's own code relies on.
Shaped(s) ==
  /\ DOMAIN s = Fields /\ DOMAIN s.dmc = DmcFields
  /\ DOMAIN s.regs = Oscs /\ s.regs[4] \in [0 .. 3 -> 0 .. 255]
  /\ s.len \in [Oscs -> Nat] /\ DOMAIN s.delay = Oscs /\ s.delay[4] \in Nat

\* What the other oscillators, their envelopes and their counters leave to the DMC, and the way
\* their lengths go.
Leaves(s, t) ==
  /\ Shaped(t)
  /\ t.dmc = s.dmc /\ t.enables = s.enables /\ t.regs[4] = s.regs[4]
  /\ t.delay[4] = s.delay[4] /\ t.len[4] = s.len[4] /\ \A i \in 0 .. 3 : t.len[i] <= s.len[i]
  /\ t.last_dmc_time = s.last_dmc_time /\ t.frame_period = s.frame_period
  /\ t.mode = s.mode /\ t.pal = s.pal

\* ...and to the sequencer.
Clockless(s, t) ==
  Leaves(s, t) /\ t.last_time = s.last_time /\ t.frame_delay = s.frame_delay /\ t.frame = s.frame

\* One step that leaves the clocks alone, and another.
LEMMA ClocklessChains ==
  ASSUME NEW s, NEW t, NEW u, Shaped(s), Clockless(s, t), Clockless(t, u)
  PROVE  Clockless(s, u)
  <1>1. \A i \in 0 .. 3 : u.len[i] <= s.len[i]
    BY DEF Shaped, Clockless, Leaves, Oscs
  <1> QED
    BY <1>1 DEF Clockless, Leaves

\* Nes_Square::run() moves its own phase and delay.
LEMMA RunSquareKeeps ==
  ASSUME NEW s, Shaped(s), NEW i \in 0 .. 1, NEW from, NEW end
  PROVE  Clockless(s, RunSquare(s, i, from, end))
  <1> DEFINE timer == (Period(s, i) + 1) * 2
             count == StepsTo(from + s.delay[i], end, timer)
  <1>1. PICK p, d : RunSquare(s, i, from, end) = [s EXCEPT !.phase[i] = p, !.delay[i] = d]
    <2>1. RunSquare(s, i, from, end)
            = [s EXCEPT !.phase[i] = (s.phase[i] + count) % 8,
                        !.delay[i] = from + s.delay[i] + count * timer - end]
      BY DEF RunSquare, Shaped, Fields
    <2> QED
      BY <2>1
  <1> QED
    BY <1>1 DEF Shaped, Fields, Oscs, Clockless, Leaves

\* Nes_Triangle::run() moves its own phase and delay.
LEMMA RunTriangleKeeps ==
  ASSUME NEW s, Shaped(s), NEW from, NEW end
  PROVE  Clockless(s, RunTriangle(s, from, end))
  BY DEF RunTriangle, Shaped, Fields, Oscs, Clockless, Leaves

\* Nes_Noise::run() moves its own delay and its shift register.
LEMMA RunNoiseKeeps ==
  ASSUME NEW s, Shaped(s), NEW from, NEW end
  PROVE  Clockless(s, RunNoise(s, from, end))
  BY DEF RunNoise, Shaped, Fields, Oscs, Clockless, Leaves

\* A length counter only goes down.
LEMMA ClockLengthKeeps ==
  ASSUME NEW s, Shaped(s), NEW i \in 0 .. 3
  PROVE  Clockless(s, ClockLength(s, i))
  <1>1. CASE ClockLength(s, i) = s
    BY <1>1 DEF Shaped, Clockless, Leaves, Oscs
  <1>2. CASE ClockLength(s, i) # s
    <2>1. s.len[i] > 0 /\ ClockLength(s, i) = [s EXCEPT !.len[i] = s.len[i] - 1]
      BY <1>2 DEF ClockLength, Shaped, Fields, Oscs
    <2> QED
      BY <2>1 DEF Shaped, Fields, Oscs, Clockless, Leaves
  <1> QED
    BY <1>1, <1>2

\* An envelope moves itself.
LEMMA ClockEnvelopeKeeps ==
  ASSUME NEW s, Shaped(s), NEW i \in Enveloped
  PROVE  Clockless(s, ClockEnvelope(s, i))
  BY DEF ClockEnvelope, Shaped, Fields, Oscs, Clockless, Leaves

\* The linear counter moves itself.
LEMMA ClockLinearKeeps ==
  ASSUME NEW s, Shaped(s)
  PROVE  Clockless(s, ClockLinear(s))
  BY DEF ClockLinear, Shaped, Fields, Oscs, Clockless, Leaves

\* A sweep changes registers of its own square only.
LEMMA ClockSweepKeeps ==
  ASSUME NEW s, Shaped(s), NEW i \in 0 .. 1, NEW a
  PROVE  Clockless(s, ClockSweep(s, i, a))
  BY DEF ClockSweep, Shaped, Fields, Oscs, Clockless, Leaves

\* The oscillators, run to the next step of the sequencer.
LEMMA OscillatorsKeep ==
  ASSUME NEW s, Shaped(s), NEW from, NEW end
  PROVE  Clockless(s, RunOscillators(s, from, end))
  <1>1. PICK t : t = RunSquare(s, 0, from, end)
    OBVIOUS
  <1>2. Clockless(s, t)
    BY <1>1, RunSquareKeeps
  <1>3. PICK u : u = RunSquare(t, 1, from, end)
    OBVIOUS
  <1>4. Clockless(s, u)
    BY <1>2, <1>3, RunSquareKeeps, ClocklessChains DEF Clockless, Leaves
  <1>5. PICK v : v = RunTriangle(u, from, end)
    OBVIOUS
  <1>6. Clockless(s, v)
    BY <1>4, <1>5, RunTriangleKeeps, ClocklessChains DEF Clockless, Leaves
  <1>7. PICK w : w = RunNoise(v, from, end)
    OBVIOUS
  <1>8. Clockless(s, w)
    BY <1>6, <1>7, RunNoiseKeeps, ClocklessChains DEF Clockless, Leaves
  <1>9. RunOscillators(s, from, end) = w
    BY <1>1, <1>3, <1>5, <1>7 DEF RunOscillators
  <1> QED
    BY <1>8, <1>9

\* The four length counters together.
LEMMA LengthsKeep ==
  ASSUME NEW s, Shaped(s) PROVE Clockless(s, ClockLengths(s))
  <1>1. PICK t : t = ClockLength(s, 0)
    OBVIOUS
  <1>2. Clockless(s, t)
    BY <1>1, ClockLengthKeeps
  <1>3. PICK u : u = ClockLength(t, 1)
    OBVIOUS
  <1>4. Clockless(s, u)
    BY <1>2, <1>3, ClockLengthKeeps, ClocklessChains DEF Clockless, Leaves
  <1>5. PICK v : v = ClockLength(u, 3)
    OBVIOUS
  <1>6. Clockless(s, v)
    BY <1>4, <1>5, ClockLengthKeeps, ClocklessChains DEF Clockless, Leaves
  <1>7. PICK w : w = ClockLength(v, 2)
    OBVIOUS
  <1>8. Clockless(s, w)
    BY <1>6, <1>7, ClockLengthKeeps, ClocklessChains DEF Clockless, Leaves
  <1>9. ClockLengths(s) = w
    BY <1>1, <1>3, <1>5, <1>7 DEF ClockLengths
  <1> QED
    BY <1>8, <1>9

\* The two sweeps together.
LEMMA SweepsKeep ==
  ASSUME NEW s, Shaped(s) PROVE Clockless(s, ClockSweeps(s))
  <1>1. PICK t : t = ClockSweep(s, 0, -1)
    OBVIOUS
  <1>2. Clockless(s, t)
    BY <1>1, ClockSweepKeeps
  <1>3. PICK u : u = ClockSweep(t, 1, 0)
    OBVIOUS
  <1>4. Clockless(s, u)
    BY <1>2, <1>3, ClockSweepKeeps, ClocklessChains DEF Clockless, Leaves
  <1>5. ClockSweeps(s) = u
    BY <1>1, <1>3 DEF ClockSweeps
  <1> QED
    BY <1>4, <1>5

\* The linear counter and the three envelopes together.
LEMMA EnvelopesKeep ==
  ASSUME NEW s, Shaped(s) PROVE Clockless(s, ClockEnvelopes(ClockLinear(s)))
  <1>1. PICK r : r = ClockLinear(s)
    OBVIOUS
  <1>2. Clockless(s, r)
    BY <1>1, ClockLinearKeeps
  <1>3. PICK t : t = ClockEnvelope(r, 0)
    OBVIOUS
  <1>4. Clockless(s, t)
    BY <1>2, <1>3, ClockEnvelopeKeeps, ClocklessChains DEF Clockless, Leaves, Enveloped
  <1>5. PICK u : u = ClockEnvelope(t, 1)
    OBVIOUS
  <1>6. Clockless(s, u)
    BY <1>4, <1>5, ClockEnvelopeKeeps, ClocklessChains DEF Clockless, Leaves, Enveloped
  <1>7. PICK v : v = ClockEnvelope(u, 3)
    OBVIOUS
  <1>8. Clockless(s, v)
    BY <1>6, <1>7, ClockEnvelopeKeeps, ClocklessChains DEF Clockless, Leaves, Enveloped
  <1>9. ClockEnvelopes(r) = v
    BY <1>3, <1>5, <1>7 DEF ClockEnvelopes
  <1> QED
    BY <1>1, <1>8, <1>9

---------------------------------------------------------------------------
(* The DMC *)

\* What the DMC leaves to the others.
Aside(s, t) ==
  /\ Shaped(t)
  /\ t.regs = s.regs /\ t.delay = s.delay /\ \A i \in 0 .. 3 : t.len[i] = s.len[i]
  /\ \A i \in 0 .. 3 : i \in t.enables <=> i \in s.enables
  /\ t.last_time = s.last_time /\ t.last_dmc_time = s.last_dmc_time
  /\ t.frame_delay = s.frame_delay /\ t.frame_period = s.frame_period /\ t.frame = s.frame
  /\ t.mode = s.mode /\ t.pal = s.pal

\* One step aside, and another.
LEMMA AsideChains ==
  ASSUME NEW s, NEW t, NEW u, Aside(s, t), Aside(t, u) PROVE Aside(s, u)
  BY DEF Aside

\* The earliest IRQ is worked out anew and nothing else changes.
LEMMA IrqChangedKeeps ==
  ASSUME NEW s, Shaped(s)
  PROVE  /\ Aside(s, IrqChanged(s)) /\ IrqChanged(s).dmc = s.dmc
         /\ IrqChanged(s).len = s.len /\ IrqChanged(s).enables = s.enables
  BY DEF IrqChanged, Shaped, Fields, Aside

\* The DMC's sample starts again: address and length, by its registers.
LEMMA ReloadSampleSets ==
  ASSUME NEW s, Shaped(s), NEW u, u = ReloadSample(s)
  PROVE  /\ Aside(s, u) /\ u.enables = s.enables
         /\ u.len[4] = s.regs[4][3] * 16 + 1 /\ u.len[4] \in Nat /\ u.len[4] > 0
         /\ u.dmc.period = s.dmc.period /\ u.dmc.bits_remain = s.dmc.bits_remain
         /\ u.dmc.buf_full = s.dmc.buf_full /\ u.dmc.next_irq = s.dmc.next_irq
         /\ u.dmc.irq_enabled = s.dmc.irq_enabled /\ u.dmc.irq_flag = s.dmc.irq_flag
         /\ u.dmc.reads = s.dmc.reads
  <1>1. s.regs[4][3] \in 0 .. 255
    BY DEF Shaped
  <1> QED
    BY <1>1 DEF ReloadSample, Shaped, Fields, DmcFields, Oscs, Aside

\* The numbers and flags a byte read ahead leaves as they are.
Clocked(s, t) ==
  t.dmc.period = s.dmc.period /\ t.dmc.bits_remain = s.dmc.bits_remain
  /\ t.dmc.irq_enabled = s.dmc.irq_enabled

\* A byte read ahead is one byte fewer.
LEMMA ReadByteReads ==
  ASSUME NEW s, Shaped(s), s.len[4] > 0, NEW t, t = ReadByte(s)
  PROVE  /\ Aside(s, t) /\ Clocked(s, t) /\ t.dmc.reads = s.dmc.reads + 1
         /\ t.len[4] = s.len[4] - 1 /\ t.dmc.buf_full = TRUE /\ t.enables = s.enables
         /\ t.dmc.next_irq = s.dmc.next_irq /\ t.dmc.irq_flag = s.dmc.irq_flag
  <1>6. t.dmc = [s.dmc EXCEPT !.address = (s.dmc.address + 1) % 32768, !.buf_full = TRUE,
                              !.reads = s.dmc.reads + 1]
    BY DEF ReadByte, Shaped, Fields
  <1>1. /\ t.dmc.reads = s.dmc.reads + 1
        /\ t.dmc.buf_full = TRUE
        /\ t.dmc.next_irq = s.dmc.next_irq /\ t.dmc.irq_flag = s.dmc.irq_flag
    BY <1>6 DEF Shaped, DmcFields
  <1>2. t.len = [s.len EXCEPT ![4] = s.len[4] - 1]
    BY DEF ReadByte, Shaped, Fields
  <1>3. t.len \in [Oscs -> Nat] /\ t.len[4] = s.len[4] - 1 /\ \A i \in 0 .. 3 : t.len[i] = s.len[i]
    BY <1>2 DEF Shaped, Oscs
  <1>4. DOMAIN t.dmc = DmcFields /\ Clocked(s, t)
    BY <1>6 DEF Shaped, DmcFields, Clocked
  <1>5. /\ DOMAIN t = Fields /\ t.enables = s.enables /\ t.regs = s.regs /\ t.delay = s.delay
        /\ t.last_time = s.last_time /\ t.last_dmc_time = s.last_dmc_time
        /\ t.frame_delay = s.frame_delay /\ t.frame_period = s.frame_period /\ t.frame = s.frame
        /\ t.mode = s.mode /\ t.pal = s.pal
    BY DEF ReadByte, Shaped, Fields
  <1> QED
    BY <1>1, <1>3, <1>4, <1>5 DEF Aside, Shaped

\* After the last byte the DMC is off, and its IRQ flag is what was asked for.
LEMMA EndSampleEnds ==
  ASSUME NEW s, Shaped(s), NEW u, u = EndSample(s)
  PROVE  /\ Aside(s, u) /\ Clocked(s, u) /\ u.dmc.reads = s.dmc.reads /\ u.len = s.len
         /\ u.enables = s.enables \ {4} /\ u.dmc.next_irq = NoIrq
         /\ u.dmc.irq_flag = s.dmc.irq_enabled
  <1>1. PICK v : v = [s EXCEPT !.enables = @ \ {4},
                        !.dmc = [@ EXCEPT !.irq_flag = s.dmc.irq_enabled, !.next_irq = NoIrq]]
    OBVIOUS
  <1>2. u = IrqChanged(v)
    BY <1>1 DEF EndSample
  <1>7. v.dmc = [s.dmc EXCEPT !.irq_flag = s.dmc.irq_enabled, !.next_irq = NoIrq]
    BY <1>1 DEF Shaped, Fields
  <1>8. /\ v.dmc.reads = s.dmc.reads /\ Clocked(s, v) /\ DOMAIN v.dmc = DmcFields
        /\ v.dmc.next_irq = NoIrq /\ v.dmc.irq_flag = s.dmc.irq_enabled
    BY <1>7 DEF Shaped, DmcFields, Clocked
  <1>3. Aside(s, v) /\ v.len = s.len /\ v.enables = s.enables \ {4}
    BY <1>1, <1>8 DEF Shaped, Fields, Oscs, Aside
  <1>4. Shaped(v)
    BY <1>3 DEF Aside
  <1>5. /\ Aside(v, u) /\ u.dmc = v.dmc /\ u.len = v.len /\ u.enables = v.enables
    BY <1>2, <1>4, IrqChangedKeeps
  <1>6. Aside(s, u)
    BY <1>3, <1>5, AsideChains
  <1> QED
    BY <1>3, <1>5, <1>6, <1>8 DEF Clocked

\* fill_buffer() reads a byte, and at the last one loops or ends the sample.
LEMMA FillBufferReads ==
  ASSUME NEW s, Shaped(s), ~s.dmc.buf_full, s.len[4] > 0, NEW u, u = FillBuffer(s)
  PROVE  /\ Aside(s, u) /\ Clocked(s, u) /\ u.dmc.reads = s.dmc.reads + 1
         /\ s.len[4] > 1 => /\ u.len[4] = s.len[4] - 1 /\ u.dmc.buf_full = TRUE
                            /\ u.enables = s.enables /\ u.dmc.next_irq = s.dmc.next_irq
                            /\ u.dmc.irq_flag = s.dmc.irq_flag
         /\ s.len[4] = 1 /\ Loops(s) =>
                            /\ u.len[4] > 0 /\ u.dmc.buf_full = TRUE
                            /\ u.enables = s.enables /\ u.dmc.next_irq = s.dmc.next_irq
                            /\ u.dmc.irq_flag = s.dmc.irq_flag
         /\ s.len[4] = 1 /\ ~Loops(s) =>
                            /\ u.len[4] = 0 /\ u.enables = s.enables \ {4}
                            /\ u.dmc.next_irq = NoIrq
                            /\ u.dmc.irq_flag = s.dmc.irq_enabled
  <1>1. PICK t : t = ReadByte(s)
    OBVIOUS
  <1>2. /\ Aside(s, t) /\ Clocked(s, t) /\ t.dmc.reads = s.dmc.reads + 1
        /\ t.len[4] = s.len[4] - 1 /\ t.dmc.buf_full = TRUE /\ t.enables = s.enables
        /\ t.dmc.next_irq = s.dmc.next_irq /\ t.dmc.irq_flag = s.dmc.irq_flag
    BY <1>1, ReadByteReads
  <1>3. Shaped(t) /\ s.len[4] \in Nat
    BY <1>2 DEF Aside, Shaped, Oscs
  <1>4. CASE s.len[4] > 1
    <2>1. u = t
      BY <1>1, <1>3, <1>4 DEF FillBuffer
    <2> QED
      BY <1>2, <1>4, <2>1
  <1>5. CASE s.len[4] = 1 /\ Loops(s)
    <2>1. u = ReloadSample(t)
      BY <1>1, <1>5 DEF FillBuffer
    <2>2. /\ Aside(t, u) /\ u.enables = t.enables /\ u.len[4] > 0 /\ Clocked(t, u)
          /\ u.dmc.buf_full = t.dmc.buf_full /\ u.dmc.next_irq = t.dmc.next_irq
          /\ u.dmc.irq_flag = t.dmc.irq_flag /\ u.dmc.reads = t.dmc.reads
      BY <1>3, <2>1, ReloadSampleSets DEF Clocked
    <2>3. Aside(s, u)
      BY <1>2, <2>2, AsideChains
    <2> QED
      BY <1>2, <1>5, <2>2, <2>3 DEF Clocked
  <1>6. CASE s.len[4] = 1 /\ ~Loops(s)
    <2>1. u = EndSample(t)
      BY <1>1, <1>6 DEF FillBuffer
    <2>2. /\ Aside(t, u) /\ Clocked(t, u) /\ u.dmc.reads = t.dmc.reads /\ u.len = t.len
          /\ u.enables = t.enables \ {4} /\ u.dmc.next_irq = NoIrq
          /\ u.dmc.irq_flag = t.dmc.irq_enabled
      BY <1>3, <2>1, EndSampleEnds
    <2>3. Aside(s, u)
      BY <1>2, <2>2, AsideChains
    <2> QED
      BY <1>2, <1>6, <2>2, <2>3 DEF Clocked
  <1>7. s.len[4] > 1 \/ s.len[4] = 1
    BY <1>3
  <1> QED
    BY <1>4, <1>5, <1>6, <1>7, Zenon

\* The DMC is enabled as long as it has bytes, and one is read ahead.
Whole(s) == (4 \in s.enables <=> s.len[4] > 0) /\ (s.len[4] > 0 => s.dmc.buf_full)

\* The sample lasts longer than so many bytes.
Lasts(s, k) == s.len[4] > 0 /\ (Loops(s) \/ k < s.len[4])

\* u is s after the ends of k bytes.
Reads(s, u, k) ==
  /\ Aside(s, u) /\ u.dmc.period = s.dmc.period /\ u.dmc.irq_enabled = s.dmc.irq_enabled
  /\ Lasts(s, k) => /\ u.len[4] > 0 /\ (~Loops(s) => u.len[4] = s.len[4] - k)
                    /\ u.dmc.buf_full /\ (4 \in u.enables)
                    /\ u.dmc.reads = s.dmc.reads + k
                    /\ u.dmc.next_irq = s.dmc.next_irq /\ u.dmc.irq_flag = s.dmc.irq_flag
  /\ ~Lasts(s, k) => /\ u.len[4] = 0 /\ 4 \notin u.enables
                     /\ u.dmc.reads = s.dmc.reads + s.len[4]
                     /\ s.len[4] > 0 => /\ u.dmc.next_irq = NoIrq
                                        /\ u.dmc.irq_flag = s.dmc.irq_enabled
                     /\ s.len[4] = 0 => /\ u.dmc.next_irq = s.dmc.next_irq
                                        /\ u.dmc.irq_flag = s.dmc.irq_flag

\* No byte has ended.
LEMMA ReadsNothing ==
  ASSUME NEW s, Shaped(s), Whole(s), s.dmc.reads \in Int PROVE Reads(s, s, 0)
  <1>1. s.len[4] \in Nat
    BY DEF Shaped, Oscs
  <1>2. CASE s.len[4] > 0
    BY <1>1, <1>2 DEF Reads, Lasts, Aside, Whole
  <1>3. CASE s.len[4] = 0
    BY <1>1, <1>3 DEF Reads, Lasts, Aside, Whole
  <1> QED
    BY <1>1, <1>2, <1>3

\* At the end of a byte the DMC reads one, if there is one.
LEMMA ByteEndReads ==
  ASSUME NEW s, Shaped(s), Whole(s), s.dmc.reads \in Int, NEW u, u = ByteEnd(s)
  PROVE  Reads(s, u, 1)
  <1>1. s.len[4] \in Nat
    BY DEF Shaped, Oscs
  <1>2. PICK d : d = [s.dmc EXCEPT !.bits_remain = 8, !.silence = TRUE]
    OBVIOUS
  <1>3. PICK e : e = [s.dmc EXCEPT !.bits_remain = 8, !.buf_full = FALSE,
                                   !.silence = 4 \notin s.outputs]
    OBVIOUS
  <1>4. PICK a : a = [s EXCEPT !.dmc = d]
    OBVIOUS
  <1>5. PICK b : b = [s EXCEPT !.dmc = e]
    OBVIOUS
  <1>6. u = IF ~s.dmc.buf_full THEN a ELSE FillBuffer(b)
    BY <1>2, <1>3, <1>4, <1>5 DEF ByteEnd
  <1>7. /\ DOMAIN d = DmcFields /\ d.period = s.dmc.period /\ d.irq_enabled = s.dmc.irq_enabled
        /\ d.reads = s.dmc.reads /\ d.next_irq = s.dmc.next_irq /\ d.irq_flag = s.dmc.irq_flag
    BY <1>2 DEF Shaped, DmcFields
  <1>8. /\ DOMAIN e = DmcFields /\ e.period = s.dmc.period /\ e.irq_enabled = s.dmc.irq_enabled
        /\ e.reads = s.dmc.reads /\ e.next_irq = s.dmc.next_irq /\ e.irq_flag = s.dmc.irq_flag
        /\ e.buf_full = FALSE
    BY <1>3 DEF Shaped, DmcFields
  <1>9. Aside(s, a) /\ a.dmc = d /\ a.len = s.len /\ a.enables = s.enables
    BY <1>4, <1>7 DEF Shaped, Fields, Aside
  <1>10. Aside(s, b) /\ b.dmc = e /\ b.len = s.len /\ b.enables = s.enables
    BY <1>5, <1>8 DEF Shaped, Fields, Aside
  <1>11. CASE s.len[4] = 0
    <2>1. FillBuffer(b) = b
      BY <1>10, <1>11 DEF FillBuffer
    <2>2. u = a \/ u = b
      BY <1>6, <2>1
    <2>3. /\ Aside(s, u) /\ u.dmc.period = s.dmc.period /\ u.len = s.len /\ u.enables = s.enables
          /\ u.dmc.irq_enabled = s.dmc.irq_enabled /\ u.dmc.reads = s.dmc.reads
          /\ u.dmc.next_irq = s.dmc.next_irq /\ u.dmc.irq_flag = s.dmc.irq_flag
      BY <1>7, <1>8, <1>9, <1>10, <2>2
    <2> QED
      BY <1>11, <2>3 DEF Reads, Lasts, Whole
  <1>12. CASE s.len[4] > 0
    <2>1. u = FillBuffer(b)
      BY <1>6, <1>12 DEF Whole
    <2>2. Shaped(b) /\ ~b.dmc.buf_full /\ b.len[4] > 0
      BY <1>8, <1>10, <1>12 DEF Aside
    <2>3. (Loops(b) <=> Loops(s)) /\ 4 \in s.enables
      BY <1>10, <1>12 DEF Loops, Aside, Whole
    <2>4. /\ Aside(b, u) /\ Clocked(b, u) /\ u.dmc.reads = b.dmc.reads + 1
          /\ b.len[4] > 1 => /\ u.len[4] = b.len[4] - 1 /\ u.dmc.buf_full = TRUE
                             /\ u.enables = b.enables /\ u.dmc.next_irq = b.dmc.next_irq
                             /\ u.dmc.irq_flag = b.dmc.irq_flag
          /\ b.len[4] = 1 /\ Loops(b) =>
                             /\ u.len[4] > 0 /\ u.dmc.buf_full = TRUE
                             /\ u.enables = b.enables /\ u.dmc.next_irq = b.dmc.next_irq
                             /\ u.dmc.irq_flag = b.dmc.irq_flag
          /\ b.len[4] = 1 /\ ~Loops(b) =>
                             /\ u.len[4] = 0 /\ u.enables = b.enables \ {4}
                             /\ u.dmc.next_irq = NoIrq
                             /\ u.dmc.irq_flag = b.dmc.irq_enabled
      BY <2>1, <2>2, FillBufferReads
    <2>10. Aside(s, u)
      BY <1>10, <2>4, AsideChains
    <2>5. Aside(s, u) /\ u.dmc.period = s.dmc.period /\ u.dmc.irq_enabled = s.dmc.irq_enabled
      BY <1>8, <1>10, <2>4, <2>10 DEF Clocked
    <2>6. CASE s.len[4] > 1
      <3>1. Lasts(s, 1)
        BY <1>1, <2>6 DEF Lasts
      <3>2. u.len[4] = s.len[4] - 1 /\ u.len[4] > 0
        BY <1>1, <1>10, <2>4, <2>6
      <3> QED
        BY <1>8, <1>10, <2>3, <2>4, <2>5, <2>6, <3>1, <3>2 DEF Reads
    <2>7. CASE s.len[4] = 1 /\ Loops(s)
      <3>1. Lasts(s, 1)
        BY <2>7 DEF Lasts
      <3> QED
        BY <1>8, <1>10, <2>3, <2>4, <2>5, <2>7, <3>1 DEF Reads
    <2>8. CASE s.len[4] = 1 /\ ~Loops(s)
      <3>1. ~Lasts(s, 1)
        BY <2>8 DEF Lasts
      <3> QED
        BY <1>8, <1>10, <2>3, <2>4, <2>5, <2>8, <3>1 DEF Reads
    <2>9. s.len[4] > 1 \/ s.len[4] = 1
      BY <1>1, <1>12
    <2> QED
      BY <2>6, <2>7, <2>8, <2>9, Zenon
  <1>13. s.len[4] = 0 \/ s.len[4] > 0
    BY <1>1
  <1> QED
    BY <1>11, <1>12, <1>13, Zenon

\* The DMC is enabled while it has bytes, however many it has read.
LEMMA ReadsKeepWhole ==
  ASSUME NEW s, Shaped(s), Whole(s), s.dmc.reads \in Int, NEW k \in Nat, NEW u, Reads(s, u, k)
  PROVE  Shaped(u) /\ Whole(u) /\ u.dmc.reads \in Int /\ (Loops(u) <=> Loops(s))
  <1>1. Shaped(u) /\ u.regs = s.regs /\ s.len[4] \in Nat
    BY DEF Reads, Aside, Shaped, Oscs
  <1>2. Loops(u) <=> Loops(s)
    BY <1>1 DEF Loops
  <1>3. Lasts(s, k) \/ ~Lasts(s, k)
    OBVIOUS
  <1>4. Whole(u) /\ u.dmc.reads \in Int
    BY <1>1, <1>3 DEF Reads, Whole
  <1> QED
    BY <1>1, <1>2, <1>4

\* The end of one more byte.
LEMMA ReadsChain ==
  ASSUME NEW s, Shaped(s), Whole(s), s.dmc.reads \in Int, NEW k \in Nat, NEW t, Reads(s, t, k),
         NEW u, Reads(t, u, 1)
  PROVE  Reads(s, u, k + 1)
  <1>1. /\ Shaped(t) /\ Whole(t) /\ (Loops(t) <=> Loops(s)) /\ t.dmc.reads \in Int
        /\ s.len[4] \in Nat /\ t.len[4] \in Nat
    BY ReadsKeepWhole DEF Shaped, Oscs
  <1>2. Aside(s, u) /\ u.dmc.period = s.dmc.period /\ u.dmc.irq_enabled = s.dmc.irq_enabled
    BY AsideChains DEF Reads
  <1>3. CASE Lasts(s, k + 1)
    <2>1. Lasts(s, k)
      BY <1>1, <1>3 DEF Lasts
    <2>2. Lasts(t, 1)
      BY <1>1, <1>3, <2>1 DEF Reads, Lasts
    <2>3. /\ t.len[4] > 0 /\ (~Loops(s) => t.len[4] = s.len[4] - k)
          /\ t.dmc.reads = s.dmc.reads + k
          /\ t.dmc.next_irq = s.dmc.next_irq /\ t.dmc.irq_flag = s.dmc.irq_flag
      BY <2>1 DEF Reads
    <2>4. /\ u.len[4] > 0 /\ (~Loops(t) => u.len[4] = t.len[4] - 1)
          /\ u.dmc.buf_full /\ (4 \in u.enables)
          /\ u.dmc.reads = t.dmc.reads + 1
          /\ u.dmc.next_irq = t.dmc.next_irq /\ u.dmc.irq_flag = t.dmc.irq_flag
      BY <2>2 DEF Reads
    <2> QED
      BY <1>1, <1>2, <1>3, <2>3, <2>4 DEF Reads
  <1>4. CASE ~Lasts(s, k + 1) /\ Lasts(s, k)
    <2>1. /\ t.len[4] > 0 /\ (~Loops(s) => t.len[4] = s.len[4] - k)
          /\ t.dmc.reads = s.dmc.reads + k /\ t.dmc.irq_enabled = s.dmc.irq_enabled
      BY <1>4 DEF Reads
    <2>2. ~Loops(s) /\ s.len[4] = k + 1 /\ t.len[4] = 1 /\ s.len[4] > 0
      BY <1>1, <1>4, <2>1 DEF Lasts
    <2>3. ~Lasts(t, 1)
      BY <1>1, <2>2 DEF Lasts
    <2>4. /\ u.len[4] = 0 /\ 4 \notin u.enables /\ u.dmc.reads = t.dmc.reads + t.len[4]
          /\ u.dmc.next_irq = NoIrq /\ u.dmc.irq_flag = t.dmc.irq_enabled
      BY <2>2, <2>3 DEF Reads
    <2> QED
      BY <1>1, <1>2, <1>4, <2>1, <2>2, <2>4 DEF Reads
  <1>5. CASE ~Lasts(s, k + 1) /\ ~Lasts(s, k)
    <2>1. /\ t.len[4] = 0 /\ t.dmc.reads = s.dmc.reads + s.len[4]
          /\ s.len[4] > 0 => t.dmc.next_irq = NoIrq /\ t.dmc.irq_flag = s.dmc.irq_enabled
          /\ s.len[4] = 0 => t.dmc.next_irq = s.dmc.next_irq /\ t.dmc.irq_flag = s.dmc.irq_flag
      BY <1>5 DEF Reads
    <2>2. ~Lasts(t, 1)
      BY <2>1 DEF Lasts
    <2>3. /\ u.len[4] = 0 /\ 4 \notin u.enables /\ u.dmc.reads = t.dmc.reads + t.len[4]
          /\ u.dmc.next_irq = t.dmc.next_irq /\ u.dmc.irq_flag = t.dmc.irq_flag
      BY <2>1, <2>2 DEF Reads
    <2> QED
      BY <1>1, <1>2, <1>5, <2>1, <2>3 DEF Reads
  <1>6. Lasts(s, k + 1) => Lasts(s, k)
    BY <1>1 DEF Lasts
  <1> QED
    BY <1>3, <1>4, <1>5, <1>6

---------------------------------------------------------------------------
(* Numbers, and the bytes a run of the DMC gets through *)

\* Multiplication by a number keeps an order.
LEMMA Scaling ==
  ASSUME NEW a \in Int, NEW b \in Int, a <= b, NEW f \in Nat PROVE a * f <= b * f
  OBVIOUS

\* A multiple is at least as large.
LEMMA Multiples == ASSUME NEW a \in Int, NEW d \in Nat \ {0}, a >= 1 PROVE a * d >= d
  OBVIOUS

\* The quotient is the one number whose multiple is the last not beyond n.
LEMMA Quotient ==
  ASSUME NEW n \in Int, NEW d \in Nat \ {0}, NEW k \in Int,
         k * d <= n, n < k * d + d
  PROVE  n \div d = k
  <1> DEFINE m == n \div d
  <1>1. m \in Int /\ m * d <= n /\ n < m * d + d
    BY Division
  <1>2. CASE m >= k + 1
    <2>1. (m - k) * d >= d
      BY <1>1, <1>2, Multiples
    <2>2. (m - k) * d = m * d - k * d
      BY <1>1
    <2> QED
      BY <2>1, <2>2, <1>1
  <1>3. CASE k >= m + 1
    <2>1. (k - m) * d >= d
      BY <1>1, <1>3, Multiples
    <2>2. (k - m) * d = k * d - m * d
      BY <1>1
    <2> QED
      BY <2>1, <2>2, <1>1
  <1> QED
    BY <1>1, <1>2, <1>3

\* The order of the natural numbers, as a relation.
LEMMA LessIsWellFounded ==
  \E R : /\ IsWellFoundedOn(R, Nat)
         /\ \A k, m \in Nat : k < m => <<k, m>> \in R
  <1> DEFINE R == OpToRel(<, Nat)
  <1>1. IsWellFoundedOn(R, Nat)
    BY NatLessThanWellFounded, Zenon
  <1>2. \A k, m \in Nat : k < m => <<k, m>> \in R
    BY Zenon DEF OpToRel
  <1> HIDE DEF R
  <1> QED
    BY <1>1, <1>2, Zenon

\* Every set of natural numbers has a least one.
LEMMA LeastNumber ==
  ASSUME NEW T, T \subseteq Nat, T # {}
  PROVE  \E m \in T : \A k \in T : m <= k
  <1>1. PICK R : /\ IsWellFoundedOn(R, Nat)
                 /\ \A k, m \in Nat : k < m => <<k, m>> \in R
    BY LessIsWellFounded
  <1>2. PICK m \in T : \A k \in T : ~(<<k, m>> \in R)
    BY <1>1, WFMin, Zenon
  <1>3. \A k \in T : ~(k < m)
    BY <1>1, <1>2, Zenon
  <1> QED
    BY <1>3

\* A set that has 0, and with each number the next one, has them all.
LEMMA Induction ==
  ASSUME NEW T, 0 \in T, \A n \in Nat : n \in T => n + 1 \in T
  PROVE  \A n \in Nat : n \in T
  <1> SUFFICES ASSUME Nat \ T # {} PROVE FALSE
    OBVIOUS
  <1>1. PICK m \in Nat \ T : \A k \in Nat \ T : m <= k
    BY LeastNumber
  <1>2. m - 1 \in Nat
    BY <1>1
  <1>3. m - 1 \in T
    BY <1>1, <1>2
  <1> QED
    BY <1>1, <1>2, <1>3

\* The ends of some bytes, one after the other.
ByteEndsTo(s, n, f) == f = [k \in 0 .. n |-> IF k = 0 THEN s ELSE ByteEnd(f[k - 1])]

\* The ends of any number of bytes are there to be listed.
LEMMA ByteEndsExist == ASSUME NEW s, NEW n \in Nat PROVE \E f : ByteEndsTo(s, n, f)
  <1> DEFINE T == {m \in Nat : \E f : ByteEndsTo(s, m, f)}
  <1>1. 0 \in T
    <2> DEFINE g == [k \in 0 .. 0 |-> s]
    <2>1. ByteEndsTo(s, 0, g)
      BY DEF ByteEndsTo
    <2> HIDE DEF g
    <2> QED
      BY <2>1
  <1>2. ASSUME NEW m \in Nat, m \in T PROVE m + 1 \in T
    <2>1. PICK f : ByteEndsTo(s, m, f)
      BY <1>2
    <2> DEFINE g == [k \in 0 .. m + 1 |-> IF k = m + 1 THEN ByteEnd(f[m]) ELSE f[k]]
    <2>2. ASSUME NEW k \in 0 .. m + 1 PROVE g[k] = IF k = 0 THEN s ELSE ByteEnd(g[k - 1])
      <3>1. CASE k = m + 1
        BY <3>1
      <3>2. CASE k # m + 1
        <4>1. k \in 0 .. m /\ (k = 0 \/ k - 1 \in 0 .. m + 1) /\ k - 1 # m + 1
          BY <3>2
        <4>2. f[k] = IF k = 0 THEN s ELSE ByteEnd(f[k - 1])
          BY <2>1, <4>1 DEF ByteEndsTo
        <4>3. g[k] = f[k] /\ (k # 0 => g[k - 1] = f[k - 1])
          BY <4>1
        <4> QED
          BY <4>2, <4>3
      <3> QED
        BY <3>1, <3>2
    <2>3. g = [k \in 0 .. m + 1 |-> g[k]]
      OBVIOUS
    <2> HIDE DEF g
    <2>4. ByteEndsTo(s, m + 1, g)
      BY <2>2, <2>3 DEF ByteEndsTo
    <2> QED
      BY <2>4
  <1> HIDE DEF T
  <1>3. \A m \in Nat : m \in T
    BY <1>1, <1>2, Induction
  <1> QED
    BY <1>3 DEF T

\* The loop of Nes_Dmc::run() over the ends of its bytes: every one reads a byte.
LEMMA ByteEndsRead ==
  ASSUME NEW s, Shaped(s), Whole(s), s.dmc.reads \in Int, NEW n \in Nat
  PROVE  Reads(s, Repeat(ByteEnd, s, n), n)
  <1>1. Repeat(ByteEnd, s, n) = (CHOOSE f : ByteEndsTo(s, n, f))[n]
    BY Zenon DEF Repeat, ByteEndsTo
  <1>2. PICK f : f = (CHOOSE g : ByteEndsTo(s, n, g)) /\ ByteEndsTo(s, n, f)
    BY ByteEndsExist
  <1>6. \A j \in 0 .. n : f[j] = IF j = 0 THEN s ELSE ByteEnd(f[j - 1])
    <2>1. ByteEndsTo(s, n, f)
      BY <1>2
    <2> QED
      BY <2>1, Zenon DEF ByteEndsTo
  <1> DEFINE T == {k \in Nat : k <= n => Reads(s, f[k], k)}
  <1>3. 0 \in T
    <2>1. f[0] = s
      BY <1>6
    <2> QED
      BY <2>1, ReadsNothing
  <1>4. ASSUME NEW k \in Nat, k \in T PROVE k + 1 \in T
    <2> SUFFICES ASSUME k + 1 <= n PROVE Reads(s, f[k + 1], k + 1)
      OBVIOUS
    <2>1. Reads(s, f[k], k)
      BY <1>4
    <2>2. f[k + 1] = ByteEnd(f[k])
      <3>1. k + 1 \in 0 .. n /\ k + 1 # 0 /\ k + 1 - 1 = k
        OBVIOUS
      <3>2. f[k + 1] = IF k + 1 = 0 THEN s ELSE ByteEnd(f[k + 1 - 1])
        BY <1>6, <3>1
      <3> QED
        BY <3>1, <3>2, Zenon
    <2>3. Shaped(f[k]) /\ Whole(f[k]) /\ f[k].dmc.reads \in Int
      BY <2>1, ReadsKeepWhole
    <2>4. Reads(f[k], f[k + 1], 1)
      BY <2>2, <2>3, ByteEndReads
    <2> QED
      BY <2>1, <2>4, ReadsChain
  <1> HIDE DEF T
  <1>5. n \in T
    BY <1>3, <1>4, Induction
  <1> QED
    BY <1>1, <1>2, <1>5 DEF T

\* The steps of a timer before the end are those whose time has come.
LEMMA StepsCount ==
  ASSUME NEW time \in Int, NEW end \in Int, NEW p \in Nat \ {0}, NEW b, b = StepsTo(time, end, p)
  PROVE  /\ b \in Nat /\ end <= time + b * p
         /\ \A k \in Nat : k < b <=> time + k * p < end
  <1>1. CASE end <= time
    <2>1. b = 0
      BY <1>1 DEF StepsTo
    <2>2. \A k \in Nat : k * p \in Nat
      OBVIOUS
    <2> QED
      BY <1>1, <2>1, <2>2
  <1>2. CASE time < end
    <2> DEFINE v == end - time + p - 1
    <2>1. b = v \div p
      BY <1>2 DEF StepsTo, RoundUp, CDiv
    <2>2. v \in Nat
      BY <1>2
    <2>3. b \in Int /\ b * p \in Int /\ b * p <= v /\ v < b * p + p
      BY <2>1, <2>2, Division
    <2>4. b \in Nat
      <3> SUFFICES ASSUME b <= -1 PROVE FALSE
        BY <2>3
      <3>1. b * p <= (-1) * p
        BY <2>3, Scaling
      <3> QED
        BY <2>2, <2>3, <3>1
    <2>5. ASSUME NEW k \in Nat PROVE k < b <=> time + k * p < end
      <3>1. CASE k < b
        <4>1. (k + 1) * p <= b * p /\ (k + 1) * p = k * p + p
          BY <2>4, <3>1, Scaling
        <4> QED
          BY <2>3, <3>1, <4>1
      <3>2. CASE b <= k
        <4>1. b * p <= k * p
          BY <2>4, <3>2, Scaling
        <4> QED
          BY <2>3, <2>4, <3>2, <4>1
      <3> QED
        BY <2>4, <3>1, <3>2
    <2> QED
      BY <2>3, <2>4, <2>5
  <1> QED
    BY <1>1, <1>2

\* The ends of bytes are every eighth bit.
LEMMA EndsCount ==
  ASSUME NEW b \in Nat, NEW r \in 1 .. 8, NEW e, e = ByteEnds(b, r)
  PROVE  /\ e \in Nat /\ (e = 0 <=> b < r) /\ r - b + 8 * e \in 1 .. 8
         /\ e > 0 => e - 1 = (b - r) \div 8 /\ r - b + 8 * e = 8 - ((b - r) % 8)
  BY DEF ByteEnds

\* The counts of the DMC are counts.
DmcNumbers(s) ==
  s.dmc.period \in Nat \ {0} /\ s.dmc.bits_remain \in 1 .. 8 /\ s.dmc.reads \in Int

\* Two chips with the same bytes to play.
SameBytes(s, t) ==
  /\ Aside(s, t) /\ t.len = s.len /\ t.enables = s.enables
  /\ t.dmc.period = s.dmc.period /\ t.dmc.irq_enabled = s.dmc.irq_enabled
  /\ t.dmc.buf_full = s.dmc.buf_full /\ t.dmc.reads = s.dmc.reads
  /\ t.dmc.next_irq = s.dmc.next_irq /\ t.dmc.irq_flag = s.dmc.irq_flag

\* Bytes are read alike by chips that have the same ones...
LEMMA SameBytesRead ==
  ASSUME NEW s, NEW t, SameBytes(s, t), NEW k \in Nat, NEW u
  PROVE  Reads(t, u, k) => Reads(s, u, k)
  <1> SUFFICES ASSUME Reads(t, u, k) PROVE Reads(s, u, k)
    OBVIOUS
  <1>1. Aside(s, u)
    BY AsideChains DEF SameBytes, Reads
  <1>2. Lasts(t, k) <=> Lasts(s, k)
    BY DEF SameBytes, Aside, Lasts, Loops
  <1>3. Loops(t) <=> Loops(s)
    BY DEF SameBytes, Aside, Loops
  <1> QED
    BY <1>1, <1>2, <1>3 DEF SameBytes, Reads

\* ...and a chip that has the same ones left has read as many.
LEMMA ReadSame ==
  ASSUME NEW s, NEW t, NEW k \in Nat, NEW u, Reads(s, t, k), SameBytes(t, u)
  PROVE  Reads(s, u, k)
  <1>1. Aside(s, u)
    BY AsideChains DEF SameBytes, Reads
  <1> QED
    BY <1>1 DEF SameBytes, Reads

\* The count of bits does not say which bytes are left...
LEMMA BitsRemainSet ==
  ASSUME NEW s, Shaped(s), NEW n, NEW u, u = [s EXCEPT !.dmc.bits_remain = n]
  PROVE  SameBytes(s, u) /\ u.dmc.bits_remain = n
  <1>1. u.dmc = [s.dmc EXCEPT !.bits_remain = n]
    BY DEF Shaped, Fields
  <1>2. /\ DOMAIN u.dmc = DmcFields /\ u.dmc.bits_remain = n
        /\ u.dmc.period = s.dmc.period /\ u.dmc.irq_enabled = s.dmc.irq_enabled
        /\ u.dmc.buf_full = s.dmc.buf_full /\ u.dmc.reads = s.dmc.reads
        /\ u.dmc.next_irq = s.dmc.next_irq /\ u.dmc.irq_flag = s.dmc.irq_flag
    BY <1>1 DEF Shaped, DmcFields
  <1>3. Aside(s, u) /\ u.len = s.len /\ u.enables = s.enables
    BY <1>2 DEF Shaped, Fields, Aside
  <1> QED
    BY <1>2, <1>3 DEF SameBytes

\* ...nor does whether the channel is heard.
LEMMA SilenceSet ==
  ASSUME NEW s, Shaped(s), NEW t,
         t = IF 4 \in s.outputs THEN s ELSE [s EXCEPT !.dmc.silence = TRUE]
  PROVE  SameBytes(s, t) /\ t.dmc.bits_remain = s.dmc.bits_remain
  <1>1. CASE t = s
    BY <1>1 DEF SameBytes, Aside
  <1>2. CASE t = [s EXCEPT !.dmc.silence = TRUE]
    <2>1. t.dmc = [s.dmc EXCEPT !.silence = TRUE]
      BY <1>2 DEF Shaped, Fields
    <2>2. /\ DOMAIN t.dmc = DmcFields /\ t.dmc.bits_remain = s.dmc.bits_remain
          /\ t.dmc.period = s.dmc.period /\ t.dmc.irq_enabled = s.dmc.irq_enabled
          /\ t.dmc.buf_full = s.dmc.buf_full /\ t.dmc.reads = s.dmc.reads
          /\ t.dmc.next_irq = s.dmc.next_irq /\ t.dmc.irq_flag = s.dmc.irq_flag
      BY <2>1 DEF Shaped, DmcFields
    <2>3. Aside(s, t) /\ t.len = s.len /\ t.enables = s.enables
      BY <1>2, <2>2 DEF Shaped, Fields, Aside
    <2> QED
      BY <2>2, <2>3 DEF SameBytes
  <1> QED
    BY <1>1, <1>2

\* Nes_Dmc::run(): after so many bits, so many bytes have ended.
LEMMA DmcRunRuns ==
  ASSUME NEW s, Shaped(s), Whole(s), DmcNumbers(s), NEW from \in Int, NEW end \in Int,
         NEW b, b = StepsTo(from + s.delay[4], end, s.dmc.period),
         NEW e, e = ByteEnds(b, s.dmc.bits_remain), NEW u, u = DmcRun(s, from, end)
  PROVE  \E v : /\ Reads(s, v, e) /\ v.dmc.bits_remain \in 1 .. 8
                /\ s.len[4] > 0 => v.dmc.bits_remain = s.dmc.bits_remain - b + 8 * e
                /\ u = [v EXCEPT !.delay[4] = from + v.delay[4] + b * s.dmc.period - end]
  <1>0. PICK remain \in 1 .. 8 : remain = s.dmc.bits_remain
    BY DEF DmcNumbers
  <1>1. PICK t : t = IF 4 \in s.outputs THEN s ELSE [s EXCEPT !.dmc.silence = TRUE]
    OBVIOUS
  <1>14. PICK m : m = ((remain + 7 - (b % 8)) % 8) + 1
    OBVIOUS
  <1>2. PICK q : q = [t EXCEPT !.dmc.bits_remain = m]
    OBVIOUS
  <1>3. PICK r : r = Repeat(ByteEnd, t, e)
    OBVIOUS
  <1>4. PICK n : n = IF e = 0 THEN remain - b ELSE 8 - ((b - remain) % 8)
    OBVIOUS
  <1>5. PICK w : w = [r EXCEPT !.dmc.bits_remain = n]
    OBVIOUS
  <1>6. PICK v : v = IF t.dmc.silence /\ ~t.dmc.buf_full THEN q ELSE w
    OBVIOUS
  <1>7. u = [v EXCEPT !.delay[4] = from + v.delay[4] + b * s.dmc.period - end]
    BY <1>0, <1>1, <1>2, <1>3, <1>4, <1>5, <1>6, <1>14, Zenon DEF DmcRun
  <1>8. SameBytes(s, t) /\ t.dmc.bits_remain = s.dmc.bits_remain
    BY <1>1, SilenceSet
  <1>9. Shaped(t) /\ Whole(t) /\ t.dmc.reads \in Int /\ s.len[4] \in Nat
    BY <1>8 DEF SameBytes, Aside, Whole, DmcNumbers, Shaped, Oscs
  <1>10. b \in Nat
    <2>1. PICK time \in Int, p \in Nat \ {0} : time = from + s.delay[4] /\ p = s.dmc.period
      BY DEF Shaped, DmcNumbers
    <2>2. b = StepsTo(time, end, p)
      BY <2>1
    <2> QED
      BY <2>2, StepsCount
  <1>11. /\ e \in Nat /\ (e = 0 <=> b < remain) /\ remain - b + 8 * e \in 1 .. 8
         /\ e > 0 => remain - b + 8 * e = 8 - ((b - remain) % 8)
    BY <1>0, <1>10, EndsCount
  <1>12. CASE t.dmc.silence /\ ~t.dmc.buf_full
    <2>1. v = q /\ s.len[4] = 0
      BY <1>6, <1>8, <1>9, <1>12 DEF Whole, SameBytes
    <2>2. SameBytes(t, q) /\ q.dmc.bits_remain = m
      BY <1>2, <1>9, BitsRemainSet
    <2>3. Reads(t, t, e)
      <3>1. ~Lasts(t, e) /\ t.len[4] = 0 /\ 4 \notin t.enables
        BY <1>8, <1>9, <2>1 DEF Lasts, SameBytes, Whole
      <3> QED
        BY <1>9, <3>1 DEF Reads, Aside
    <2>4. Reads(s, q, e)
      BY <1>8, <1>11, <2>2, <2>3, SameBytesRead, ReadSame
    <2>5. q.dmc.bits_remain \in 1 .. 8 /\ ~(s.len[4] > 0)
      BY <1>10, <1>14, <2>1, <2>2
    <2>6. u = [q EXCEPT !.delay[4] = from + q.delay[4] + b * s.dmc.period - end]
      BY <1>7, <2>1
    <2> QED
      BY <2>4, <2>5, <2>6, Zenon
  <1>13. CASE ~(t.dmc.silence /\ ~t.dmc.buf_full)
    <2>1. v = w
      BY <1>6, <1>13
    <2>2. Reads(t, r, e)
      BY <1>3, <1>9, <1>11, ByteEndsRead
    <2>3. Shaped(r)
      BY <2>2 DEF Reads, Aside
    <2>4. SameBytes(r, w) /\ w.dmc.bits_remain = n
      BY <1>5, <2>3, BitsRemainSet
    <2>5. Reads(s, w, e)
      BY <1>8, <1>11, <2>2, <2>4, SameBytesRead, ReadSame
    <2>6. n = remain - b + 8 * e /\ n \in 1 .. 8
      BY <1>4, <1>10, <1>11
    <2> QED
      BY <1>0, <1>7, <2>1, <2>4, <2>5, <2>6
  <1> QED
    BY <1>12, <1>13

\* The clock after the last step of the last byte to be read.
IrqTime(s) ==
  s.last_dmc_time + s.delay[4] + ((s.len[4] - 1) * 8 + s.dmc.bits_remain - 1) * s.dmc.period + 1

\* What the DMC keeps of itself between its runs.
DmcOk(s) ==
  /\ Whole(s) /\ DmcNumbers(s) /\ s.last_dmc_time \in Int
  /\ s.dmc.irq_enabled => ~Loops(s)
  /\ s.dmc.irq_flag => s.len[4] = 0
  /\ s.dmc.next_irq # NoIrq =>
       s.dmc.irq_enabled /\ s.len[4] > 0 /\ s.dmc.next_irq = IrqTime(s)

\* The DMC alone has moved.
DmcMoves(s, u) ==
  /\ Shaped(u) /\ u.regs = s.regs /\ \A i \in 0 .. 3 : u.len[i] = s.len[i]
  /\ \A i \in 0 .. 3 : i \in u.enables <=> i \in s.enables
  /\ u.last_time = s.last_time /\ u.frame_delay = s.frame_delay
  /\ u.frame_period = s.frame_period /\ u.frame = s.frame /\ u.mode = s.mode /\ u.pal = s.pal

\* The time of the last bit is the same, from before and from after some bits.
LEMMA IrqTimeStays ==
  ASSUME NEW from \in Int, NEW d \in Int, NEW l \in Int, NEW r \in Int, NEW b \in Int,
         NEW e \in Int, NEW p \in Int, NEW end \in Int
  PROVE  end + (from + d + b * p - end) + (((l - e) - 1) * 8 + (r - b + 8 * e) - 1) * p + 1
           = from + d + ((l - 1) * 8 + r - 1) * p + 1
  <1> DEFINE x == (l - 1) * 8 + r - 1
  <1>1. ((l - e) - 1) * 8 + (r - b + 8 * e) - 1 = x - b
    OBVIOUS
  <1> HIDE DEF x
  <1>2. x \in Int
    BY DEF x
  <1>3. (x - b) * p = x * p - b * p
    BY <1>2
  <1>4. x * p \in Int /\ b * p \in Int
    BY <1>2
  <1>5. end + (from + d + b * p - end) + (x * p - b * p) + 1 = from + d + x * p + 1
    BY <1>4
  <1> QED
    BY <1>1, <1>3, <1>5 DEF x

\* The DMC after a run: in order, its reads counted, its IRQ raised if its bytes are over.
LEMMA DmcRunsOn ==
  ASSUME NEW s, Shaped(s), DmcOk(s), NEW end \in Int, s.last_dmc_time < end,
         NEW b, b = StepsTo(s.last_dmc_time + s.delay[4], end, s.dmc.period),
         NEW e, e = ByteEnds(b, s.dmc.bits_remain), NEW u, u = RunDmcUntil(s, end)
  PROVE  /\ DmcMoves(s, u) /\ DmcOk(u) /\ u.last_dmc_time = end
         /\ u.dmc.reads = s.dmc.reads + (IF Lasts(s, e) THEN e ELSE s.len[4])
         /\ Lasts(s, e) => u.dmc.irq_flag = s.dmc.irq_flag
         /\ ~Lasts(s, e) /\ s.len[4] > 0 => u.dmc.irq_flag = s.dmc.irq_enabled
  <1>0. PICK r \in 1 .. 8, p \in Nat \ {0}, from \in Int, d \in Nat, l \in Nat :
           /\ r = s.dmc.bits_remain /\ p = s.dmc.period /\ from = s.last_dmc_time
           /\ d = s.delay[4] /\ l = s.len[4]
    BY DEF DmcOk, DmcNumbers, Shaped, Oscs
  <1>1. PICK t : t = [s EXCEPT !.last_dmc_time = end]
    OBVIOUS
  <1>2. u = DmcRun(t, from, end)
    BY <1>0, <1>1 DEF RunDmcUntil
  <1>3. /\ Shaped(t) /\ t.dmc = s.dmc /\ t.len = s.len /\ t.enables = s.enables
        /\ t.regs = s.regs /\ t.delay = s.delay /\ t.last_dmc_time = end
        /\ t.last_time = s.last_time /\ t.frame_delay = s.frame_delay
        /\ t.frame_period = s.frame_period /\ t.frame = s.frame /\ t.mode = s.mode
        /\ t.pal = s.pal
    BY <1>1 DEF Shaped, Fields
  <1>4. Whole(t) /\ DmcNumbers(t) /\ (Loops(t) <=> Loops(s))
    BY <1>3 DEF DmcOk, Whole, DmcNumbers, Loops
  <1>5. Lasts(t, e) <=> Lasts(s, e)
    BY <1>3, <1>4 DEF Lasts
  <1>6. b = StepsTo(from + d, end, p) /\ e = ByteEnds(b, r)
    BY <1>0
  <1>7. b \in Nat /\ end <= from + d + b * p
    BY <1>6, StepsCount
  <1>8. e \in Nat
    BY <1>6, <1>7, EndsCount
  <1>9. PICK v : /\ Reads(t, v, e) /\ v.dmc.bits_remain \in 1 .. 8
                 /\ t.len[4] > 0 => v.dmc.bits_remain = r - b + 8 * e
                 /\ u = [v EXCEPT !.delay[4] = from + v.delay[4] + b * p - end]
    <2>1. b = StepsTo(from + t.delay[4], end, t.dmc.period)
          /\ e = ByteEnds(b, t.dmc.bits_remain)
      BY <1>0, <1>3, <1>6
    <2>2. \E v : /\ Reads(t, v, e) /\ v.dmc.bits_remain \in 1 .. 8
                 /\ t.len[4] > 0 => v.dmc.bits_remain = t.dmc.bits_remain - b + 8 * e
                 /\ u = [v EXCEPT !.delay[4] = from + v.delay[4] + b * t.dmc.period - end]
      BY <1>2, <1>3, <1>4, <2>1, DmcRunRuns
    <2> QED
      BY <1>0, <1>3, <2>2, Zenon
  <1>10. Shaped(v) /\ v.delay = s.delay /\ v.regs = s.regs /\ v.last_dmc_time = end
    BY <1>3, <1>9 DEF Reads, Aside
  <1>11. PICK g : g = from + d + b * p - end
    OBVIOUS
  <1>12. g \in Nat
    <2>1. b * p \in Int
      BY <1>7
    <2> QED
      BY <1>7, <1>11, <2>1
  <1>13. u = [v EXCEPT !.delay[4] = g]
    BY <1>0, <1>9, <1>10, <1>11
  <1>14. /\ Shaped(u) /\ u.delay[4] = g /\ u.dmc = v.dmc /\ u.len = v.len
         /\ u.enables = v.enables /\ u.regs = s.regs /\ u.last_dmc_time = end
         /\ u.last_time = v.last_time /\ u.frame_delay = v.frame_delay
         /\ u.frame_period = v.frame_period /\ u.frame = v.frame /\ u.mode = v.mode
         /\ u.pal = v.pal
    BY <1>10, <1>12, <1>13 DEF Shaped, Fields, Oscs
  <1>15. DmcMoves(s, u)
    BY <1>3, <1>9, <1>14 DEF Reads, Aside, DmcMoves
  <1>16. Loops(u) <=> Loops(s)
    BY <1>14 DEF Loops
  <1>17. u.dmc.period = p /\ u.dmc.irq_enabled = s.dmc.irq_enabled /\ u.dmc.bits_remain \in 1 .. 8
    BY <1>0, <1>3, <1>9, <1>14 DEF Reads
  <1>18. CASE Lasts(s, e)
    <2>1. /\ u.len[4] > 0 /\ (~Loops(s) => u.len[4] = l - e)
          /\ u.dmc.buf_full /\ (4 \in u.enables) /\ u.dmc.reads = s.dmc.reads + e
          /\ u.dmc.next_irq = s.dmc.next_irq /\ u.dmc.irq_flag = s.dmc.irq_flag
      BY <1>0, <1>3, <1>4, <1>5, <1>9, <1>14, <1>18 DEF Reads
    <2>2. l > 0 /\ u.dmc.bits_remain = r - b + 8 * e
      BY <1>0, <1>3, <1>9, <1>14, <1>18 DEF Lasts
    <2>3. ~s.dmc.irq_flag
      BY <1>0, <2>2 DEF DmcOk
    <2>4. ASSUME u.dmc.next_irq # NoIrq
          PROVE  u.dmc.irq_enabled /\ u.dmc.next_irq = IrqTime(u)
      <3>1. s.dmc.irq_enabled /\ ~Loops(s) /\ s.dmc.next_irq = IrqTime(s)
        BY <2>1, <2>4 DEF DmcOk
      <3>2. IrqTime(s) = from + d + ((l - 1) * 8 + r - 1) * p + 1
        BY <1>0 DEF IrqTime
      <3>3. IrqTime(u) = end + (from + d + b * p - end)
                           + (((l - e) - 1) * 8 + (r - b + 8 * e) - 1) * p + 1
        BY <1>11, <1>14, <1>17, <2>1, <2>2, <3>1 DEF IrqTime
      <3>4. IrqTime(u) = IrqTime(s)
        BY <1>7, <1>8, <3>2, <3>3, IrqTimeStays
      <3> QED
        BY <1>17, <2>1, <3>1, <3>4
    <2>5. Whole(u) /\ DmcNumbers(u)
      BY <1>8, <1>17, <2>1 DEF Whole, DmcNumbers, DmcOk
    <2>6. DmcOk(u)
      BY <1>14, <1>16, <1>17, <2>1, <2>3, <2>4, <2>5 DEF DmcOk
    <2> QED
      BY <1>14, <1>15, <1>18, <2>1, <2>6
  <1>19. CASE ~Lasts(s, e)
    <2>1. /\ u.len[4] = 0 /\ 4 \notin u.enables /\ u.dmc.reads = s.dmc.reads + s.len[4]
          /\ s.len[4] > 0 => u.dmc.next_irq = NoIrq /\ u.dmc.irq_flag = s.dmc.irq_enabled
          /\ s.len[4] = 0 => u.dmc.next_irq = s.dmc.next_irq
      BY <1>3, <1>5, <1>9, <1>14, <1>19 DEF Reads
    <2>2. u.dmc.next_irq = NoIrq
      BY <1>0, <2>1 DEF DmcOk
    <2>3. Whole(u) /\ DmcNumbers(u)
      BY <1>0, <1>17, <2>1 DEF Whole, DmcNumbers, DmcOk
    <2>4. DmcOk(u)
      BY <1>14, <1>16, <1>17, <2>1, <2>2, <2>3 DEF DmcOk
    <2> QED
      BY <1>14, <1>15, <1>19, <2>1, <2>4
  <1> QED
    BY <1>18, <1>19

\* How the steps before a time compare with one of them.
LEMMA EndsAgainst ==
  ASSUME NEW time \in Int, NEW end \in Int, NEW p \in Nat \ {0}, NEW r \in 1 .. 8,
         NEW b, b = StepsTo(time, end, p), NEW e, e = ByteEnds(b, r), NEW l \in Nat, l > 0
  PROVE  e < l <=> end <= time + ((l - 1) * 8 + r - 1) * p
  <1>1. PICK x \in Nat : x = (l - 1) * 8 + r - 1
    OBVIOUS
  <1>2. b \in Nat /\ (x < b <=> time + x * p < end)
    BY StepsCount
  <1>3. e \in Nat /\ r - b + 8 * e \in 1 .. 8
    BY <1>2, EndsCount
  <1>4. e < l <=> b <= x
    BY <1>1, <1>2, <1>3
  <1>5. x * p \in Int
    OBVIOUS
  <1> QED
    BY <1>1, <1>2, <1>4, <1>5

\* The numbers of a DMC that is in order.
LEMMA DmcInts ==
  ASSUME NEW s, Shaped(s), DmcOk(s)
  PROVE  /\ s.dmc.bits_remain \in 1 .. 8 /\ s.dmc.period \in Nat \ {0} /\ s.dmc.reads \in Int
         /\ s.last_dmc_time \in Int /\ s.delay[4] \in Nat /\ s.len[4] \in Nat
  BY DEF DmcOk, DmcNumbers, Shaped, Oscs

\* The IRQ comes at the clock that recalc_irq() foretold, and not before.
LEMMA IrqComes ==
  ASSUME NEW s, Shaped(s), DmcOk(s), s.dmc.next_irq # NoIrq
  PROVE  /\ s.dmc.next_irq > s.last_dmc_time
         /\ ~RunDmcUntil(s, s.dmc.next_irq - 1).dmc.irq_flag
         /\ RunDmcUntil(s, s.dmc.next_irq).dmc.irq_flag
  <1>1. PICK r \in 1 .. 8, p \in Nat \ {0}, from \in Int, d \in Nat, l \in Nat :
           /\ r = s.dmc.bits_remain /\ p = s.dmc.period /\ from = s.last_dmc_time
           /\ d = s.delay[4] /\ l = s.len[4]
    BY DmcInts, Zenon
  <1>2. s.dmc.irq_enabled /\ ~Loops(s) /\ l > 0 /\ s.dmc.next_irq = IrqTime(s) /\ ~s.dmc.irq_flag
    BY <1>1 DEF DmcOk
  <1>3. PICK x \in Nat : x = ((l - 1) * 8 + r - 1) * p
    <2>1. PICK y \in Nat : y = (l - 1) * 8 + r - 1
      BY <1>2
    <2>2. y * p \in Nat
      OBVIOUS
    <2> QED
      BY <2>1, <2>2
  <1>4. PICK irq \in Int : irq = s.dmc.next_irq /\ irq = from + d + x + 1
    BY <1>1, <1>2, <1>3 DEF IrqTime
  <1>5. irq > from
    BY <1>4
  <1>6. ASSUME NEW end \in Int, from < end
        PROVE  RunDmcUntil(s, end).dmc.irq_flag <=> irq <= end
    <2>1. PICK b : b = StepsTo(from + d, end, p)
      OBVIOUS
    <2>2. PICK e : e = ByteEnds(b, r)
      OBVIOUS
    <2>3. e < l <=> end <= from + d + x
      BY <1>2, <1>3, <2>1, <2>2, EndsAgainst
    <2>4. Lasts(s, e) <=> end < irq
      BY <1>1, <1>2, <1>4, <2>3 DEF Lasts
    <2>5. PICK u : u = RunDmcUntil(s, end)
      OBVIOUS
    <2>6. /\ Lasts(s, e) => u.dmc.irq_flag = s.dmc.irq_flag
          /\ ~Lasts(s, e) /\ s.len[4] > 0 => u.dmc.irq_flag = s.dmc.irq_enabled
      <3>1. b = StepsTo(s.last_dmc_time + s.delay[4], end, s.dmc.period)
        BY <1>1, <2>1
      <3>2. e = ByteEnds(b, s.dmc.bits_remain) /\ s.last_dmc_time < end
        BY <1>1, <1>6, <2>2
      <3> QED
        BY <2>5, <3>1, <3>2, DmcRunsOn
    <2>7. CASE end < irq
      <3>1. u.dmc.irq_flag = s.dmc.irq_flag
        BY <2>4, <2>6, <2>7
      <3>2. ~u.dmc.irq_flag
        BY <1>2, <3>1, Zenon
      <3> QED
        BY <2>5, <2>7, <3>2
    <2>8. CASE irq <= end
      <3>1. u.dmc.irq_flag = s.dmc.irq_enabled
        <4>1. ~Lasts(s, e) /\ s.len[4] > 0
          BY <1>1, <1>2, <2>4, <2>8
        <4> QED
          BY <2>6, <4>1, Zenon
      <3>2. u.dmc.irq_flag
        BY <1>2, <3>1, Zenon
      <3> QED
        BY <2>5, <2>8, <3>2
    <2> QED
      BY <2>7, <2>8
  <1>7. RunDmcUntil(s, irq).dmc.irq_flag
    BY <1>5, <1>6
  <1>8. ~RunDmcUntil(s, irq - 1).dmc.irq_flag
    <2>1. CASE from < irq - 1
      BY <1>6, <2>1
    <2>2. CASE ~(from < irq - 1)
      <3>1. RunDmcUntil(s, irq - 1) = s
        BY <1>1, <2>2 DEF RunDmcUntil
      <3> QED
        BY <1>2, <3>1
    <2> QED
      BY <2>1, <2>2
  <1> QED
    BY <1>1, <1>4, <1>5, <1>7, <1>8

\* count_reads() says how many bytes a run to that time will read.
LEMMA CountReadsRight ==
  ASSUME NEW s, Shaped(s), DmcOk(s), NEW end \in Int, s.last_dmc_time <= end
  PROVE  CountReads(s, end) = RunDmcUntil(s, end).dmc.reads - s.dmc.reads
  <1>1. PICK r \in 1 .. 8, p \in Nat \ {0}, from \in Int, d \in Nat, l \in Nat, reads \in Int :
           /\ r = s.dmc.bits_remain /\ p = s.dmc.period /\ from = s.last_dmc_time
           /\ d = s.delay[4] /\ l = s.len[4] /\ reads = s.dmc.reads
    BY DmcInts, Zenon
  <1>2. PICK x \in Nat : x = (r - 1) * p
    <2>1. (r - 1) * p \in Nat
      OBVIOUS
    <2> QED
      BY <2>1
  <1>3. PICK avail \in Int : avail = end - (from + d + x)
    OBVIOUS
  <1>4. PICK count : count = (avail - 1) \div (p * 8) + 1
    OBVIOUS
  <1>5. CountReads(s, end) = IF l = 0 \/ avail <= 0 THEN 0
                             ELSE IF Loops(s) THEN count ELSE Earlier(count, l)
    BY <1>1, <1>2, <1>3, <1>4 DEF CountReads, NextDmcRead
  <1>6. CASE from = end
    <2>1. RunDmcUntil(s, end) = s
      BY <1>1, <1>6 DEF RunDmcUntil
    <2>2. avail <= 0
      BY <1>3, <1>6
    <2> QED
      BY <1>1, <1>5, <2>1, <2>2
  <1>7. CASE from < end
    <2>1. PICK b : b = StepsTo(from + d, end, p)
      OBVIOUS
    <2>2. PICK e : e = ByteEnds(b, r)
      OBVIOUS
    <2>3. RunDmcUntil(s, end).dmc.reads = reads + (IF Lasts(s, e) THEN e ELSE l)
      <3>1. b = StepsTo(s.last_dmc_time + s.delay[4], end, s.dmc.period)
        BY <1>1, <2>1
      <3>2. e = ByteEnds(b, s.dmc.bits_remain) /\ s.last_dmc_time < end
        BY <1>1, <1>7, <2>2
      <3>3. RunDmcUntil(s, end).dmc.reads = s.dmc.reads + (IF Lasts(s, e) THEN e ELSE s.len[4])
        BY <3>1, <3>2, DmcRunsOn
      <3> QED
        BY <1>1, <3>3
    <2>4. b \in Nat /\ \A k \in Nat : k < b <=> from + d + k * p < end
      <3>1. PICK time \in Int : time = from + d
        OBVIOUS
      <3>2. b = StepsTo(time, end, p)
        BY <2>1, <3>1
      <3> QED
        BY <3>1, <3>2, StepsCount
    <2>5. e \in Nat /\ (e = 0 <=> b < r) /\ r - b + 8 * e \in 1 .. 8
      BY <2>2, <2>4, EndsCount
    <2>6. avail <= 0 <=> e = 0
      <3>1. r - 1 \in Nat
        OBVIOUS
      <3>2. r - 1 < b <=> from + d + x < end
        BY <1>2, <2>4, <3>1
      <3> QED
        BY <1>3, <2>4, <2>5, <3>2
    <2>7. ASSUME e > 0 PROVE count = e
      <3>1. PICK k \in Nat : k = e - 1
        BY <2>5, <2>7
      <3>2. PICK y \in Nat : y = k * (p * 8)
        <4>1. k * (p * 8) \in Nat
          OBVIOUS
        <4> QED
          BY <4>1
      <3>3. (r - 1 + 8 * k) * p = x + y
        BY <1>2, <3>2
      <3>4. (r - 1 + 8 * k + 8) * p = x + y + p * 8
        BY <1>2, <3>2
      <3>5. r - 1 + 8 * k < b /\ ~(r - 1 + 8 * k + 8 < b)
        BY <2>4, <2>5, <3>1
      <3>6. from + d + x + y < end
        <4>1. r - 1 + 8 * k \in Nat
          OBVIOUS
        <4>2. from + d + (r - 1 + 8 * k) * p < end
          BY <2>4, <3>5, <4>1
        <4> QED
          BY <3>3, <4>2
      <3>7. end <= from + d + x + y + p * 8
        <4>1. r - 1 + 8 * k + 8 \in Nat
          OBVIOUS
        <4>2. ~(from + d + (r - 1 + 8 * k + 8) * p < end)
          BY <2>4, <3>5, <4>1
        <4> QED
          BY <3>4, <4>2
      <3>8. p * 8 \in Nat \ {0}
        OBVIOUS
      <3>9. k * (p * 8) <= avail - 1 /\ avail - 1 < k * (p * 8) + p * 8
        BY <1>3, <3>2, <3>6, <3>7
      <3>10. (avail - 1) \div (p * 8) = k
        BY <3>8, <3>9, Quotient
      <3> QED
        BY <1>4, <2>5, <3>1, <3>10
    <2>8. CASE l = 0
      <3>1. ~Lasts(s, e)
        BY <1>1, <2>8 DEF Lasts
      <3> QED
        BY <1>1, <1>5, <2>3, <2>8, <3>1
    <2>9. CASE l > 0 /\ e = 0
      <3>1. Lasts(s, e) /\ avail <= 0
        BY <1>1, <2>6, <2>9 DEF Lasts
      <3> QED
        BY <1>1, <1>5, <2>3, <2>9, <3>1
    <2>10. CASE l > 0 /\ e > 0 /\ Loops(s)
      <3>1. Lasts(s, e) /\ count = e /\ ~(avail <= 0) /\ l # 0
        BY <1>1, <2>6, <2>7, <2>10 DEF Lasts
      <3> QED
        BY <1>1, <1>5, <2>3, <2>5, <2>10, <3>1
    <2>11. CASE l > 0 /\ e > 0 /\ ~Loops(s)
      <3>1. (Lasts(s, e) <=> e < l) /\ count = e /\ ~(avail <= 0) /\ l # 0
        BY <1>1, <2>6, <2>7, <2>11 DEF Lasts
      <3>2. CountReads(s, end) = IF e < l THEN e ELSE l
        BY <1>5, <2>11, <3>1 DEF Earlier
      <3> QED
        BY <1>1, <2>3, <2>5, <3>1, <3>2
    <2> QED
      BY <2>5, <2>8, <2>9, <2>10, <2>11
  <1> QED
    BY <1>1, <1>6, <1>7

---------------------------------------------------------------------------
(* The frame sequencer *)

\* The numbers of the sequencer; the shortest period is that of the highest tempo.
Timed(s) ==
  /\ s.last_time \in Int /\ s.frame_delay \in Nat /\ s.frame \in 0 .. 3 /\ s.mode \in 0 .. 255
  /\ s.frame_period \in Nat /\ s.frame_period % 2 = 0 /\ s.frame_period >= 1864

\* When the sequencer's next step is due.
NextStepTime(s) == s.last_time + s.frame_delay

\* The next step of the sequencer is due at its place after a start at that time.
OnBeat(s, at) ==
  (NextStepTime(s) - at) % Places(s, s.mode).period = Places(s, s.mode).at[s.frame + 1]

\* g is what lies between a step and the next, of which f is the number.
Gap(s, P, f, g) ==
  /\ g \in Nat /\ g % 2 = 0 /\ g >= s.frame_period - 2
  /\ P.period \in Nat \ {0}
  /\ P.at[1] = 0 /\ \A i \in 1 .. 4 : P.at[i] \in 0 .. P.period - 1
  /\ f < 3 => P.at[f + 2] = P.at[f + 1] + g
  /\ f = 3 => P.period = P.at[f + 1] + g

\* The delay the sequencer sets is the one between its places.
LEMMA ToNextStepIsTheGap ==
  ASSUME NEW s, Timed(s), NEW P, P = Places(s, s.mode), NEW g, g = ToNextStep(s)
  PROVE  Gap(s, P, s.frame, g)
  <1>0. PICK f \in 0 .. 3 : f = s.frame
    BY DEF Timed
  <1>1. PICK p \in Nat, mode \in 0 .. 255 :
           p = s.frame_period /\ mode = s.mode /\ p % 2 = 0 /\ p >= 1864
    BY DEF Timed
  <1>2. g = CASE f = 2 /\ s.pal -> p - 2
              [] f = 1 /\ ~s.pal -> p - 2
              [] f = 3 /\ mode >= 128 -> p + p - (IF s.pal THEN 2 ELSE 6)
              [] OTHER -> p
    BY <1>0, <1>1 DEF ToNextStep
  <1>3. PICK second : second = IF s.pal THEN 2 * p ELSE 2 * p - 2
    OBVIOUS
  <1>4. P = IF mode < 128
            THEN [period |-> 4 * p - 2, at |-> <<0, p, second, 3 * p - 2>>]
            ELSE [period |-> 5 * p - (IF s.pal THEN 4 ELSE 8), at |-> <<0, p, second, 3 * p - 2>>]
    BY <1>1, <1>3 DEF Places
  <1>5. P.at = <<0, p, second, 3 * p - 2>>
    BY <1>4
  <1>6. P.period = IF mode < 128 THEN 4 * p - 2 ELSE 5 * p - (IF s.pal THEN 4 ELSE 8)
    BY <1>4
  <1>7. g \in Nat /\ g % 2 = 0 /\ g >= p - 2
    BY <1>1, <1>2
  <1>8. P.period \in Nat /\ P.period >= 4 * p - 2
    BY <1>1, <1>6
  <1>9. P.at[1] = 0 /\ P.at[2] = p /\ P.at[3] = second /\ P.at[4] = 3 * p - 2
    BY <1>5
  <1>10. ASSUME NEW i \in 1 .. 4 PROVE P.at[i] \in 0 .. P.period - 1
    BY <1>1, <1>3, <1>8, <1>9
  <1>11. f < 3 => P.at[f + 2] = P.at[f + 1] + g
    <2>1. CASE f = 0
      BY <1>2, <1>9, <2>1
    <2>2. CASE f = 1
      BY <1>2, <1>3, <1>9, <2>2
    <2>3. CASE f = 2
      BY <1>2, <1>3, <1>9, <2>3
    <2> QED
      BY <2>1, <2>2, <2>3
  <1>12. f = 3 => P.period = P.at[f + 1] + g
    BY <1>1, <1>2, <1>6, <1>9
  <1> QED
    BY <1>0, <1>1, <1>7, <1>8, <1>9, <1>10, <1>11, <1>12 DEF Gap

\* A remainder, some way further on.
LEMMA RemainderOfSum ==
  ASSUME NEW x \in Int, NEW d \in Nat \ {0}, NEW g \in Nat, (x % d) + g <= d
  PROVE  (x + g) % d = IF (x % d) + g = d THEN 0 ELSE (x % d) + g
  <1>1. PICK q \in Int, a \in Int : q = x \div d /\ a = x % d
    BY Division
  <1>2. x = q * d + a /\ 0 <= a /\ a < d
    BY <1>1, Division
  <1>3. PICK m \in Int : m = q * d
    OBVIOUS
  <1>4. CASE a + g < d
    <2>1. q * d <= x + g /\ x + g < q * d + d
      BY <1>2, <1>3, <1>4
    <2>2. (x + g) \div d = q
      BY <2>1, Quotient
    <2>3. x + g = q * d + ((x + g) % d) /\ (x + g) % d \in Int
      BY <2>2, Division
    <2> QED
      BY <1>1, <1>2, <1>3, <1>4, <2>3
  <1>5. CASE a + g = d
    <2>1. (q + 1) * d = m + d
      BY <1>3
    <2>2. (q + 1) * d <= x + g /\ x + g < (q + 1) * d + d
      BY <1>2, <1>3, <1>5, <2>1
    <2>3. (x + g) \div d = q + 1
      BY <2>2, Quotient
    <2>4. x + g = (q + 1) * d + ((x + g) % d) /\ (x + g) % d \in Int
      BY <2>3, Division
    <2> QED
      BY <1>1, <1>2, <1>3, <1>5, <2>1, <2>4
  <1> QED
    BY <1>1, <1>4, <1>5

\* A step of the sequencer moves itself and clocks the other units.
LEMMA FrameStepSteps ==
  ASSUME NEW s, Shaped(s), NEW u, u = FrameStep(s)
  PROVE  /\ Leaves(s, u) /\ u.last_time = s.last_time
         /\ u.frame = (s.frame + 1) % 4 /\ u.frame_delay = ToNextStep(s)
  <1>1. PICK irq, at, delay :
           /\ irq = (s.irq_flag \/ (s.frame = 0 /\ s.mode % 128 < 64 /\ s.mode < 128))
           /\ at = IF s.frame = 0 /\ s.mode % 128 < 64 /\ s.mode < 128
                   THEN s.last_time + s.frame_period * 4 + 2 ELSE s.next_irq
           /\ delay = ToNextStep(s)
    OBVIOUS
  <1>2. PICK t : t = [s EXCEPT !.next_irq = at, !.irq_flag = irq, !.frame = (s.frame + 1) % 4,
                               !.frame_delay = delay]
    OBVIOUS
  <1>3. PICK v : v = IF s.frame \in {0, 2} THEN ClockSweeps(ClockLengths(t)) ELSE t
    OBVIOUS
  <1>4. u = ClockEnvelopes(ClockLinear(v))
    BY <1>1, <1>2, <1>3, Zenon DEF FrameStep
  <1>5. /\ Leaves(s, t) /\ t.last_time = s.last_time
        /\ t.frame = (s.frame + 1) % 4 /\ t.frame_delay = delay
    BY <1>2 DEF Shaped, Fields, Oscs, Leaves
  <1>6. Shaped(t)
    BY <1>5 DEF Leaves
  <1>7. Clockless(t, v)
    <2>1. CASE v = t
      BY <1>6, <2>1 DEF Clockless, Leaves, Shaped, Oscs
    <2>2. CASE v = ClockSweeps(ClockLengths(t))
      <3>1. PICK w : w = ClockLengths(t)
        OBVIOUS
      <3>2. Clockless(t, w)
        BY <1>6, <3>1, LengthsKeep
      <3>3. Clockless(w, v)
        BY <2>2, <3>1, <3>2, SweepsKeep DEF Clockless, Leaves
      <3> QED
        BY <1>6, <3>2, <3>3, ClocklessChains
    <2> QED
      BY <1>3, <2>1, <2>2
  <1>8. Clockless(v, u)
    BY <1>4, <1>7, EnvelopesKeep DEF Clockless, Leaves
  <1>9. Clockless(t, u)
    BY <1>6, <1>7, <1>8, ClocklessChains
  <1>10. \A i \in 0 .. 3 : u.len[i] <= s.len[i]
    <2>1. Shaped(s) /\ Shaped(t) /\ Shaped(u)
      BY <1>6, <1>9 DEF Clockless, Leaves
    <2> QED
      BY <1>5, <1>9, <2>1 DEF Shaped, Clockless, Leaves, Oscs
  <1> QED
    BY <1>1, <1>5, <1>9, <1>10 DEF Clockless, Leaves

\* u comes after s: what the sequencer and the oscillators do not touch is as it was, and the
\* steps are where they were.
Follows(s, u) ==
  /\ Leaves(s, u) /\ Timed(u)
  /\ (NextStepTime(u) - NextStepTime(s)) % 2 = 0
  /\ \A at \in Int : OnBeat(s, at) => OnBeat(u, at)

\* One step that leaves the DMC alone, and another.
LEMMA LeavesChains ==
  ASSUME NEW s, NEW t, NEW u, Shaped(s), Leaves(s, t), Leaves(t, u) PROVE Leaves(s, u)
  <1>1. \A i \in 0 .. 3 : u.len[i] <= s.len[i]
    BY DEF Shaped, Leaves, Oscs
  <1> QED
    BY <1>1 DEF Leaves

\* One run, and another.
LEMMA FollowsChains ==
  ASSUME NEW s, NEW t, NEW u, Shaped(s), Timed(s), Follows(s, t), Follows(t, u)
  PROVE  Follows(s, u)
  <1>1. Leaves(s, u)
    BY LeavesChains DEF Follows
  <1>2. NextStepTime(s) \in Int /\ NextStepTime(t) \in Int /\ NextStepTime(u) \in Int
    BY DEF Follows, Timed, NextStepTime
  <1>3. (NextStepTime(u) - NextStepTime(s)) % 2 = 0
    BY <1>2 DEF Follows
  <1> QED
    BY <1>1, <1>3 DEF Follows

\* A chip follows itself.
LEMMA FollowsItself ==
  ASSUME NEW s, Shaped(s), Timed(s) PROVE Follows(s, s)
  <1>1. NextStepTime(s) \in Int
    BY DEF Timed, NextStepTime
  <1> QED
    BY <1>1 DEF Follows, Leaves, Shaped, Oscs

\* The sequencer goes from place to place.
LEMMA FrameStepFollows ==
  ASSUME NEW s, Shaped(s), Timed(s), s.frame_delay = 0, NEW u, u = FrameStep(s)
  PROVE  /\ Follows(s, u) /\ u.last_time = s.last_time
         /\ NextStepTime(u) >= NextStepTime(s) + (s.frame_period - 2)
  <1>1. PICK g : g = ToNextStep(s)
    OBVIOUS
  <1>2. PICK P : P = Places(s, s.mode)
    OBVIOUS
  <1>3. PICK f \in 0 .. 3, last \in Int : f = s.frame /\ last = s.last_time
    BY DEF Timed
  <1>4. /\ g \in Nat /\ g % 2 = 0 /\ g >= s.frame_period - 2
        /\ P.period \in Nat \ {0}
        /\ P.at[1] = 0 /\ \A i \in 1 .. 4 : P.at[i] \in 0 .. P.period - 1
        /\ f < 3 => P.at[f + 2] = P.at[f + 1] + g
        /\ f = 3 => P.period = P.at[f + 1] + g
    <2>1. Gap(s, P, f, g)
      BY <1>1, <1>2, <1>3, ToNextStepIsTheGap
    <2> QED
      BY <2>1 DEF Gap
  <1>5. /\ Leaves(s, u) /\ u.last_time = last /\ u.frame = (f + 1) % 4 /\ u.frame_delay = g
    BY <1>1, <1>3, FrameStepSteps
  <1>6. NextStepTime(s) = last /\ NextStepTime(u) = last + g
    BY <1>3, <1>5 DEF NextStepTime
  <1>7. Timed(u)
    BY <1>3, <1>4, <1>5 DEF Timed, Leaves
  <1>8. Places(u, u.mode) = P
    BY <1>2, <1>5 DEF Places, Leaves
  <1>9. ASSUME NEW at \in Int, OnBeat(s, at) PROVE OnBeat(u, at)
    <2>1. PICK x \in Int, d \in Nat \ {0} : x = last - at /\ d = P.period
      BY <1>4
    <2>2. x % d = P.at[f + 1]
      BY <1>2, <1>3, <1>6, <1>9, <2>1 DEF OnBeat
    <2>5. g \in Nat /\ x % d \in Int
      BY <1>4, Division
    <2>3. CASE f < 3
      <3>4. PICK b : b = P.at[f + 2]
        OBVIOUS
      <3>5. f + 2 \in 1 .. 4 /\ b \in 0 .. P.period - 1
        BY <1>4, <2>3, <3>4
      <3>1. b \in Int /\ b < d /\ b = (x % d) + g
        BY <1>4, <2>1, <2>2, <2>3, <3>4, <3>5
      <3>2. (x + g) % d = P.at[f + 2]
        <4>1. (x % d) + g <= d /\ (x % d) + g # d
          BY <2>5, <3>1
        <4>2. (x + g) % d = (x % d) + g
          BY <2>5, <4>1, RemainderOfSum
        <4> QED
          BY <3>1, <3>4, <4>2
      <3>3. (NextStepTime(u) - at) % d = P.at[f + 2] /\ u.frame + 1 = f + 2
        BY <1>4, <1>5, <1>6, <2>1, <2>3, <3>2
      <3> QED
        BY <1>8, <2>1, <3>3 DEF OnBeat
    <2>4. CASE f = 3
      <3>1. (x % d) + g = d
        BY <1>4, <2>1, <2>2, <2>4
      <3>2. (x + g) % d = 0
        <4>1. (x % d) + g <= d
          BY <2>5, <3>1
        <4>2. (x + g) % d = IF (x % d) + g = d THEN 0 ELSE (x % d) + g
          BY <2>5, <4>1, RemainderOfSum, Zenon
        <4> QED
          BY <3>1, <4>2, Zenon
      <3>3. (NextStepTime(u) - at) % d = P.at[1] /\ u.frame + 1 = 1
        BY <1>4, <1>5, <1>6, <2>1, <2>4, <3>2
      <3> QED
        BY <1>8, <2>1, <3>3 DEF OnBeat
    <2> QED
      BY <2>3, <2>4
  <1>11. g \in Nat /\ g % 2 = 0 /\ g >= s.frame_period - 2
    BY <1>4
  <1>10. (NextStepTime(u) - NextStepTime(s)) % 2 = 0
    BY <1>6, <1>11
  <1>12. NextStepTime(u) >= NextStepTime(s) + (s.frame_period - 2)
    <2>1. PICK p \in Nat : p = s.frame_period
      BY DEF Timed
    <2> QED
      BY <1>6, <1>11, <2>1
  <1> QED
    BY <1>3, <1>5, <1>7, <1>9, <1>10, <1>12 DEF Follows

\* One turn of the loop of run_until_().
LEMMA IterationFollows ==
  ASSUME NEW s, Shaped(s), Timed(s), NEW end \in Int, s.last_time <= end,
         NEW u, u = Iteration(s, end)
  PROVE  /\ Follows(s, u) /\ u.last_time <= end
         /\ s.last_time = end => u.last_time = end
         /\ u.last_time # end =>
              /\ NextStepTime(s) < end
              /\ NextStepTime(u) >= NextStepTime(s) + (s.frame_period - 2)
  <1>1. PICK last \in Int, delay \in Nat : last = s.last_time /\ delay = s.frame_delay
    BY DEF Timed
  <1>2. PICK time \in Int : time = Earlier(last + delay, end)
    BY DEF Earlier
  <1>3. PICK r : r = RunOscillators(s, last, time)
    OBVIOUS
  <1>4. PICK t : t = [r EXCEPT !.last_time = time, !.frame_delay = r.frame_delay - (time - last)]
    OBVIOUS
  <1>5. u = IF last = end THEN s ELSE IF time = end THEN t ELSE FrameStep(t)
    BY <1>1, <1>2, <1>3, <1>4 DEF Iteration
  <1>6. Clockless(s, r)
    BY <1>3, OscillatorsKeep
  <1>7. Leaves(r, t) /\ t.last_time = time /\ t.frame_delay = delay - (time - last)
        /\ t.frame = s.frame
    BY <1>1, <1>4, <1>6 DEF Clockless, Leaves, Shaped, Fields, Oscs
  <1>8. Leaves(s, t)
    BY <1>6, <1>7, LeavesChains DEF Clockless
  <1>9. last <= time /\ time <= end /\ time <= last + delay /\ (time # end => time = last + delay)
    BY <1>1, <1>2 DEF Earlier
  <1>10. Timed(t) /\ Shaped(t)
    BY <1>1, <1>7, <1>8, <1>9 DEF Timed, Leaves
  <1>11. NextStepTime(t) = NextStepTime(s) /\ NextStepTime(s) = last + delay
    BY <1>1, <1>7, <1>9 DEF NextStepTime
  <1>12. Places(t, t.mode) = Places(s, s.mode)
    BY <1>8 DEF Places, Leaves
  <1>13. Follows(s, t)
    BY <1>7, <1>8, <1>10, <1>11, <1>12 DEF Follows, OnBeat
  <1>14. CASE last = end
    BY <1>1, <1>5, <1>14, FollowsItself
  <1>15. CASE last # end /\ time = end
    BY <1>1, <1>5, <1>7, <1>13, <1>15
  <1>16. CASE last # end /\ time # end
    <2>1. u = FrameStep(t) /\ t.frame_delay = 0 /\ t.frame_period = s.frame_period
      BY <1>5, <1>7, <1>8, <1>9, <1>16 DEF Leaves
    <2>2. /\ Follows(t, u) /\ u.last_time = t.last_time
          /\ NextStepTime(u) >= NextStepTime(t) + (s.frame_period - 2)
      BY <1>10, <2>1, FrameStepFollows
    <2>3. Follows(s, u)
      BY <1>13, <2>2, FollowsChains
    <2> QED
      BY <1>1, <1>7, <1>9, <1>11, <1>16, <2>2, <2>3
  <1> QED
    BY <1>14, <1>15, <1>16

\* So many turns of the loop of run_until_().
Turns(s, end, n) == Repeat(LAMBDA t : Iteration(t, end), s, n)

\* The turns of the loop, one after the other.
IterationsTo(s, end, n, f) ==
  f = [k \in 0 .. n |-> IF k = 0 THEN s ELSE Iteration(f[k - 1], end)]

\* Any number of turns of the loop are there to be listed.
LEMMA IterationsExist ==
  ASSUME NEW s, NEW end, NEW n \in Nat PROVE \E f : IterationsTo(s, end, n, f)
  <1> DEFINE T == {m \in Nat : \E f : IterationsTo(s, end, m, f)}
  <1>1. 0 \in T
    <2> DEFINE g == [k \in 0 .. 0 |-> s]
    <2>1. IterationsTo(s, end, 0, g)
      BY DEF IterationsTo
    <2> HIDE DEF g
    <2> QED
      BY <2>1
  <1>2. ASSUME NEW m \in Nat, m \in T PROVE m + 1 \in T
    <2>1. PICK f : IterationsTo(s, end, m, f)
      BY <1>2
    <2> DEFINE g == [k \in 0 .. m + 1 |-> IF k = m + 1 THEN Iteration(f[m], end) ELSE f[k]]
    <2>2. ASSUME NEW k \in 0 .. m + 1 PROVE g[k] = IF k = 0 THEN s ELSE Iteration(g[k - 1], end)
      <3>1. CASE k = m + 1
        BY <3>1
      <3>2. CASE k # m + 1
        <4>1. k \in 0 .. m /\ (k = 0 \/ k - 1 \in 0 .. m + 1) /\ k - 1 # m + 1
          BY <3>2
        <4>2. f[k] = IF k = 0 THEN s ELSE Iteration(f[k - 1], end)
          BY <2>1, <4>1 DEF IterationsTo
        <4>3. g[k] = f[k] /\ (k # 0 => g[k - 1] = f[k - 1])
          BY <4>1
        <4> QED
          BY <4>2, <4>3
      <3> QED
        BY <3>1, <3>2
    <2>3. g = [k \in 0 .. m + 1 |-> g[k]]
      OBVIOUS
    <2> HIDE DEF g
    <2>4. IterationsTo(s, end, m + 1, g)
      BY <2>2, <2>3 DEF IterationsTo
    <2> QED
      BY <2>4
  <1> HIDE DEF T
  <1>3. \A m \in Nat : m \in T
    BY <1>1, <1>2, Induction
  <1> QED
    BY <1>3 DEF T

\* How far so many turns have come, from last in a chip whose steps are q or more apart.
Turned(s, u, end, last, q, k) ==
  /\ Follows(s, u) /\ u.last_time <= end
  /\ \/ u.last_time = end
     \/ /\ NextStepTime(u) >= last + k * q
        /\ k > 0 => last + (k - 1) * q < end

\* One more turn: the end of the run, or one more step of the sequencer.
LEMMA TurnedOnce ==
  ASSUME NEW s, Shaped(s), Timed(s), NEW end \in Int, NEW last \in Int, NEW q \in Nat,
         q = s.frame_period - 2, NEW k \in Nat, NEW t, Turned(s, t, end, last, q, k),
         NEW u, u = Iteration(t, end)
  PROVE  Turned(s, u, end, last, q, k + 1)
  <1>1. Follows(s, t) /\ t.last_time <= end /\ Shaped(t) /\ Timed(t) /\ t.frame_period = s.frame_period
    BY DEF Turned, Follows, Leaves
  <1>2. /\ Follows(t, u) /\ u.last_time <= end
        /\ t.last_time = end => u.last_time = end
        /\ u.last_time # end =>
             /\ NextStepTime(t) < end
             /\ NextStepTime(u) >= NextStepTime(t) + (t.frame_period - 2)
    BY <1>1, IterationFollows
  <1>3. Follows(s, u)
    BY <1>1, <1>2, FollowsChains
  <1>4. CASE u.last_time # end
    <2>1. t.last_time # end
      BY <1>2, <1>4
    <2>2. NextStepTime(t) >= last + k * q
      BY <2>1 DEF Turned
    <2>3. PICK a \in Int, b \in Int, x \in Int : a = NextStepTime(t) /\ b = NextStepTime(u) /\ x = k * q
      <3>1. NextStepTime(t) \in Int /\ NextStepTime(u) \in Int
        BY <1>1, <1>3 DEF Timed, Follows, NextStepTime
      <3>2. k * q \in Int
        OBVIOUS
      <3> QED
        BY <3>1, <3>2
    <2>4. a < end /\ b >= a + q /\ a >= last + x
      BY <1>1, <1>2, <1>4, <2>2, <2>3
    <2>5. (k + 1) * q = x + q /\ (k + 1 - 1) * q = x
      <3>1. (k + 1) * q = k * q + q /\ k + 1 - 1 = k
        OBVIOUS
      <3> QED
        BY <2>3, <3>1
    <2>6. b >= last + (k + 1) * q /\ last + (k + 1 - 1) * q < end
      BY <2>4, <2>5
    <2> QED
      BY <1>2, <1>3, <2>3, <2>6 DEF Turned
  <1> QED
    BY <1>2, <1>3, <1>4 DEF Turned

\* The loop of run_until_() ends: within the turns it is given it reaches the end.
LEMMA LoopReachesTheEnd ==
  ASSUME NEW s, Shaped(s), Timed(s), NEW end \in Int, s.last_time <= end,
         NEW n, n = (end - s.last_time) \div (s.frame_period - 2) + 3,
         NEW u, u = Turns(s, end, n)
  PROVE  Follows(s, u) /\ u.last_time = end
  <1>1. PICK last \in Int, q \in Nat \ {0} :
           last = s.last_time /\ q = s.frame_period - 2 /\ last <= end
    BY DEF Timed
  <1>14. PICK d \in Int : d = end - last
    OBVIOUS
  <1>2. PICK m \in Int : m = d \div q
    BY Division
  <1>3. PICK x \in Int : x = m * q /\ x <= end - last /\ end - last < x + q
    <2>1. d = m * q + (d % q) /\ d % q \in 0 .. q - 1
      BY <1>2, Division
    <2>2. m * q \in Int
      OBVIOUS
    <2> QED
      BY <1>14, <2>1, <2>2
  <1>4. m \in Nat
    <2> SUFFICES ASSUME m <= -1 PROVE FALSE
      OBVIOUS
    <2>1. m * q <= (-1) * q
      BY Scaling
    <2> QED
      BY <1>1, <1>3, <2>1
  <1>5. n \in Nat /\ n = m + 3
    BY <1>1, <1>2, <1>4, <1>14
  <1>6. u = (CHOOSE f : IterationsTo(s, end, n, f))[n]
    BY Zenon DEF Turns, Repeat, IterationsTo
  <1>7. PICK f : f = (CHOOSE g : IterationsTo(s, end, n, g)) /\ IterationsTo(s, end, n, f)
    BY <1>5, IterationsExist
  <1>8. \A j \in 0 .. n : f[j] = IF j = 0 THEN s ELSE Iteration(f[j - 1], end)
    BY <1>7, Zenon DEF IterationsTo
  <1> DEFINE T == {k \in Nat : k <= n => Turned(s, f[k], end, last, q, k)}
  <1>9. 0 \in T
    <2>1. f[0] = s
      BY <1>5, <1>8
    <2>3. 0 * q = 0 /\ last + 0 = last
      OBVIOUS
    <2>4. NextStepTime(s) >= last
      BY <1>1 DEF NextStepTime, Timed
    <2>2. NextStepTime(s) >= last + 0 * q
      BY <2>3, <2>4
    <2> QED
      BY <1>1, <2>1, <2>2, FollowsItself DEF Turned
  <1>10. ASSUME NEW k \in Nat, k \in T PROVE k + 1 \in T
    <2> SUFFICES ASSUME k + 1 <= n PROVE Turned(s, f[k + 1], end, last, q, k + 1)
      OBVIOUS
    <2>1. Turned(s, f[k], end, last, q, k)
      BY <1>5, <1>10
    <2>2. f[k + 1] = Iteration(f[k], end)
      <3>1. k + 1 \in 0 .. n /\ k + 1 # 0 /\ k + 1 - 1 = k
        BY <1>5
      <3>2. f[k + 1] = IF k + 1 = 0 THEN s ELSE Iteration(f[k + 1 - 1], end)
        BY <1>8, <3>1
      <3> QED
        BY <3>1, <3>2, Zenon
    <2> QED
      BY <1>1, <2>1, <2>2, TurnedOnce
  <1> HIDE DEF T
  <1>11. n \in T
    BY <1>5, <1>9, <1>10, Induction
  <1>12. Turned(s, u, end, last, q, n)
    <2>1. n <= n => Turned(s, f[n], end, last, q, n)
      BY <1>11, Zenon DEF T
    <2>3. u = f[n]
      BY <1>6, <1>7, Zenon
    <2>2. n <= n /\ u = f[n]
      BY <1>5, <2>3
    <2> QED
      BY <2>1, <2>2
  <1>13. ~(last + (n - 1) * q < end)
    <2>1. (n - 1) * q = x + q + q
      BY <1>3, <1>5
    <2> QED
      BY <1>3, <2>1
  <1>15. n > 0
    BY <1>4, <1>5
  <1> QED
    BY <1>12, <1>13, <1>15, Zenon DEF Turned

\* A chip in order: its channels, its DMC and its sequencer agree with one another.
Chip(s) ==
  /\ Shaped(s) /\ DmcOk(s) /\ Timed(s) /\ s.last_dmc_time = s.last_time
  /\ \A i \in 0 .. 3 : i \notin s.enables => s.len[i] = 0

\* u is s at another time, its sequencer on the same beat.
RunsTo(s, u, end) ==
  /\ Chip(u) /\ u.last_time = end
  /\ u.mode = s.mode /\ u.pal = s.pal /\ u.frame_period = s.frame_period
  /\ (NextStepTime(u) - NextStepTime(s)) % 2 = 0
  /\ \A at \in Int : OnBeat(s, at) => OnBeat(u, at)

\* A chip that does not run.
LEMMA RunsToItself ==
  ASSUME NEW s, Chip(s) PROVE RunsTo(s, s, s.last_time)
  BY FollowsItself DEF RunsTo, Follows, Chip

\* One run, and another.
LEMMA RunsToChains ==
  ASSUME NEW s, Chip(s), NEW from, NEW t, RunsTo(s, t, from), NEW end, NEW u, RunsTo(t, u, end)
  PROVE  RunsTo(s, u, end)
  <1>1. NextStepTime(s) \in Int /\ NextStepTime(t) \in Int /\ NextStepTime(u) \in Int
    BY DEF RunsTo, Chip, Timed, NextStepTime
  <1>2. (NextStepTime(u) - NextStepTime(s)) % 2 = 0
    BY <1>1 DEF RunsTo
  <1> QED
    BY <1>2 DEF RunsTo

\* Nes_Apu::run_until() brings the chip to its time, in order and on its beat.
LEMMA RunUntilRuns ==
  ASSUME NEW s, Chip(s), NEW end \in Int, s.last_time <= end, NEW u, u = RunUntil(s, end)
  PROVE  RunsTo(s, u, end)
  <1>1. CASE end = s.last_time
    BY <1>1, RunsToItself DEF RunUntil
  <1>2. CASE end # s.last_time
    <2>1. PICK t : t = RunDmcUntil(s, end)
      OBVIOUS
    <2>2. u = Turns(t, end, (end - s.last_time) \div (s.frame_period - 2) + 3)
      BY <1>2, <2>1 DEF RunUntil, Turns
    <2>3. DmcMoves(s, t) /\ DmcOk(t) /\ t.last_dmc_time = end
      <3>1. s.last_dmc_time < end
        BY <1>2 DEF Chip, Timed
      <3> QED
        BY <2>1, <3>1, DmcRunsOn DEF Chip
    <2>4. Shaped(t) /\ Timed(t) /\ t.last_time <= end
      BY <2>3 DEF DmcMoves, Timed, Chip
    <2>5. u = Turns(t, end, (end - t.last_time) \div (t.frame_period - 2) + 3)
      BY <2>2, <2>3 DEF DmcMoves
    <2>6. Follows(t, u) /\ u.last_time = end
      BY <2>4, <2>5, LoopReachesTheEnd
    <2>7. Leaves(t, u) /\ Shaped(u) /\ Timed(u)
      BY <2>6 DEF Follows, Leaves
    <2>8. DmcOk(u)
      BY <2>3, <2>7 DEF Leaves, DmcOk, Whole, DmcNumbers, Loops, IrqTime
    <2>9. \A i \in 0 .. 3 : i \notin u.enables => u.len[i] = 0
      BY <2>3, <2>4, <2>7 DEF Leaves, DmcMoves, Chip, Shaped, Oscs
    <2>10. Chip(u)
      BY <2>3, <2>6, <2>7, <2>8, <2>9 DEF Chip, Leaves
    <2>11. NextStepTime(t) = NextStepTime(s) /\ \A at \in Int : OnBeat(s, at) => OnBeat(t, at)
      BY <2>3 DEF DmcMoves, NextStepTime, OnBeat, Places
    <2> QED
      BY <2>3, <2>6, <2>10, <2>11 DEF RunsTo, Follows, Leaves, DmcMoves
  <1> QED
    BY <1>1, <1>2

---------------------------------------------------------------------------
(* Registers *)

\* The clock and the sequencer are as they were.
KeepsTime(s, u) ==
  /\ u.last_time = s.last_time /\ u.last_dmc_time = s.last_dmc_time
  /\ u.frame_delay = s.frame_delay /\ u.frame_period = s.frame_period /\ u.frame = s.frame
  /\ u.mode = s.mode /\ u.pal = s.pal

\* What does not touch the clocks leaves the sequencer on its beat.
LEMMA TimeIsKept ==
  ASSUME NEW s, Chip(s), NEW u, KeepsTime(s, u), Shaped(u), DmcOk(u),
         \A i \in 0 .. 3 : i \notin u.enables => u.len[i] = 0
  PROVE  RunsTo(s, u, s.last_time)
  <1>1. Chip(u)
    BY DEF Chip, Timed, KeepsTime
  <1>2. NextStepTime(u) = NextStepTime(s) /\ NextStepTime(s) \in Int
    BY DEF Chip, Timed, KeepsTime, NextStepTime
  <1>3. (NextStepTime(u) - NextStepTime(s)) % 2 = 0
    BY <1>2
  <1>4. \A at \in Int : OnBeat(s, at) => OnBeat(u, at)
    BY <1>2 DEF OnBeat, Places, KeepsTime
  <1> QED
    BY <1>1, <1>3, <1>4 DEF RunsTo, KeepsTime

\* DmcOk, the time of the IRQ apart.
DmcOkButIrq(s) ==
  /\ Whole(s) /\ DmcNumbers(s) /\ s.last_dmc_time \in Int
  /\ s.dmc.irq_enabled => ~Loops(s)
  /\ s.dmc.irq_flag => s.len[4] = 0

\* recalc_irq() puts the time of the IRQ right.
LEMMA RecalcIrqWorksItOut ==
  ASSUME NEW s, Shaped(s), DmcOkButIrq(s), NEW u, u = RecalcIrq(s)
  PROVE  Aside(s, u) /\ DmcOk(u)
  <1>1. PICK irq : irq = IF s.dmc.irq_enabled /\ s.len[4] > 0 THEN IrqTime(s) ELSE NoIrq
    OBVIOUS
  <1>2. u = IF irq = s.dmc.next_irq THEN s ELSE IrqChanged([s EXCEPT !.dmc.next_irq = irq])
    BY <1>1 DEF RecalcIrq, IrqTime
  <1>3. CASE irq = s.dmc.next_irq
    <2>1. u = s
      BY <1>2, <1>3
    <2> QED
      BY <1>1, <1>3, <2>1 DEF Aside, DmcOk, DmcOkButIrq
  <1>4. CASE irq # s.dmc.next_irq
    <2>1. PICK t : t = [s EXCEPT !.dmc.next_irq = irq]
      OBVIOUS
    <2>2. t.dmc = [s.dmc EXCEPT !.next_irq = irq]
      BY <2>1 DEF Shaped, Fields
    <2>3. /\ DOMAIN t.dmc = DmcFields /\ t.dmc.next_irq = irq
          /\ t.dmc.period = s.dmc.period /\ t.dmc.irq_enabled = s.dmc.irq_enabled
          /\ t.dmc.bits_remain = s.dmc.bits_remain
          /\ t.dmc.buf_full = s.dmc.buf_full /\ t.dmc.reads = s.dmc.reads
          /\ t.dmc.irq_flag = s.dmc.irq_flag
      BY <2>2 DEF Shaped, DmcFields
    <2>4. Aside(s, t) /\ t.len = s.len /\ t.enables = s.enables
      BY <2>1, <2>3 DEF Shaped, Fields, Aside
    <2>5. Shaped(t)
      BY <2>4 DEF Aside
    <2>6. u = IrqChanged(t)
      BY <1>2, <1>4, <2>1
    <2>7. Aside(t, u) /\ u.dmc = t.dmc /\ u.len = t.len /\ u.enables = t.enables
      BY <2>5, <2>6, IrqChangedKeeps
    <2>8. Aside(s, u)
      BY <2>4, <2>7, AsideChains
    <2>9. IrqTime(u) = IrqTime(s) /\ (Loops(u) <=> Loops(s))
      BY <2>3, <2>4, <2>7, <2>8 DEF IrqTime, Loops, Aside
    <2>10. Whole(u) /\ DmcNumbers(u) /\ u.last_dmc_time \in Int
      BY <2>3, <2>4, <2>7, <2>8 DEF DmcOkButIrq, Whole, DmcNumbers, Aside
    <2>11. /\ u.dmc.irq_enabled => ~Loops(u)
           /\ u.dmc.irq_flag => u.len[4] = 0
      BY <2>3, <2>4, <2>7, <2>9 DEF DmcOkButIrq
    <2>12. u.dmc.next_irq # NoIrq =>
             u.dmc.irq_enabled /\ u.len[4] > 0 /\ u.dmc.next_irq = IrqTime(u)
      <3>1. u.dmc.next_irq = irq /\ u.len = s.len
        BY <2>3, <2>4, <2>7
      <3>2. irq # NoIrq => s.dmc.irq_enabled /\ s.len[4] > 0 /\ irq = IrqTime(s)
        BY <1>1
      <3>3. s.dmc.irq_enabled => u.dmc.irq_enabled
        BY <2>3, <2>7
      <3> QED
        BY <2>9, <3>1, <3>2, <3>3, Zenon
    <2> QED
      BY <2>8, <2>10, <2>11, <2>12 DEF DmcOk
  <1> QED
    BY <1>3, <1>4

\* What is done to the DMC alone takes no time.
LEMMA AsideKeepsTime == ASSUME NEW s, NEW u, Aside(s, u) PROVE KeepsTime(s, u)
  BY DEF Aside, KeepsTime

\* Every rate of the DMC has a period.
LEMMA PeriodOfRate ==
  ASSUME NEW k \in 1 .. 16, NEW kind \in {"ntsc", "pal"}
  PROVE  dmc_period_table[kind][k] \in Nat \ {0}
  BY DEF dmc_period_table

\* Every index of a length has one.
LEMMA LengthOfIndex == ASSUME NEW k \in 1 .. 32 PROVE length_table[k] \in Nat
  BY DEF length_table

\* The first register of the DMC: its rate, its loop and its IRQ.
LEMMA DmcWriteSetsRate ==
  ASSUME NEW s, Shaped(s), Whole(s), DmcNumbers(s), s.last_dmc_time \in Int,
         s.dmc.irq_flag => s.len[4] = 0, NEW data \in 0 .. 255, s.regs[4][0] = data,
         NEW u, u = DmcWrite(s, 0, data)
  PROVE  Aside(s, u) /\ DmcOk(u)
  <1>1. PICK irq : irq = (data \div 64 = 2)
    OBVIOUS
  <1>2. PICK period \in Nat \ {0} :
           period = dmc_period_table[IF s.pal THEN "pal" ELSE "ntsc"][(data % 16) + 1]
    <2>1. PICK kind \in {"ntsc", "pal"} : kind = IF s.pal THEN "pal" ELSE "ntsc"
      OBVIOUS
    <2>2. PICK k \in 1 .. 16 : k = (data % 16) + 1
      OBVIOUS
    <2> QED
      BY <2>1, <2>2, PeriodOfRate
  <1>3. PICK flag : flag = (s.dmc.irq_flag /\ irq)
    OBVIOUS
  <1>4. PICK t : t = [s EXCEPT !.dmc.period = period, !.dmc.irq_enabled = irq,
                               !.dmc.irq_flag = flag]
    OBVIOUS
  <1>5. u = RecalcIrq(t)
    BY <1>1, <1>2, <1>3, <1>4 DEF DmcWrite
  <1>6. t.dmc = [s.dmc EXCEPT !.period = period, !.irq_enabled = irq, !.irq_flag = flag]
    BY <1>4 DEF Shaped, Fields
  <1>7. /\ DOMAIN t.dmc = DmcFields /\ t.dmc.period = period /\ t.dmc.irq_enabled = irq
        /\ t.dmc.bits_remain = s.dmc.bits_remain
        /\ t.dmc.buf_full = s.dmc.buf_full /\ t.dmc.reads = s.dmc.reads
        /\ t.dmc.irq_flag = flag
    BY <1>6 DEF Shaped, DmcFields
  <1>8. Aside(s, t) /\ t.len = s.len /\ t.enables = s.enables
    BY <1>4, <1>7 DEF Shaped, Fields, Aside
  <1>9. Shaped(t)
    BY <1>8 DEF Aside
  <1>10. t.dmc.irq_enabled => ~Loops(t)
    <2>1. ASSUME irq PROVE (data \div 64) % 2 # 1
      <3>1. data \div 64 = 2
        BY <1>1, <2>1, Zenon
      <3>2. 2 % 2 # 1
        OBVIOUS
      <3> QED
        BY <3>1, <3>2, Zenon
    <2>2. t.regs[4][0] = data
      BY <1>8 DEF Aside
    <2> QED
      BY <1>7, <2>1, <2>2 DEF Loops
  <1>11. t.dmc.irq_flag => t.len[4] = 0
    BY <1>3, <1>7, <1>8
  <1>12. Whole(t) /\ DmcNumbers(t) /\ t.last_dmc_time \in Int
    BY <1>7, <1>8 DEF Whole, DmcNumbers, Aside
  <1>13. Aside(t, u) /\ DmcOk(u)
    BY <1>5, <1>9, <1>10, <1>11, <1>12, RecalcIrqWorksItOut DEF DmcOkButIrq
  <1> QED
    BY <1>8, <1>13, AsideChains

\* A write to a channel's register leaves the chip in order.
LEMMA WriteChannelRuns ==
  ASSUME NEW s, Chip(s), NEW addr \in 16384 .. 16403, NEW data \in 0 .. 255,
         NEW u, u = WriteChannel(s, addr, data)
  PROVE  RunsTo(s, u, s.last_time)
  <1>1. PICK i \in Oscs, reg \in 0 .. 3 : i = (addr - 16384) \div 4 /\ reg = addr % 4
    BY DEF Oscs
  <1>2. PICK t : t = [s EXCEPT !.regs[i][reg] = data, !.written[i][reg] = TRUE]
    OBVIOUS
  <1>3. u = IF i = 4 THEN DmcWrite(t, reg, data)
            ELSE IF reg # 3 THEN t
            ELSE [t EXCEPT !.len[i] = IF i \in s.enables THEN length_table[data \div 8 + 1] ELSE @,
                           !.phase = IF i < 2 THEN [@ EXCEPT ![i] = 7] ELSE @]
    BY <1>1, <1>2 DEF WriteChannel
  <1>4. Shaped(s) /\ DmcOk(s)
    BY DEF Chip
  <1>5. /\ DOMAIN t = Fields /\ t.dmc = s.dmc /\ t.len = s.len /\ t.delay = s.delay
        /\ t.enables = s.enables /\ KeepsTime(s, t)
        /\ t.regs = [s.regs EXCEPT ![i][reg] = data]
    BY <1>2, <1>4 DEF Shaped, Fields, KeepsTime
  <1>6. /\ DOMAIN t.regs = Oscs
        /\ i = 4 => t.regs[4] = [s.regs[4] EXCEPT ![reg] = data]
        /\ i # 4 => t.regs[4] = s.regs[4]
    BY <1>4, <1>5 DEF Shaped, Oscs
  <1>7. t.regs[4] \in [0 .. 3 -> 0 .. 255]
    BY <1>4, <1>6 DEF Shaped
  <1>8. Shaped(t)
    BY <1>4, <1>5, <1>6, <1>7 DEF Shaped
  <1>9. CASE i = 4 /\ reg = 0
    <2>1. u = DmcWrite(t, 0, data)
      BY <1>3, <1>9
    <2>2. t.regs[4][0] = data
      BY <1>4, <1>6, <1>9 DEF Shaped
    <2>3. Whole(t) /\ DmcNumbers(t) /\ t.last_dmc_time \in Int /\ (t.dmc.irq_flag => t.len[4] = 0)
      BY <1>4, <1>5 DEF DmcOk, Whole, DmcNumbers, KeepsTime
    <2>4. Aside(t, u) /\ DmcOk(u)
      BY <1>8, <2>1, <2>2, <2>3, DmcWriteSetsRate
    <2>5. KeepsTime(s, u)
      BY <1>5, <2>4 DEF Aside, KeepsTime
    <2>6. \A j \in 0 .. 3 : j \notin u.enables => u.len[j] = 0
      BY <1>5, <2>4 DEF Aside, Chip
    <2> QED
      BY <2>4, <2>5, <2>6, TimeIsKept DEF Aside
  <1>10. CASE ~(i = 4 /\ reg = 0)
    <2>1. t.regs[4][0] = s.regs[4][0]
      BY <1>4, <1>6, <1>10 DEF Shaped
    <2>2. DmcOk(t)
      BY <1>4, <1>5, <2>1 DEF DmcOk, Whole, DmcNumbers, KeepsTime, Loops, IrqTime
    <2>3. RunsTo(s, t, s.last_time)
      BY <1>5, <1>8, <2>2, TimeIsKept DEF Chip
    <2>4. CASE u = t
      BY <2>3, <2>4
    <2>5. CASE u # t
      <3>1. i \in 0 .. 3 /\ u = [t EXCEPT !.len[i] = IF i \in s.enables THEN length_table[data \div 8 + 1] ELSE t.len[i],
                           !.phase = IF i < 2 THEN [t.phase EXCEPT ![i] = 7] ELSE t.phase]
        BY <1>3, <1>10, <2>5 DEF DmcWrite, Oscs
      <3>2. length_table[data \div 8 + 1] \in Nat
        <4>1. PICK k \in 1 .. 32 : k = data \div 8 + 1
          OBVIOUS
        <4> QED
          BY <4>1, LengthOfIndex
      <3>3. PICK l \in Nat : l = IF i \in s.enables THEN length_table[data \div 8 + 1] ELSE t.len[i]
        BY <1>8, <3>1, <3>2 DEF Shaped, Oscs
      <3> DEFINE phase == IF i < 2 THEN [t.phase EXCEPT ![i] = 7] ELSE t.phase
      <3>5. u = [t EXCEPT !.len[i] = l, !.phase = phase]
        BY <3>1, <3>3
      <3> HIDE DEF phase
      <3>6. /\ DOMAIN u = Fields /\ u.dmc = t.dmc /\ u.len = [t.len EXCEPT ![i] = l]
            /\ u.delay = t.delay /\ u.enables = t.enables /\ KeepsTime(t, u) /\ u.regs = t.regs
        BY <1>8, <3>5 DEF Shaped, Fields, KeepsTime
      <3>7. u.len \in [Oscs -> Nat] /\ u.len[4] = t.len[4] /\ u.len[i] = l
            /\ \A j \in 0 .. 3 : j # i => u.len[j] = t.len[j]
        BY <1>8, <3>1, <3>6 DEF Shaped, Oscs
      <3>8. Shaped(u)
        BY <1>8, <3>6, <3>7 DEF Shaped
      <3>9. DmcOk(u)
        BY <2>2, <3>6, <3>7 DEF DmcOk, Whole, DmcNumbers, KeepsTime, Loops, IrqTime
      <3>10. \A j \in 0 .. 3 : j \notin u.enables => u.len[j] = 0
        BY <1>5, <3>1, <3>3, <3>6, <3>7 DEF Chip
      <3>11. KeepsTime(s, u)
        BY <1>5, <3>6 DEF KeepsTime
      <3> QED
        BY <3>8, <3>9, <3>10, <3>11, TimeIsKept
    <2> QED
      BY <2>4, <2>5
  <1> QED
    BY <1>9, <1>10

\* A sample that starts: bytes, one of them read ahead, and the time of its IRQ.
LEMMA DmcStartStarts ==
  ASSUME NEW s, Shaped(s), DmcNumbers(s), s.last_dmc_time \in Int, 4 \in s.enables,
         s.dmc.irq_enabled => ~Loops(s), ~s.dmc.irq_flag, NEW u, u = DmcStart(s)
  PROVE  Aside(s, u) /\ DmcOk(u)
  <1>1. PICK t : t = ReloadSample(s)
    OBVIOUS
  <1>2. /\ Aside(s, t) /\ t.enables = s.enables /\ t.len[4] \in Nat /\ t.len[4] > 0
        /\ t.dmc.period = s.dmc.period /\ t.dmc.bits_remain = s.dmc.bits_remain
        /\ t.dmc.irq_enabled = s.dmc.irq_enabled /\ t.dmc.irq_flag = s.dmc.irq_flag
        /\ t.dmc.reads = s.dmc.reads
    BY <1>1, ReloadSampleSets
  <1>3. PICK v : v = FillBuffer(t)
    OBVIOUS
  <1>4. u = RecalcIrq(v)
    BY <1>1, <1>3 DEF DmcStart
  <1>5. Shaped(t) /\ (Loops(t) <=> Loops(s)) /\ ~t.dmc.irq_flag
    BY <1>2 DEF Aside, Loops
  <1>6. CASE t.dmc.buf_full
    <2>1. v = t
      BY <1>3, <1>6 DEF FillBuffer
    <2>2. DmcOkButIrq(v)
      BY <1>2, <1>5, <1>6, <2>1 DEF DmcOkButIrq, Whole, DmcNumbers, Aside
    <2>3. Aside(v, u) /\ DmcOk(u)
      BY <1>4, <1>5, <2>1, <2>2, RecalcIrqWorksItOut
    <2> QED
      BY <1>2, <2>1, <2>3, AsideChains
  <1>7. CASE ~t.dmc.buf_full
    <2>1. /\ Aside(t, v) /\ Clocked(t, v) /\ v.dmc.reads = t.dmc.reads + 1
          /\ t.len[4] > 1 => /\ v.len[4] = t.len[4] - 1 /\ v.dmc.buf_full = TRUE
                             /\ v.enables = t.enables /\ v.dmc.next_irq = t.dmc.next_irq
                             /\ v.dmc.irq_flag = t.dmc.irq_flag
          /\ t.len[4] = 1 /\ Loops(t) =>
                             /\ v.len[4] > 0 /\ v.dmc.buf_full = TRUE
                             /\ v.enables = t.enables /\ v.dmc.next_irq = t.dmc.next_irq
                             /\ v.dmc.irq_flag = t.dmc.irq_flag
          /\ t.len[4] = 1 /\ ~Loops(t) =>
                             /\ v.len[4] = 0 /\ v.enables = t.enables \ {4}
                             /\ v.dmc.next_irq = NoIrq
                             /\ v.dmc.irq_flag = t.dmc.irq_enabled
      BY <1>2, <1>3, <1>5, <1>7, FillBufferReads
    <2>2. Aside(s, v) /\ Shaped(v) /\ (Loops(v) <=> Loops(s))
      <3>1. Aside(s, v)
        BY <1>2, <2>1, AsideChains
      <3> QED
        BY <3>1 DEF Aside, Loops
    <2>3. /\ v.dmc.irq_enabled => ~Loops(v)
          /\ DmcNumbers(v) /\ v.last_dmc_time \in Int
      BY <1>2, <2>1, <2>2 DEF DmcNumbers, Clocked, Aside
    <2>4. CASE t.len[4] > 1 \/ (t.len[4] = 1 /\ Loops(t))
      <3>1. v.len[4] > 0 /\ v.dmc.buf_full /\ v.enables = s.enables /\ v.dmc.irq_flag = s.dmc.irq_flag
        BY <1>2, <2>1, <2>4
      <3>2. Whole(v) /\ ~v.dmc.irq_flag
        BY <3>1 DEF Whole
      <3>3. DmcOkButIrq(v)
        BY <2>3, <3>2 DEF DmcOkButIrq
      <3> QED
        BY <1>4, <2>2, <3>3, RecalcIrqWorksItOut, AsideChains
    <2>5. CASE t.len[4] = 1 /\ ~Loops(t)
      <3>1. v.len[4] = 0 /\ 4 \notin v.enables
        BY <2>1, <2>5
      <3>2. Whole(v)
        BY <3>1 DEF Whole
      <3>3. DmcOkButIrq(v)
        BY <2>3, <3>1, <3>2 DEF DmcOkButIrq
      <3> QED
        BY <1>4, <2>2, <3>3, RecalcIrqWorksItOut, AsideChains
    <2> QED
      BY <1>2, <2>4, <2>5
  <1> QED
    BY <1>6, <1>7

\* The earliest IRQ says nothing of the DMC.
LEMMA IrqChangedRuns ==
  ASSUME NEW s, Shaped(s), DmcOk(s), NEW u, u = IrqChanged(s)
  PROVE  Aside(s, u) /\ DmcOk(u)
  <1>1. Aside(s, u) /\ u.dmc = s.dmc /\ u.len = s.len /\ u.enables = s.enables
    BY IrqChangedKeeps
  <1> QED
    BY <1>1 DEF Aside, DmcOk, Whole, DmcNumbers, Loops, IrqTime

\* A write to $4015 leaves the chip in order.
LEMMA WriteEnablesRuns ==
  ASSUME NEW s, Chip(s), NEW data \in 0 .. 255, NEW u, u = WriteEnables(s, data)
  PROVE  RunsTo(s, u, s.last_time)
  <1>1. PICK on : on = {i \in Oscs : BitOf(data, i) = 1}
    OBVIOUS
  <1>2. PICK len : len = [i \in Oscs |-> IF i \in on THEN s.len[i] ELSE 0]
    OBVIOUS
  <1>3. PICK irq : irq = IF 4 \in on THEN s.dmc.next_irq ELSE NoIrq
    OBVIOUS
  <1>4. PICK t : t = [s EXCEPT !.len = len, !.dmc.irq_flag = FALSE, !.enables = on,
                               !.dmc.next_irq = irq]
    OBVIOUS
  <1>5. PICK v : v = IF 4 \in on \ s.enables THEN DmcStart(t) ELSE t
    OBVIOUS
  <1>6. u = IF s.dmc.irq_flag \/ 4 \notin on THEN IrqChanged(v) ELSE v
    BY <1>1, <1>2, <1>3, <1>4, <1>5 DEF WriteEnables
  <1>7. Shaped(s) /\ DmcOk(s)
    BY DEF Chip
  <1>8. /\ DOMAIN t = Fields /\ t.len = len /\ t.delay = s.delay /\ t.regs = s.regs
        /\ t.enables = on /\ KeepsTime(s, t)
        /\ t.dmc = [s.dmc EXCEPT !.irq_flag = FALSE, !.next_irq = irq]
    BY <1>4, <1>7 DEF Shaped, Fields, KeepsTime
  <1>9. /\ DOMAIN t.dmc = DmcFields /\ t.dmc.period = s.dmc.period
        /\ t.dmc.irq_enabled = s.dmc.irq_enabled /\ t.dmc.bits_remain = s.dmc.bits_remain
        /\ t.dmc.buf_full = s.dmc.buf_full /\ t.dmc.reads = s.dmc.reads
        /\ t.dmc.irq_flag = FALSE /\ t.dmc.next_irq = irq
    BY <1>7, <1>8 DEF Shaped, DmcFields
  <1>10. len \in [Oscs -> Nat] /\ \A i \in Oscs : len[i] = IF i \in on THEN s.len[i] ELSE 0
    BY <1>2, <1>7 DEF Shaped
  <1>11. Shaped(t)
    BY <1>7, <1>8, <1>9, <1>10 DEF Shaped
  <1>12. \A i \in 0 .. 3 : i \notin t.enables => t.len[i] = 0
    BY <1>8, <1>10 DEF Oscs
  <1>13. DmcNumbers(t) /\ t.last_dmc_time \in Int /\ (t.dmc.irq_enabled => ~Loops(t))
    BY <1>7, <1>8, <1>9 DEF DmcOk, DmcNumbers, KeepsTime, Loops
  <1>14. DmcOk(v) /\ Shaped(v) /\ KeepsTime(s, v)
         /\ \A i \in 0 .. 3 : i \notin v.enables => v.len[i] = 0
    <2>1. CASE 4 \in on \ s.enables
      <3>1. v = DmcStart(t) /\ ~t.dmc.irq_flag /\ 4 \in t.enables
        BY <1>5, <1>8, <1>9, <2>1
      <3>2. Aside(t, v) /\ DmcOk(v)
        BY <1>11, <1>13, <3>1, DmcStartStarts
      <3> QED
        BY <1>8, <1>12, <3>2 DEF Aside, KeepsTime
    <2>2. CASE 4 \notin on
      <3>1. v = t /\ t.len[4] = 0 /\ 4 \notin t.enables /\ t.dmc.next_irq = NoIrq
        BY <1>3, <1>5, <1>8, <1>9, <1>10, <2>2 DEF Oscs
      <3>2. Whole(t)
        BY <3>1 DEF Whole
      <3>3. DmcOk(t)
        BY <1>13, <3>1, <3>2 DEF DmcOk
      <3> QED
        BY <1>8, <1>11, <1>12, <3>1, <3>3
    <2>3. CASE 4 \in on /\ 4 \in s.enables
      <3>1. /\ v = t /\ t.len[4] = s.len[4] /\ 4 \in t.enables
            /\ t.dmc.next_irq = s.dmc.next_irq
        BY <1>3, <1>5, <1>8, <1>9, <1>10, <2>3 DEF Oscs
      <3>2. Whole(t)
        BY <1>7, <1>9, <2>3, <3>1 DEF Whole, DmcOk
      <3>3. IrqTime(t) = IrqTime(s)
        BY <1>8, <1>9, <3>1 DEF IrqTime, KeepsTime
      <3>4. DmcOk(t)
        BY <1>7, <1>9, <1>13, <3>1, <3>2, <3>3 DEF DmcOk
      <3> QED
        BY <1>8, <1>11, <1>12, <3>1, <3>4
    <2> QED
      BY <2>1, <2>2, <2>3
  <1>15. CASE u = v
    BY <1>14, <1>15, TimeIsKept
  <1>16. CASE u = IrqChanged(v)
    <2>1. Aside(v, u) /\ DmcOk(u)
      BY <1>14, <1>16, IrqChangedRuns
    <2> QED
      BY <1>14, <2>1, TimeIsKept DEF Aside, KeepsTime
  <1> QED
    BY <1>6, <1>15, <1>16

\* u is s with its sequencer started again.
Restarts(s, u, time, data) ==
  /\ Chip(u) /\ u.last_time = time /\ u.mode = data
  /\ (NextStepTime(u) - NextStepTime(s)) % 2 = 0
  /\ OnBeat(u, time + (u.frame_delay % 2))

\* A write to $4017 starts the sequencer again, on the side of the clock it was on.
LEMMA WriteModeRestarts ==
  ASSUME NEW s, Chip(s), NEW data \in 0 .. 255, NEW time, time = s.last_time,
         NEW u, u = WriteMode(s, time, data)
  PROVE  Restarts(s, u, time, data)
  <1>1. PICK p \in Nat, d \in Nat, at \in Int :
           p = s.frame_period /\ d = s.frame_delay /\ at = time /\ p % 2 = 0 /\ p >= 1864
    BY DEF Chip, Timed
  <1>2. PICK delay \in Nat : delay = (d % 2) + (IF data < 128 THEN p ELSE 0)
    <2>1. d % 2 \in Nat
      OBVIOUS
    <2> QED
      BY <2>1
  <1>3. PICK irq, flag, frame :
           /\ flag = (s.irq_flag /\ (BitOf(data, 6) = 0))
           /\ frame = (IF data < 128 THEN 1 ELSE 0)
           /\ irq = (IF data < 128 /\ BitOf(data, 6) = 0
                     THEN time + delay + s.frame_period * 3 + 1 ELSE NoIrq)
    OBVIOUS
  <1>13. frame \in 0 .. 3
    BY <1>3
  <1>4. PICK t : t = [s EXCEPT !.mode = data, !.irq_flag = flag, !.frame_delay = delay,
                               !.frame = frame, !.next_irq = irq]
    OBVIOUS
  <1>5. u = IrqChanged(t)
    BY <1>1, <1>2, <1>3, <1>4 DEF WriteMode
  <1>6. /\ DOMAIN t = Fields /\ t.dmc = s.dmc /\ t.len = s.len /\ t.delay = s.delay
        /\ t.regs = s.regs /\ t.enables = s.enables /\ t.last_time = s.last_time
        /\ t.last_dmc_time = s.last_dmc_time /\ t.frame_delay = delay /\ t.frame = frame
        /\ t.frame_period = s.frame_period /\ t.mode = data /\ t.pal = s.pal
    BY <1>4 DEF Chip, Shaped, Fields
  <1>7. Shaped(t) /\ DmcOk(t)
    BY <1>6 DEF Chip, Shaped, DmcOk, Whole, DmcNumbers, Loops, IrqTime
  <1>8. Aside(t, u) /\ DmcOk(u)
    BY <1>5, <1>7, IrqChangedRuns
  <1>9. /\ u.last_time = at /\ u.frame_delay = delay /\ u.frame = frame /\ u.frame_period = p
        /\ u.mode = data /\ u.last_dmc_time = u.last_time /\ u.pal = s.pal /\ Shaped(u)
    BY <1>1, <1>6, <1>8 DEF Aside, Chip
  <1>10. Chip(u)
    BY <1>1, <1>6, <1>8, <1>9, <1>13 DEF Aside, Chip, Timed
  <1>11. (NextStepTime(u) - NextStepTime(s)) % 2 = 0
    <2>1. NextStepTime(u) = at + delay /\ NextStepTime(s) = at + d
      BY <1>1, <1>9 DEF NextStepTime
    <2>2. (at + delay) - (at + d) = delay - d
      OBVIOUS
    <2>3. (delay - d) % 2 = 0
      BY <1>1, <1>2
    <2> QED
      BY <2>1, <2>2, <2>3
  <1>12. OnBeat(u, time + (u.frame_delay % 2))
    <2>1. delay % 2 = d % 2
      BY <1>1, <1>2
    <2>2. PICK x \in Nat : x = (IF data < 128 THEN p ELSE 0)
      OBVIOUS
    <2>3. NextStepTime(u) - (time + (u.frame_delay % 2)) = x
      <3>1. NextStepTime(u) = at + delay /\ u.frame_delay % 2 = d % 2
        BY <1>9, <2>1 DEF NextStepTime
      <3>2. d % 2 \in Nat
        OBVIOUS
      <3> QED
        BY <1>1, <1>2, <2>2, <3>1, <3>2
    <2>4. PICK P : P = Places(u, u.mode)
      OBVIOUS
    <2>5. Gap(u, P, frame, ToNextStep(u))
      BY <1>9, <1>10, <2>4, ToNextStepIsTheGap DEF Chip
    <2>6. P.at[2] = p /\ P.at[1] = 0
      BY <1>1, <1>9, <2>4 DEF Places
    <2>7. x = P.at[frame + 1]
      BY <1>3, <2>2, <2>6
    <2>8. P.period \in Nat \ {0} /\ x < P.period
      BY <1>3, <1>13, <2>5, <2>7 DEF Gap
    <2>9. x % P.period = x
      BY <2>8
    <2> QED
      BY <1>9, <2>3, <2>4, <2>7, <2>9 DEF OnBeat
  <1> QED
    BY <1>1, <1>9, <1>10, <1>11, <1>12 DEF Restarts

\* One even distance, and another.
LEMMA ParityChains ==
  ASSUME NEW a \in Int, NEW b \in Int, NEW c \in Int, (b - a) % 2 = 0, (c - b) % 2 = 0
  PROVE  (c - a) % 2 = 0
  OBVIOUS

\* The time of the sequencer's next step is a number.
LEMMA NextStepIsInt == ASSUME NEW s, Chip(s) PROVE NextStepTime(s) \in Int
  BY DEF Chip, Timed, NextStepTime

\* u is s after a write.
Wrote(s, u, time, addr, data) ==
  /\ addr = 16407 => Restarts(s, u, time, data)
  /\ addr # 16407 => RunsTo(s, u, time)

\* Nes_Apu::write_register(): the run to its time, and the write.
LEMMA WriteRegisterRuns ==
  ASSUME NEW s, Chip(s), NEW time \in Int, s.last_time <= time, NEW addr \in Int,
         NEW data \in 0 .. 255, NEW u, u = WriteRegister(s, time, addr, data)
  PROVE  Wrote(s, u, time, addr, data)
  <1>1. PICK t : t = RunUntil(s, time)
    OBVIOUS
  <1>2. RunsTo(s, t, time)
    BY <1>1, RunUntilRuns
  <1>3. Chip(t) /\ t.last_time = time
    BY <1>2 DEF RunsTo
  <1>4. CASE addr \in 16384 .. 16403
    <2>1. u = WriteChannel(t, addr, data)
      BY <1>1, <1>4 DEF WriteRegister
    <2>2. RunsTo(t, u, time)
      BY <1>3, <1>4, <2>1, WriteChannelRuns
    <2> QED
      BY <1>2, <1>4, <2>2, RunsToChains DEF Wrote
  <1>5. CASE addr = 16405
    <2>1. u = WriteEnables(t, data)
      BY <1>1, <1>5 DEF WriteRegister
    <2>2. RunsTo(t, u, time)
      BY <1>3, <2>1, WriteEnablesRuns
    <2> QED
      BY <1>2, <1>5, <2>2, RunsToChains DEF Wrote
  <1>6. CASE addr = 16407
    <2>1. u = WriteMode(t, time, data)
      BY <1>1, <1>6 DEF WriteRegister
    <2>2. Restarts(t, u, time, data)
      BY <1>3, <2>1, WriteModeRestarts
    <2>3. (NextStepTime(u) - NextStepTime(s)) % 2 = 0
      BY <1>2, <1>3, <2>2, NextStepIsInt, ParityChains DEF Restarts, RunsTo
    <2> QED
      BY <1>6, <2>2, <2>3 DEF Restarts, Wrote
  <1>7. CASE addr \notin 16384 .. 16403 /\ addr # 16405 /\ addr # 16407
    <2>1. u = t
      BY <1>1, <1>7 DEF WriteRegister
    <2> QED
      BY <1>2, <1>7, <2>1 DEF Wrote
  <1> QED
    BY <1>4, <1>5, <1>6, <1>7 DEF Wrote

\* Nes_Apu::read_status(): two runs, and the flag it clears.
LEMMA StatusRuns ==
  ASSUME NEW s, Chip(s), NEW time \in Int, s.last_time < time, NEW u, u = Status(s, time).apu
  PROVE  RunsTo(s, u, time)
  <1>1. PICK before : before = RunUntil(s, time - 1)
    OBVIOUS
  <1>2. PICK after : after = RunUntil(before, time)
    OBVIOUS
  <1>3. u = IF after.irq_flag THEN IrqChanged([after EXCEPT !.irq_flag = FALSE]) ELSE after
    BY <1>1, <1>2 DEF Status
  <1>4. s.last_time \in Int
    BY DEF Chip, Timed
  <1>5. RunsTo(s, before, time - 1)
    BY <1>1, <1>4, RunUntilRuns
  <1>6. RunsTo(before, after, time)
    BY <1>2, <1>5, RunUntilRuns DEF RunsTo
  <1>7. RunsTo(s, after, time)
    BY <1>5, <1>6, RunsToChains
  <1>8. CASE u = after
    BY <1>7, <1>8
  <1>9. CASE u = IrqChanged([after EXCEPT !.irq_flag = FALSE])
    <2>1. PICK t : t = [after EXCEPT !.irq_flag = FALSE]
      OBVIOUS
    <2>2. Chip(after) /\ after.last_time = time
      BY <1>7 DEF RunsTo
    <2>3. /\ DOMAIN t = Fields /\ t.dmc = after.dmc /\ t.len = after.len /\ t.delay = after.delay
          /\ t.enables = after.enables /\ KeepsTime(after, t) /\ t.regs = after.regs
      BY <2>1, <2>2 DEF Chip, Shaped, Fields, KeepsTime
    <2>4. Shaped(t) /\ DmcOk(t)
      BY <2>2, <2>3 DEF Chip, Shaped, DmcOk, Whole, DmcNumbers, Loops, IrqTime, KeepsTime
    <2>5. Aside(t, u) /\ DmcOk(u)
      BY <1>9, <2>1, <2>4, IrqChangedRuns
    <2>6. Shaped(u) /\ KeepsTime(after, u)
      BY <2>3, <2>5 DEF Aside, KeepsTime
    <2>7. \A i \in 0 .. 3 : i \notin u.enables => u.len[i] = 0
      BY <2>2, <2>3, <2>5 DEF Aside, Chip
    <2>8. RunsTo(after, u, time)
      BY <2>2, <2>5, <2>6, <2>7, TimeIsKept
    <2> QED
      BY <1>7, <2>8, RunsToChains
  <1> QED
    BY <1>3, <1>8, <1>9

\* The end of a frame: all times are counted from it.
LEMMA EndFrameShifts ==
  ASSUME NEW s, Chip(s), NEW end \in Int, s.last_time <= end, NEW u, u = EndFrame(s, end)
  PROVE  /\ Chip(u) /\ u.last_time = 0 /\ u.mode = s.mode
         /\ ((NextStepTime(u) + end) - NextStepTime(s)) % 2 = 0
         /\ \A at \in Int : OnBeat(s, at) => OnBeat(u, at - end)
  <1>1. PICK t : t = IF end > s.last_time THEN RunUntil(s, end) ELSE s
    OBVIOUS
  <1>2. RunsTo(s, t, end)
    <2>1. s.last_time \in Int
      BY DEF Chip, Timed
    <2>2. CASE end > s.last_time
      BY <1>1, <2>1, <2>2, RunUntilRuns
    <2>3. CASE end = s.last_time
      BY <1>1, <2>1, <2>3, RunsToItself
    <2> QED
      BY <2>1, <2>2, <2>3
  <1>3. PICK last, dmc_last, irq, dmc_irq, earliest :
           /\ last = t.last_time - end /\ dmc_last = t.last_dmc_time - end
           /\ irq = (IF t.next_irq = NoIrq THEN t.next_irq ELSE t.next_irq - end)
           /\ dmc_irq = (IF t.dmc.next_irq = NoIrq THEN t.dmc.next_irq ELSE t.dmc.next_irq - end)
           /\ earliest = (IF t.earliest = NoIrq THEN t.earliest
                          ELSE IF t.earliest < end THEN 0 ELSE t.earliest - end)
    OBVIOUS
  <1>4. u = [t EXCEPT !.last_time = last, !.last_dmc_time = dmc_last, !.next_irq = irq,
                      !.dmc.next_irq = dmc_irq, !.earliest = earliest]
    BY <1>1, <1>3 DEF EndFrame
  <1>5. Chip(t) /\ t.last_time = end /\ t.last_dmc_time = end
    BY <1>2 DEF RunsTo, Chip
  <1>6. /\ DOMAIN u = Fields /\ u.len = t.len /\ u.delay = t.delay /\ u.regs = t.regs
        /\ u.enables = t.enables /\ u.last_time = last /\ u.last_dmc_time = dmc_last
        /\ u.frame_delay = t.frame_delay /\ u.frame_period = t.frame_period /\ u.frame = t.frame
        /\ u.mode = t.mode /\ u.pal = t.pal
        /\ u.dmc = [t.dmc EXCEPT !.next_irq = dmc_irq]
    BY <1>4, <1>5 DEF Chip, Shaped, Fields
  <1>7. /\ DOMAIN u.dmc = DmcFields /\ u.dmc.period = t.dmc.period
        /\ u.dmc.irq_enabled = t.dmc.irq_enabled /\ u.dmc.bits_remain = t.dmc.bits_remain
        /\ u.dmc.buf_full = t.dmc.buf_full /\ u.dmc.reads = t.dmc.reads
        /\ u.dmc.irq_flag = t.dmc.irq_flag /\ u.dmc.next_irq = dmc_irq
    BY <1>5, <1>6 DEF Chip, Shaped, DmcFields
  <1>8. last = 0 /\ dmc_last = 0
    BY <1>3, <1>5
  <1>9. Shaped(u)
    BY <1>5, <1>6, <1>7 DEF Chip, Shaped
  <1>10. u.dmc.next_irq # NoIrq =>
           u.dmc.irq_enabled /\ u.len[4] > 0 /\ u.dmc.next_irq = IrqTime(u)
    <2> SUFFICES ASSUME u.dmc.next_irq # NoIrq
                 PROVE  u.dmc.irq_enabled /\ u.len[4] > 0 /\ u.dmc.next_irq = IrqTime(u)
      OBVIOUS
    <2>1. t.dmc.next_irq # NoIrq /\ dmc_irq = t.dmc.next_irq - end
      BY <1>3, <1>7
    <2>2. t.dmc.irq_enabled /\ t.len[4] > 0 /\ t.dmc.next_irq = IrqTime(t)
      BY <1>5, <2>1 DEF Chip, DmcOk
    <2>3. PICK d \in Int, x \in Int :
             d = t.delay[4] /\ x = ((t.len[4] - 1) * 8 + t.dmc.bits_remain - 1) * t.dmc.period
      <3>1. PICK l \in Int, r \in Int, p \in Int :
               l = t.len[4] /\ r = t.dmc.bits_remain /\ p = t.dmc.period
        BY <1>5, DmcInts DEF Chip
      <3>2. PICK y \in Int : y = (l - 1) * 8 + r - 1
        OBVIOUS
      <3>3. y * p \in Int
        OBVIOUS
      <3> QED
        BY <1>5, <3>1, <3>2, <3>3 DEF Chip, Shaped, Oscs
    <2>4. IrqTime(t) = end + d + x + 1
      BY <1>5, <2>3 DEF IrqTime
    <2>5. IrqTime(u) = 0 + d + x + 1
      <3>1. u.delay[4] = d /\ u.last_dmc_time = 0
        BY <1>6, <1>8, <2>3
      <3>2. u.len[4] = t.len[4] /\ u.dmc.bits_remain = t.dmc.bits_remain /\ u.dmc.period = t.dmc.period
        BY <1>6, <1>7
      <3>3. IrqTime(u) = 0 + d + ((t.len[4] - 1) * 8 + t.dmc.bits_remain - 1) * t.dmc.period + 1
        BY <3>1, <3>2, Zenon DEF IrqTime
      <3> QED
        BY <2>3, <3>3
    <2>6. dmc_irq = IrqTime(u)
      BY <2>1, <2>2, <2>4, <2>5
    <2> QED
      BY <1>6, <1>7, <2>2, <2>6
  <1>11. DmcOk(u)
    BY <1>5, <1>6, <1>7, <1>8, <1>10 DEF Chip, DmcOk, Whole, DmcNumbers, Loops
  <1>12. Chip(u)
    BY <1>5, <1>6, <1>8, <1>9, <1>11 DEF Chip, Timed
  <1>13. NextStepTime(t) = end + t.frame_delay /\ NextStepTime(u) = t.frame_delay
         /\ t.frame_delay \in Int
    BY <1>5, <1>6, <1>8 DEF NextStepTime, Chip, Timed
  <1>14. ((NextStepTime(u) + end) - NextStepTime(s)) % 2 = 0
    <2>1. NextStepTime(u) + end = NextStepTime(t)
      BY <1>13
    <2>2. (NextStepTime(t) - NextStepTime(s)) % 2 = 0
      BY <1>2 DEF RunsTo
    <2> QED
      BY <2>1, <2>2, Zenon
  <1>15. ASSUME NEW at \in Int, OnBeat(s, at) PROVE OnBeat(u, at - end)
    <2>1. OnBeat(t, at)
      BY <1>2, <1>15 DEF RunsTo
    <2>2. NextStepTime(u) - (at - end) = NextStepTime(t) - at
      BY <1>13
    <2>3. Places(u, u.mode) = Places(t, t.mode)
      BY <1>6 DEF Places
    <2> QED
      BY <1>6, <2>1, <2>2, <2>3 DEF OnBeat
  <1> QED
    BY <1>2, <1>6, <1>8, <1>12, <1>14, <1>15 DEF RunsTo

---------------------------------------------------------------------------
(* Starts *)

\* u is s with that period.
HasPeriod(s, u, p) == u = [s EXCEPT !.frame_period = p]

\* The period stays even, and long enough for the steps of the sequencer.
LEMMA SetTempoSetsPeriod ==
  ASSUME NEW s, NEW num \in Nat \ {0}, NEW den \in Nat \ {0}, num <= 4 * den,
         NEW u, u = SetTempo(s, num, den)
  PROVE  \E p \in Nat : p % 2 = 0 /\ p >= 1864 /\ HasPeriod(s, u, p)
  <1>1. PICK p \in Nat : p = (IF num = den THEN FramePeriod(s)
                              ELSE 2 * ((FramePeriod(s) * den) \div (2 * num)))
                         /\ p % 2 = 0 /\ p >= 1864
    <2>1. PICK f \in Nat : f = FramePeriod(s) /\ f % 2 = 0 /\ f >= 7458
      BY DEF FramePeriod
    <2>2. PICK n \in Nat, d \in Nat \ {0} : n = f * den /\ d = 2 * num
      <3>1. f * den \in Nat /\ 2 * num \in Nat \ {0}
        OBVIOUS
      <3> QED
        BY <3>1
    <2>3. PICK q \in Int : q = n \div d /\ n < q * d + d
      <3>1. n \div d \in Int /\ n = (n \div d) * d + (n % d) /\ n % d < d /\ n % d \in Int
        BY Division
      <3>2. (n \div d) * d \in Int
        BY <3>1
      <3> QED
        BY <3>1, <3>2
    <2>4. 932 <= q
      <3> SUFFICES ASSUME q <= 931 PROVE FALSE
        OBVIOUS
      <3>1. q * d <= 931 * d
        BY <2>2, Scaling
      <3>2. f * den >= 7458 * den
        <4>1. 7458 * den <= f * den
          BY <2>1, Scaling
        <4> QED
          BY <4>1
      <3>3. n >= 7458 * den
        BY <2>2, <3>2
      <3>4. 931 * d + d <= 7456 * den
        BY <2>2
      <3>5. q * d \in Int
        OBVIOUS
      <3> QED
        BY <2>3, <3>1, <3>3, <3>4, <3>5
    <2>5. CASE num = den
      BY <2>1, <2>5
    <2>6. CASE num # den
      <3>1. 2 * q \in Nat /\ (2 * q) % 2 = 0 /\ 2 * q >= 1864
        BY <2>4
      <3>2. q = (FramePeriod(s) * den) \div (2 * num)
        BY <2>1, <2>2, <2>3
      <3> QED
        BY <2>6, <3>1, <3>2
    <2> QED
      BY <2>5, <2>6
  <1>2. HasPeriod(s, u, p)
    BY <1>1 DEF SetTempo, HasPeriod
  <1> QED
    BY <1>1, <1>2

\* u is s at another tempo.
Retimed(s, u) ==
  /\ Chip(u) /\ u.last_time = s.last_time /\ u.mode = s.mode
  /\ u.frame_delay = s.frame_delay
  /\ NextStepTime(u) = NextStepTime(s)

\* A change of tempo is for the steps after the next.
LEMMA SetTempoKeeps ==
  ASSUME NEW s, Chip(s), NEW num \in Nat \ {0}, NEW den \in Nat \ {0}, num <= 4 * den,
         NEW u, u = SetTempo(s, num, den)
  PROVE  Retimed(s, u)
  <1>1. PICK p \in Nat : p % 2 = 0 /\ p >= 1864 /\ HasPeriod(s, u, p)
    BY SetTempoSetsPeriod
  <1>2. u = [s EXCEPT !.frame_period = p]
    BY <1>1 DEF HasPeriod
  <1>3. /\ DOMAIN u = Fields /\ u.dmc = s.dmc /\ u.len = s.len /\ u.delay = s.delay
        /\ u.regs = s.regs /\ u.enables = s.enables /\ u.last_time = s.last_time
        /\ u.last_dmc_time = s.last_dmc_time /\ u.frame_delay = s.frame_delay
        /\ u.frame = s.frame /\ u.frame_period = p /\ u.mode = s.mode /\ u.pal = s.pal
    BY <1>2 DEF Chip, Shaped, Fields
  <1>4. Shaped(u) /\ DmcOk(u)
    BY <1>3 DEF Chip, Shaped, DmcOk, Whole, DmcNumbers, Loops, IrqTime
  <1>5. Chip(u)
    BY <1>1, <1>3, <1>4 DEF Chip, Timed
  <1> QED
    BY <1>3, <1>5 DEF NextStepTime, Retimed

\* A chip at time 0, whose sequencer was started there.
Fresh(s) == Chip(s) /\ s.last_time = 0 /\ OnBeat(s, s.frame_delay % 2)

\* A write at time 0.
LEMMA WriteKeepsFresh ==
  ASSUME NEW s, Fresh(s), NEW addr \in Int, NEW data \in 0 .. 255,
         NEW u, u = WriteRegister(s, 0, addr, data)
  PROVE  Fresh(u)
  <1>1. /\ addr = 16407 => Restarts(s, u, 0, data)
        /\ addr # 16407 => RunsTo(s, u, 0)
    <2>1. PICK time \in Int : time = 0
      OBVIOUS
    <2>2. Chip(s) /\ s.last_time <= time /\ u = WriteRegister(s, time, addr, data)
      BY <2>1 DEF Fresh
    <2>3. Wrote(s, u, time, addr, data)
      BY <2>2, WriteRegisterRuns
    <2> QED
      BY <2>1, <2>3 DEF Wrote
  <1>2. CASE addr = 16407
    <2>1. PICK d \in Int : d = u.frame_delay % 2
      BY <1>1, <1>2 DEF Restarts, Chip, Timed
    <2> QED
      BY <1>1, <1>2, <2>1 DEF Restarts, Fresh
  <1>3. CASE addr # 16407
    <2>1. Chip(u) /\ u.last_time = 0 /\ (NextStepTime(u) - NextStepTime(s)) % 2 = 0
          /\ \A at \in Int : OnBeat(s, at) => OnBeat(u, at)
      BY <1>1, <1>3 DEF RunsTo
    <2>2. PICK a \in Nat, b \in Nat : a = s.frame_delay /\ b = u.frame_delay
      BY <2>1 DEF Fresh, Chip, Timed
    <2>3. a % 2 = b % 2
      BY <2>1, <2>2 DEF Fresh, NextStepTime
    <2>4. a % 2 \in Int
      OBVIOUS
    <2> QED
      BY <2>1, <2>2, <2>3, <2>4 DEF Fresh
  <1> QED
    BY <1>2, <1>3

\* The first writes of a list, one after the other.
WritesTo(s, writes, n, f) ==
  f = [k \in 0 .. n |-> IF k = 0 THEN s
                        ELSE WriteRegister(f[k - 1], 0, writes[k][1], writes[k][2])]

\* The first writes of any list are there to be listed.
LEMMA WritesExist ==
  ASSUME NEW s, NEW writes, NEW n \in Nat PROVE \E f : WritesTo(s, writes, n, f)
  <1> DEFINE T == {m \in Nat : \E f : WritesTo(s, writes, m, f)}
  <1>1. 0 \in T
    <2> DEFINE g == [k \in 0 .. 0 |-> s]
    <2>1. WritesTo(s, writes, 0, g)
      BY DEF WritesTo
    <2> HIDE DEF g
    <2> QED
      BY <2>1
  <1>2. ASSUME NEW m \in Nat, m \in T PROVE m + 1 \in T
    <2>1. PICK f : WritesTo(s, writes, m, f)
      BY <1>2
    <2> DEFINE g == [k \in 0 .. m + 1 |->
                       IF k = m + 1 THEN WriteRegister(f[m], 0, writes[m + 1][1], writes[m + 1][2])
                       ELSE f[k]]
    <2>2. ASSUME NEW k \in 0 .. m + 1
          PROVE  g[k] = IF k = 0 THEN s ELSE WriteRegister(g[k - 1], 0, writes[k][1], writes[k][2])
      <3>1. CASE k = m + 1
        BY <3>1
      <3>2. CASE k # m + 1
        <4>1. k \in 0 .. m /\ (k = 0 \/ k - 1 \in 0 .. m + 1) /\ k - 1 # m + 1
          BY <3>2
        <4>2. f[k] = IF k = 0 THEN s ELSE WriteRegister(f[k - 1], 0, writes[k][1], writes[k][2])
          BY <2>1, <4>1 DEF WritesTo
        <4>3. g[k] = f[k] /\ (k # 0 => g[k - 1] = f[k - 1])
          BY <4>1
        <4> QED
          BY <4>2, <4>3
      <3> QED
        BY <3>1, <3>2
    <2>3. g = [k \in 0 .. m + 1 |-> g[k]]
      OBVIOUS
    <2> HIDE DEF g
    <2>4. WritesTo(s, writes, m + 1, g)
      BY <2>2, <2>3 DEF WritesTo
    <2> QED
      BY <2>4
  <1> HIDE DEF T
  <1>3. \A m \in Nat : m \in T
    BY <1>1, <1>2, Induction
  <1> QED
    BY <1>3 DEF T

\* Any list of writes at time 0.
LEMMA WriteAllKeepsFresh ==
  ASSUME NEW s, Fresh(s), NEW writes \in Seq(RegisterWrites)
  PROVE  Fresh(WriteAll(s, 0, writes))
  <1>1. PICK n \in Nat : n = Len(writes)
    OBVIOUS
  <1>2. WriteAll(s, 0, writes) = (CHOOSE f : WritesTo(s, writes, n, f))[n]
    BY <1>1, Zenon DEF WriteAll, WritesTo
  <1>3. PICK f : f = (CHOOSE g : WritesTo(s, writes, n, g)) /\ WritesTo(s, writes, n, f)
    BY WritesExist
  <1>4. \A j \in 0 .. n : f[j] = IF j = 0 THEN s
                                 ELSE WriteRegister(f[j - 1], 0, writes[j][1], writes[j][2])
    BY <1>3, Zenon DEF WritesTo
  <1> DEFINE T == {k \in Nat : k <= n => Fresh(f[k])}
  <1>5. 0 \in T
    BY <1>4
  <1>6. ASSUME NEW k \in Nat, k \in T PROVE k + 1 \in T
    <2> SUFFICES ASSUME k + 1 <= n PROVE Fresh(f[k + 1])
      OBVIOUS
    <2>1. Fresh(f[k])
      BY <1>6
    <2>2. f[k + 1] = WriteRegister(f[k], 0, writes[k + 1][1], writes[k + 1][2])
      <3>1. k + 1 \in 0 .. n /\ k + 1 # 0 /\ k + 1 - 1 = k
        OBVIOUS
      <3>2. f[k + 1] = IF k + 1 = 0 THEN s
                       ELSE WriteRegister(f[k + 1 - 1], 0, writes[k + 1][1], writes[k + 1][2])
        BY <1>4, <3>1
      <3> QED
        BY <3>1, <3>2, Zenon
    <2>3. writes[k + 1] \in Int \X (0 .. 255)
      BY <1>1 DEF RegisterWrites
    <2>4. PICK addr \in Int, data \in 0 .. 255 : addr = writes[k + 1][1] /\ data = writes[k + 1][2]
      BY <2>3
    <2> QED
      BY <2>1, <2>2, <2>4, WriteKeepsFresh
  <1> HIDE DEF T
  <1>7. n \in T
    BY <1>5, <1>6, Induction
  <1> QED
    BY <1>2, <1>3, <1>7 DEF T

\* The chip before reset() writes its registers.
LEMMA PowerUp ==
  ASSUME NEW pal, NEW outputs, NEW num \in Nat \ {0}, NEW den \in Nat \ {0}, num <= 4 * den,
         NEW s, s = PoweredOn(pal, outputs)
  PROVE  Fresh(SetTempo(s, num, den))
  <1>1. DOMAIN s = Fields
    BY DEF PoweredOn, Fields
  <1>2. /\ s.regs = [i \in Oscs |-> [k \in 0 .. 3 |-> 0]]
        /\ s.len = [i \in Oscs |-> 0] /\ s.delay = [i \in Oscs |-> 0]
        /\ s.last_time = 0 /\ s.last_dmc_time = 0 /\ s.frame_delay = 1 /\ s.frame_period = 0
        /\ s.frame = 0 /\ s.mode = 0 /\ s.enables = {} /\ s.pal = pal
        /\ s.dmc = [address |-> 0, period |-> 428, bits_remain |-> 1, buf_full |-> FALSE,
                    silence |-> TRUE, next_irq |-> NoIrq, irq_enabled |-> FALSE,
                    irq_flag |-> FALSE, reads |-> 0]
    BY DEF PoweredOn
  <1>3. DOMAIN s.dmc = DmcFields /\ s.dmc.period = 428 /\ s.dmc.bits_remain = 1
        /\ s.dmc.reads = 0 /\ ~s.dmc.irq_enabled /\ ~s.dmc.irq_flag /\ s.dmc.next_irq = NoIrq
    BY <1>2 DEF DmcFields
  <1>4. Shaped(s)
    BY <1>1, <1>2, <1>3 DEF Shaped, Oscs
  <1>5. s.len[4] = 0 /\ \A i \in 0 .. 3 : s.len[i] = 0
    BY <1>2 DEF Oscs
  <1>6. DmcOk(s)
    BY <1>2, <1>3, <1>5 DEF DmcOk, Whole, DmcNumbers
  <1>10. PICK u : u = SetTempo(s, num, den)
    OBVIOUS
  <1>7. PICK p \in Nat : p % 2 = 0 /\ p >= 1864 /\ HasPeriod(s, u, p)
    BY <1>10, SetTempoSetsPeriod
  <1>8. /\ DOMAIN u = Fields /\ u.dmc = s.dmc /\ u.len = s.len /\ u.delay = s.delay
        /\ u.regs = s.regs /\ u.enables = s.enables /\ u.last_time = s.last_time
        /\ u.last_dmc_time = s.last_dmc_time /\ u.frame_delay = s.frame_delay
        /\ u.frame = s.frame /\ u.frame_period = p /\ u.mode = s.mode /\ u.pal = s.pal
    BY <1>1, <1>7 DEF HasPeriod, Fields
  <1>9. Chip(u)
    <2>1. Shaped(u) /\ DmcOk(u)
      BY <1>4, <1>6, <1>8 DEF Shaped, DmcOk, Whole, DmcNumbers, Loops, IrqTime
    <2>2. Timed(u)
      BY <1>2, <1>7, <1>8 DEF Timed
    <2> QED
      BY <1>2, <1>5, <1>8, <2>1, <2>2 DEF Chip
  <1>12. Chip(u) /\ u.last_time = 0 /\ u.frame_delay = 1 /\ u.mode = 0 /\ NextStepTime(u) = 1
    BY <1>2, <1>8, <1>9 DEF NextStepTime
  <1>13. u.frame = 0
    BY <1>2, <1>8
  <1>14. OnBeat(u, u.frame_delay % 2)
    <2>1. PICK P : P = Places(u, u.mode)
      OBVIOUS
    <2>2. Gap(u, P, 0, ToNextStep(u))
      BY <1>12, <1>13, <2>1, ToNextStepIsTheGap DEF Chip
    <2>3. P.period \in Nat \ {0} /\ P.at[1] = 0
      BY <2>2 DEF Gap
    <2>4. 0 % P.period = 0 /\ 1 % 2 = 1 /\ 1 - 1 = 0
      BY <2>3
    <2> QED
      BY <1>12, <1>13, <2>1, <2>3, <2>4 DEF OnBeat
  <1> QED
    BY <1>10, <1>12, <1>14 DEF Fresh

\* What reset() writes are bytes, to registers.
LEMMA ResetWritesAreWrites == ResetWrites \in Seq(RegisterWrites)
  <1> DEFINE a == <<<<16407, 0>>, <<16405, 0>>>>
             b == [k \in 1 .. 20 |-> <<16383 + k, IF (k - 1) % 4 = 0 THEN 16 ELSE 0>>]
  <1>1. a \in Seq(RegisterWrites)
    BY DEF RegisterWrites
  <1>2. b \in Seq(RegisterWrites)
    <2>1. b \in [1 .. 20 -> RegisterWrites]
      BY DEF RegisterWrites
    <2> QED
      BY <2>1
  <1> HIDE DEF a, b
  <1>3. a \o b \in Seq(RegisterWrites)
    BY <1>1, <1>2
  <1> QED
    BY <1>3 DEF ResetWrites, a, b

\* Nes_Apu::reset() gives a chip in order.
LEMMA ResetIsFresh ==
  ASSUME NEW pal, NEW outputs, NEW tempo, IsTempo(tempo)
  PROVE  Fresh(Reset(pal, outputs, tempo))
  <1>1. PICK num \in Nat \ {0}, den \in Nat \ {0} :
           num = tempo[1] /\ den = tempo[2] /\ num <= 4 * den
    BY DEF IsTempo
  <1>2. PICK s : s = PoweredOn(pal, outputs)
    OBVIOUS
  <1>3. PICK t : t = SetTempo(s, num, den)
    OBVIOUS
  <1>4. Fresh(t)
    BY <1>1, <1>2, <1>3, PowerUp
  <1>5. Reset(pal, outputs, tempo) = WriteAll(t, 0, ResetWrites)
    BY <1>1, <1>2, <1>3, Zenon DEF Reset
  <1> QED
    BY <1>4, <1>5, ResetWritesAreWrites, WriteAllKeepsFresh

\* So does Nsf_Emu::start_track_(), whatever INIT writes.
LEMMA StartIsFresh ==
  ASSUME NEW pal, NEW outputs, NEW tempo, IsTempo(tempo), NEW writes \in Seq(RegisterWrites)
  PROVE  Fresh(Start(pal, outputs, tempo, writes))
  <1>1. PICK s : s = Reset(pal, outputs, tempo)
    OBVIOUS
  <1> DEFINE all == <<<<16405, 15>>>> \o writes
  <1>3. all \in Seq(RegisterWrites)
    <2>1. <<<<16405, 15>>>> \in Seq(RegisterWrites)
      BY DEF RegisterWrites
    <2> QED
      BY <2>1
  <1>4. Start(pal, outputs, tempo, writes) = WriteAll(s, 0, all)
    BY <1>1 DEF Start
  <1> HIDE DEF all
  <1> QED
    BY <1>1, <1>3, <1>4, ResetIsFresh, WriteAllKeepsFresh

---------------------------------------------------------------------------
(* The two chips *)

\* The step due next in the two chips is on the same side of a clock.
SameSide == ((NextStepTime(cut) + base) - NextStepTime(whole)) % 2 = 0

\* Both chips are in order, at the times the caller knows.
InOrder ==
  /\ base \in Nat /\ now \in Nat /\ base <= now
  /\ Chip(cut) /\ cut.last_time = now - base
  /\ Chip(whole) /\ whole.last_time <= now
  /\ SameSide
  /\ origin \in [at : Int, mode : 0 .. 255, steady : BOOLEAN] /\ origin.mode = cut.mode
  /\ origin.steady => OnBeat(cut, origin.at - base)

\* Two chips that start alike are in order.
LEMMA InitInOrder == Init => InOrder
  <1> SUFFICES ASSUME Init PROVE InOrder
    OBVIOUS
  <1>1. PICK chip \in Chips, writes \in Setups :
           cut = Start(chip[1], chip[2], chip[3], writes) /\ whole = cut
    BY DEF Init
  <1>2. IsTempo(chip[3]) /\ writes \in Seq(RegisterWrites)
    BY TemposAssumption, WritesAssumption
  <1>3. Fresh(cut)
    BY <1>1, <1>2, StartIsFresh
  <1>4. base = 0 /\ now = 0 /\ origin = Origin(cut, 0)
    BY DEF Init
  <1>5. PICK d \in Int : d = cut.frame_delay % 2
    BY <1>3 DEF Fresh, Chip, Timed
  <1>6. /\ origin.at = d /\ origin.mode = cut.mode /\ origin.at - base = d
        /\ origin \in [at : Int, mode : 0 .. 255, steady : BOOLEAN]
    BY <1>3, <1>4, <1>5 DEF Origin, Fresh, Chip, Timed
  <1>7. SameSide
    <2>1. PICK x \in Int : x = NextStepTime(cut)
      BY <1>3, NextStepIsInt DEF Fresh
    <2>2. ((x + 0) - x) % 2 = 0
      OBVIOUS
    <2> QED
      BY <1>1, <1>4, <2>1, <2>2 DEF SameSide
  <1> QED
    BY <1>1, <1>3, <1>4, <1>5, <1>6, <1>7 DEF Fresh, InOrder

\* Even distances stay even.
LEMMA SidesStay ==
  ASSUME NEW c \in Int, NEW d \in Int, NEW w \in Int, NEW x \in Int, NEW b \in Int, NEW e \in Int,
         ((c + b) - w) % 2 = 0, ((d + e) - (c + b)) % 2 = 0, (x - w) % 2 = 0
  PROVE  ((d + e) - x) % 2 = 0
  OBVIOUS

\* A write to both chips leaves them in order.
LEMMA WriteInOrder ==
  ASSUME InOrder, NEW wait \in Waits, NEW w \in Writes, Write(wait, w) PROVE InOrder'
  <1>1. PICK addr \in Int, data \in 0 .. 255 : addr = w[1] /\ data = w[2]
    BY WritesAssumption DEF RegisterWrites
  <1>2. wait \in Nat \ {0} /\ now' = now + wait /\ base' = base
    BY WaitsAssumption DEF Write, Later
  <1>3. PICK t \in Int, n \in Int, b \in Int, m \in Int :
           n = now' /\ b = base /\ t = now' - base /\ m = now
    BY <1>2 DEF InOrder
  <1>4. n \in Nat /\ b <= n /\ cut.last_time <= t /\ whole.last_time <= n
    <2>1. whole.last_time \in Int
      BY DEF InOrder, Chip, Timed
    <2> QED
      BY <1>2, <1>3, <2>1 DEF InOrder
  <1>14. Chip(cut) /\ Chip(whole) /\ t + b = n
    BY <1>2, <1>3 DEF InOrder
  <1>5. cut' = WriteRegister(cut, t, addr, data) /\ whole' = WriteRegister(whole, n, addr, data)
    BY <1>1, <1>3 DEF Write
  <1>6. Wrote(cut, cut', t, addr, data)
    BY <1>4, <1>5, <1>14, WriteRegisterRuns
  <1>7. Wrote(whole, whole', n, addr, data)
    BY <1>4, <1>5, <1>14, WriteRegisterRuns
  <1>8. /\ Chip(cut') /\ cut'.last_time = t /\ Chip(whole') /\ whole'.last_time = n
        /\ (NextStepTime(cut') - NextStepTime(cut)) % 2 = 0
        /\ (NextStepTime(whole') - NextStepTime(whole)) % 2 = 0
    BY <1>6, <1>7 DEF Wrote, Restarts, RunsTo
  <1>9. PICK c \in Int, d \in Int, x \in Int, y \in Int :
           /\ c = NextStepTime(cut) /\ d = NextStepTime(cut')
           /\ x = NextStepTime(whole) /\ y = NextStepTime(whole')
    BY <1>8, NextStepIsInt DEF InOrder
  <1>10. ((d + b) - y) % 2 = 0
    <2>1. ((c + b) - x) % 2 = 0
      BY <1>3, <1>9 DEF InOrder, SameSide
    <2>2. (d + b) - (c + b) = d - c
      OBVIOUS
    <2>3. ((d + b) - (c + b)) % 2 = 0 /\ (y - x) % 2 = 0
      BY <1>8, <1>9, <2>2
    <2> QED
      BY <2>1, <2>3, SidesStay
  <1>11. SameSide'
    BY <1>2, <1>3, <1>9, <1>10 DEF SameSide, NextStepTime
  <1>12. CASE addr = 16407
    <2>1. /\ cut'.mode = data /\ whole'.mode = data
          /\ OnBeat(cut', t + (cut'.frame_delay % 2))
      BY <1>6, <1>7, <1>12 DEF Wrote, Restarts
    <2>2. origin' = [at |-> now' + (whole'.frame_delay % 2), mode |-> whole'.mode, steady |-> TRUE]
      BY <1>1, <1>12 DEF Write, Origin
    <2>3. PICK f \in Nat, g \in Nat : f = cut'.frame_delay /\ g = whole'.frame_delay
      BY <1>8 DEF Chip, Timed
    <2>4. d = t + f /\ y = n + g
      BY <1>8, <1>9, <2>3 DEF NextStepTime
    <2>5. f % 2 = g % 2
      <3>1. (d + b) - y = f - g
        BY <1>14, <2>4
      <3>2. (f - g) % 2 = 0
        BY <1>10, <3>1
      <3> QED
        BY <3>2
    <2>6. PICK r \in Int : r = f % 2 /\ r = g % 2
      BY <2>5
    <2>7. /\ origin'.at = n + r /\ origin'.mode = cut'.mode
          /\ origin' \in [at : Int, mode : 0 .. 255, steady : BOOLEAN]
      BY <1>3, <2>1, <2>2, <2>3, <2>6
    <2>8. OnBeat(cut', origin'.at - base')
      <3>1. origin'.at - base' = t + r
        BY <1>2, <1>3, <2>7
      <3>2. OnBeat(cut', t + r)
        BY <2>1, <2>3, <2>6
      <3> QED
        BY <3>1, <3>2
    <2> QED
      BY <1>2, <1>3, <1>4, <1>8, <1>11, <2>7, <2>8 DEF InOrder, OnBeat, NextStepTime
  <1>13. CASE addr # 16407
    <2>1. origin' = origin
      BY <1>1, <1>13 DEF Write
    <2>2. cut'.mode = cut.mode /\ \A at \in Int : OnBeat(cut, at) => OnBeat(cut', at)
      BY <1>6, <1>13 DEF Wrote, RunsTo
    <2>3. PICK at \in Int : at = origin.at - base
      BY DEF InOrder
    <2>4. origin.steady => OnBeat(cut', at)
      BY <2>2, <2>3 DEF InOrder
    <2> QED
      BY <1>2, <1>3, <1>4, <1>8, <1>11, <2>1, <2>2, <2>3, <2>4 DEF InOrder, OnBeat, NextStepTime
  <1> QED
    BY <1>12, <1>13

\* So does a read of $4015...
LEMMA ReadStatusInOrder ==
  ASSUME InOrder, NEW wait \in Waits, ReadStatus(wait) PROVE InOrder'
  <1>1. wait \in Nat \ {0} /\ now' = now + wait /\ base' = base /\ origin' = origin
    BY WaitsAssumption DEF ReadStatus, Later
  <1>2. PICK t \in Int, n \in Int, b \in Int :
           n = now' /\ b = base /\ t = now' - base
    BY <1>1 DEF InOrder
  <1>3. n \in Nat /\ b <= n /\ cut.last_time < t /\ whole.last_time < n
    <2>1. whole.last_time \in Int
      BY DEF InOrder, Chip, Timed
    <2> QED
      BY <1>1, <1>2, <2>1 DEF InOrder
  <1>4. Chip(cut) /\ Chip(whole)
    BY DEF InOrder
  <1>5. cut' = Status(cut, t).apu /\ whole' = Status(whole, n).apu
    BY <1>2 DEF ReadStatus
  <1>6. RunsTo(cut, cut', t) /\ RunsTo(whole, whole', n)
    BY <1>3, <1>4, <1>5, StatusRuns
  <1>7. /\ Chip(cut') /\ cut'.last_time = t /\ Chip(whole') /\ whole'.last_time = n
        /\ (NextStepTime(cut') - NextStepTime(cut)) % 2 = 0
        /\ (NextStepTime(whole') - NextStepTime(whole)) % 2 = 0
        /\ cut'.mode = cut.mode /\ \A at \in Int : OnBeat(cut, at) => OnBeat(cut', at)
    BY <1>6 DEF RunsTo
  <1>8. PICK c \in Int, d \in Int, x \in Int, y \in Int :
           /\ c = NextStepTime(cut) /\ d = NextStepTime(cut')
           /\ x = NextStepTime(whole) /\ y = NextStepTime(whole')
    BY <1>4, <1>7, NextStepIsInt
  <1>9. SameSide'
    <2>1. ((c + b) - x) % 2 = 0
      BY <1>2, <1>8 DEF InOrder, SameSide
    <2>2. (d + b) - (c + b) = d - c
      OBVIOUS
    <2>3. ((d + b) - (c + b)) % 2 = 0 /\ (y - x) % 2 = 0
      BY <1>7, <1>8, <2>2
    <2>4. ((d + b) - y) % 2 = 0
      BY <2>1, <2>3, SidesStay
    <2> QED
      BY <1>1, <1>2, <1>8, <2>4 DEF SameSide, NextStepTime
  <1>10. PICK at \in Int : at = origin.at - base
    BY DEF InOrder
  <1>11. origin.steady => OnBeat(cut', at)
    BY <1>7, <1>10 DEF InOrder
  <1> QED
    BY <1>1, <1>2, <1>3, <1>7, <1>9, <1>10, <1>11 DEF InOrder, OnBeat, NextStepTime

\* ...the end of a frame, for the one chip that is given frames...
LEMMA EndInOrder ==
  ASSUME InOrder, NEW wait \in Waits, End(wait) PROVE InOrder'
  <1>1. wait \in Nat \ {0} /\ now' = now + wait /\ base' = now' /\ origin' = origin
        /\ whole' = whole
    BY WaitsAssumption DEF End, Later
  <1>2. PICK t \in Int, n \in Int, b \in Int :
           n = now' /\ b = base /\ t = now' - base
    BY <1>1 DEF InOrder
  <1>3. n \in Nat /\ cut.last_time <= t /\ whole.last_time <= n /\ t + b = n
    <2>1. whole.last_time \in Int
      BY DEF InOrder, Chip, Timed
    <2> QED
      BY <1>1, <1>2, <2>1 DEF InOrder
  <1>4. Chip(cut) /\ Chip(whole)
    BY DEF InOrder
  <1>5. cut' = EndFrame(cut, t)
    BY <1>2 DEF End
  <1>6. /\ Chip(cut') /\ cut'.last_time = 0 /\ cut'.mode = cut.mode
        /\ ((NextStepTime(cut') + t) - NextStepTime(cut)) % 2 = 0
        /\ \A at \in Int : OnBeat(cut, at) => OnBeat(cut', at - t)
    BY <1>3, <1>4, <1>5, EndFrameShifts
  <1>7. PICK c \in Int, d \in Int, x \in Int :
           c = NextStepTime(cut) /\ d = NextStepTime(cut') /\ x = NextStepTime(whole)
    BY <1>4, <1>6, NextStepIsInt
  <1>8. SameSide'
    <2>1. ((c + b) - x) % 2 = 0
      BY <1>2, <1>7 DEF InOrder, SameSide
    <2>2. (d + n) - (c + b) = (d + t) - c
      BY <1>3
    <2>3. ((d + n) - (c + b)) % 2 = 0 /\ (x - x) % 2 = 0
      BY <1>6, <1>7, <2>2
    <2>4. ((d + n) - x) % 2 = 0
      BY <2>1, <2>3, SidesStay
    <2> QED
      BY <1>1, <1>2, <1>7, <2>4 DEF SameSide, NextStepTime
  <1>9. PICK at \in Int : at = origin.at - base /\ origin'.at - base' = at - t
    BY <1>1, <1>2 DEF InOrder
  <1>10. origin.steady => OnBeat(cut', at - t)
    BY <1>6, <1>9 DEF InOrder
  <1>11. cut'.last_time = now' - base'
    BY <1>1, <1>2, <1>6
  <1> QED
    BY <1>1, <1>2, <1>3, <1>4, <1>6, <1>8, <1>9, <1>10, <1>11 DEF InOrder, OnBeat, NextStepTime

\* ...and a change of tempo.
LEMMA TempoInOrder ==
  ASSUME InOrder, NEW t \in Tempos, Tempo(t) PROVE InOrder'
  <1>1. PICK num \in Nat \ {0}, den \in Nat \ {0} : num = t[1] /\ den = t[2] /\ num <= 4 * den
    BY TemposAssumption DEF IsTempo
  <1>2. /\ now' = now /\ base' = base /\ base = now
        /\ origin' = [origin EXCEPT !.steady = FALSE]
    BY DEF Tempo
  <1>3. Chip(cut) /\ Chip(whole) /\ whole.last_time <= now /\ now \in Int
    BY DEF InOrder
  <1>4. PICK w : w = RunUntil(whole, now)
    OBVIOUS
  <1>5. RunsTo(whole, w, now)
    BY <1>3, <1>4, RunUntilRuns
  <1>6. cut' = SetTempo(cut, num, den) /\ whole' = SetTempo(w, num, den)
    BY <1>1, <1>4 DEF Tempo
  <1>7. /\ Chip(cut') /\ cut'.last_time = cut.last_time /\ cut'.mode = cut.mode
        /\ NextStepTime(cut') = NextStepTime(cut)
    <2>1. Retimed(cut, cut')
      BY <1>1, <1>3, <1>6, SetTempoKeeps
    <2> QED
      BY <2>1 DEF Retimed
  <1>8. /\ Chip(whole') /\ whole'.last_time = now
        /\ NextStepTime(whole') = NextStepTime(w)
    <2>1. Chip(w) /\ w.last_time = now
      BY <1>5 DEF RunsTo
    <2>2. Retimed(w, whole')
      BY <1>1, <1>6, <2>1, SetTempoKeeps
    <2> QED
      BY <2>1, <2>2 DEF Retimed
  <1>9. SameSide'
    <2>1. PICK c \in Int, x \in Int, y \in Int, b \in Int :
             /\ c = NextStepTime(cut) /\ x = NextStepTime(whole) /\ y = NextStepTime(w)
             /\ b = base
      BY <1>3, <1>5, NextStepIsInt DEF RunsTo, InOrder
    <2>2. ((c + b) - x) % 2 = 0
      BY <2>1 DEF InOrder, SameSide
    <2>3. ((c + b) - (c + b)) % 2 = 0
      OBVIOUS
    <2>4. (y - x) % 2 = 0
      BY <1>5, <2>1 DEF RunsTo
    <2>5. ((c + b) - y) % 2 = 0
      BY <2>2, <2>3, <2>4, SidesStay
    <2> QED
      BY <1>2, <1>7, <1>8, <2>1, <2>5 DEF SameSide, NextStepTime
  <1>10. /\ cut'.last_time = now' - base' /\ origin'.mode = cut'.mode /\ ~origin'.steady
         /\ origin' \in [at : Int, mode : 0 .. 255, steady : BOOLEAN]
    BY <1>2, <1>7 DEF InOrder
  <1> QED
    BY <1>2, <1>3, <1>7, <1>8, <1>9, <1>10 DEF InOrder

\* Whatever the writes, the reads of $4015, the changes of tempo and the frames: a chip's DMC is
\* enabled while it has bytes and has one read ahead, its IRQ is due when its last bit is, a channel
\* that is off has no length, and the sequencer's next step is at its place from the last write to
\* $4017. Nes_Apu::write_register(), read_status(), end_frame() and set_tempo() keep all of it.
THEOREM ChipsStayInOrder == Spec => []InOrder
  <1>1. Init => InOrder
    BY InitInOrder
  <1>2. InOrder /\ [Next]_vars => InOrder'
    <2> SUFFICES ASSUME InOrder, [Next]_vars PROVE InOrder'
      OBVIOUS
    <2>1. CASE \E wait \in Waits, w \in Writes : Write(wait, w)
      BY <2>1, WriteInOrder
    <2>2. CASE \E wait \in Waits : ReadStatus(wait)
      BY <2>2, ReadStatusInOrder
    <2>3. CASE \E wait \in Waits : End(wait)
      BY <2>3, EndInOrder
    <2>4. CASE \E t \in Tempos : Tempo(t)
      BY <2>4, TempoInOrder
    <2>5. CASE UNCHANGED vars
      BY <2>5 DEF vars, InOrder, SameSide, OnBeat, NextStepTime
    <2> QED
      BY <2>1, <2>2, <2>3, <2>4, <2>5 DEF Next
  <1> QED
    BY <1>1, <1>2, PTL DEF Spec

\* A channel is enabled as long as it plays, as $4015 tells the program: Nes_Apu::write_register()
\* silences what it turns off, and Nes_Dmc::fill_buffer() turns the DMC off after its last byte.
THEOREM EnabledMeansPlayingHolds == Spec => []EnabledMeansPlaying
  <1>1. InOrder => EnabledMeansPlaying
    <2> SUFFICES ASSUME InOrder PROVE EnabledMeansPlaying
      OBVIOUS
    <2>1. Shaped(cut) /\ Whole(cut) /\ \A i \in 0 .. 3 : i \notin cut.enables => cut.len[i] = 0
      BY DEF InOrder, Chip, DmcOk
    <2>2. cut.len[4] \in Nat
      BY <2>1 DEF Shaped, Oscs
    <2>3. 4 \notin cut.enables => cut.len[4] = 0
      BY <2>1, <2>2 DEF Whole
    <2>4. \A i \in Oscs \ cut.enables : cut.len[i] = 0
      BY <2>1, <2>3 DEF Oscs
    <2> QED
      BY <2>1, <2>4 DEF Whole, EnabledMeansPlaying
  <1> QED
    BY <1>1, ChipsStayInOrder, PTL

\* Nes_Dmc::count_reads() foretells, from the registers alone, the bytes Nes_Dmc::run() will read by
\* any later time, through ends of samples and loops.
THEOREM CountReadsIsExactHolds == Spec => []CountReadsIsExact
  <1>1. InOrder => CountReadsIsExact
    <2> SUFFICES ASSUME InOrder, NEW ahead \in Probes
                 PROVE  CountReads(cut, cut.last_dmc_time + ahead)
                          = RunDmcUntil(cut, cut.last_dmc_time + ahead).dmc.reads - cut.dmc.reads
      BY DEF CountReadsIsExact
    <2>1. Shaped(cut) /\ DmcOk(cut) /\ cut.last_dmc_time \in Int /\ ahead \in Nat
      BY WaitsAssumption DEF InOrder, Chip, DmcOk
    <2>2. PICK t \in Int : t = cut.last_dmc_time + ahead /\ cut.last_dmc_time <= t
      BY <2>1
    <2> QED
      BY <2>1, <2>2, CountReadsRight
  <1> QED
    BY <1>1, ChipsStayInOrder, PTL

\* The time that Nes_Dmc::recalc_irq() works out is the first clock at which Nes_Apu::run_until() has
\* raised the DMC's IRQ flag.
THEOREM DmcIrqIsOnTime == Spec => []DmcIrqOnTime
  <1>1. InOrder => DmcIrqOnTime
    BY IrqComes DEF InOrder, Chip, DmcIrqOnTime
  <1> QED
    BY <1>1, ChipsStayInOrder, PTL

\* However runs, writes and ends of frames cut its time, the frame sequencer's steps come at the
\* places the tables of its mode give from the last write to $4017: Nes_Apu::run_until_().
THEOREM SequencerKeepsItsTime == Spec => []SequencerKeepsTime
  <1>1. InOrder => SequencerKeepsTime
    <2> SUFFICES ASSUME InOrder, origin.steady
                 PROVE  LET s == View(cut, base, now)
                            places == Places(s, origin.mode)
                            next == s.last_time + s.frame_delay - origin.at
                        IN next % places.period = places.at[s.frame + 1]
      BY DEF SequencerKeepsTime
    <2>1. PICK s : s = View(cut, base, now)
      OBVIOUS
    <2>2. cut.last_time = now - base /\ Shaped(cut)
      BY DEF InOrder, Chip
    <2>3. RunUntil(cut, now - base) = cut
      BY <2>2 DEF RunUntil
    <2>4. /\ s.last_time = cut.last_time + base /\ s.frame_delay = cut.frame_delay
          /\ s.frame_period = cut.frame_period /\ s.frame = cut.frame /\ s.pal = cut.pal
      BY <2>1, <2>2, <2>3 DEF View, Shaped, Fields
    <2>5. Places(s, origin.mode) = Places(cut, cut.mode)
      BY <2>4 DEF Places, InOrder
    <2>6. s.last_time + s.frame_delay - origin.at = NextStepTime(cut) - (origin.at - base)
      BY <2>4 DEF NextStepTime, InOrder, Chip, Timed
    <2>7. OnBeat(cut, origin.at - base)
      BY DEF InOrder
    <2> QED
      BY <2>1, <2>4, <2>5, <2>6, <2>7 DEF OnBeat
  <1> QED
    BY <1>1, ChipsStayInOrder, PTL
===============================================================================
