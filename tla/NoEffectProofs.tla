---------------------------- MODULE NoEffectProofs ----------------------------
(***************************************************************************)
(* Nes_Apu.h:42: "time frames have no effect on emulation", for every      *)
(* sample, tempo, list of register writes and order of calls.              *)
(*                                                                         *)
(* Two chips are the same b clocks apart (Same) when one has the state of  *)
(* the other with its clocks and IRQ times counted from b clocks later.    *)
(* A run does the same to both, and a run that stops on its way does what  *)
(* one that does not stop does (RunUntilSplits): the timers, the phases,   *)
(* the sequencer's steps and the DMC's bytes all add up.  So a chip told   *)
(* of the ends of frames, which cut its runs and set its clock back, stays *)
(* the same as a chip that is told of none.                                *)
(***************************************************************************)
EXTENDS ApuFramesProofs

-----------------------------------------------------------------------------
(* Timers: two runs and one that takes as long. *)

\* What is left of a timer's delay after some clocks.
Left(d, n, p) == d + StepsTo(d, n, p) * p - n

\* A timer that has run waits for its next step.
LEMMA LeftIsNat ==
  ASSUME NEW d \in Int, NEW n \in Int, NEW p \in Nat \ {0}
  PROVE  StepsTo(d, n, p) \in Nat /\ Left(d, n, p) \in Nat
  <1>1. PICK b \in Nat : b = StepsTo(d, n, p) /\ n <= d + b * p
    BY StepsCount
  <1>2. PICK x \in Int : x = b * p
    OBVIOUS
  <1> QED
    BY <1>1, <1>2 DEF Left

\* Steps are counted from anywhere.
Elapsed(from, end) == end - from
StepsFrom(from, d, end, p) == StepsTo(from + d, end, p)
Counts(c, from, d, end, p) ==
  /\ c \in Nat /\ c = StepsTo(d, Elapsed(from, end), p)
  /\ from + d + c * p - end = Left(d, Elapsed(from, end), p)
  /\ Left(d, Elapsed(from, end), p) \in Nat

\* The steps between two times are those of the clocks between them.
LEMMA StepsFromAnywhere ==
  ASSUME NEW from \in Int, NEW end \in Int, NEW d \in Int, NEW p \in Nat \ {0}
  PROVE  Counts(StepsFrom(from, d, end, p), from, d, end, p)
  <1> PICK c : c = StepsFrom(from, d, end, p)
    OBVIOUS
  <1>0. PICK n \in Int : n = Elapsed(from, end) /\ n = end - from
    BY DEF Elapsed
  <1>1. c = StepsTo(d, n, p)
    <2>1. end - (from + d) = n - d /\ (from + d < end <=> d < n)
      BY <1>0
    <2> QED
      BY <2>1 DEF StepsTo, StepsFrom
  <1>2. c \in Nat
    BY <1>1, LeftIsNat
  <1>5. Left(d, n, p) \in Nat
    BY LeftIsNat
  <1>3. PICK x \in Int : x = c * p
    BY <1>2
  <1>4. from + d + x - end = d + x - n
    BY <1>0, <1>3
  <1> QED
    BY <1>0, <1>1, <1>2, <1>3, <1>4, <1>5 DEF Left, Counts

\* The steps of some clocks and of more clocks are those of all of them.
IsSum(z, n, m) == z = n + m
Adds(d, n, m, z, p) ==
  /\ StepsTo(d, z, p) = StepsTo(d, n, p) + StepsTo(Left(d, n, p), m, p)
  /\ Left(d, z, p) = Left(Left(d, n, p), m, p)

\* The steps of n clocks and of m more are those of n + m, and so is what is left.
LEMMA StepsAdd ==
  ASSUME NEW d \in Int, NEW n \in Int, NEW m \in Int, 0 <= n, 0 <= m, NEW p \in Nat \ {0},
         NEW z \in Int, IsSum(z, n, m)
  PROVE  Adds(d, n, m, z, p)
  <1>1. PICK a : a = StepsTo(d, n, p)
    OBVIOUS
  <1>2. a \in Nat /\ n <= d + a * p /\ \A k \in Nat : k < a <=> d + k * p < n
    BY <1>1, StepsCount
  <1>14. Left(d, n, p) \in Nat
    BY LeftIsNat
  <1>3. PICK e \in Int : e >= 0 /\ e = Left(d, n, p) /\ e = d + a * p - n
    BY <1>1, <1>14 DEF Left
  <1>10. PICK b \in Nat : b = StepsTo(e, m, p)
    BY LeftIsNat
  <1>11. b \in Nat /\ \A k \in Nat : k < b <=> e + k * p < m
    <2>1. \A k \in Nat : k < StepsTo(e, m, p) <=> e + k * p < m
      BY StepsCount
    <2> QED
      BY <1>10, <2>1
  <1>12. z = n + m
    BY DEF IsSum
  <1>13. PICK c : c = StepsTo(d, z, p)
    OBVIOUS
  <1>4. c \in Nat /\ \A k \in Nat : k < c <=> d + k * p < z
    BY <1>13, StepsCount
  <1>5. \A k \in Nat : e + k * p < m <=> d + (a + k) * p < z
    <2> TAKE k \in Nat
    <2>1. PICK x \in Int, y \in Int : x = a * p /\ y = k * p
      BY <1>2
    <2>2. (a + k) * p = x + y
      BY <1>2, <2>1
    <2> QED
      BY <1>2, <1>3, <1>12, <2>1, <2>2
  <1>6. CASE c < a
    <2>1. d + c * p < n
      BY <1>2, <1>4, <1>6
    <2>2. PICK x \in Int : x = c * p
      BY <1>4
    <2> QED
      BY <1>4, <1>12, <2>1, <2>2
  <1>7. CASE a <= c /\ c < a + b
    <2>1. PICK k \in Nat : k = c - a
      BY <1>2, <1>4, <1>7
    <2>2. k < b /\ a + k = c
      BY <1>2, <1>4, <1>7, <1>11, <2>1
    <2>3. d + c * p < z
      BY <1>5, <1>11, <2>2
    <2> QED
      BY <1>4, <2>3
  <1>8. CASE a + b < c
    <2>1. d + (a + b) * p < z
      BY <1>2, <1>4, <1>8, <1>11
    <2> QED
      BY <1>5, <1>11, <2>1
  <1>9. CASE c = a + b
    <2>1. PICK x \in Int, y \in Int : x = a * p /\ y = b * p
      BY <1>2, <1>11
    <2>2. c * p = x + y
      BY <1>2, <1>9, <1>11, <2>1
    <2> QED
      BY <1>1, <1>2, <1>3, <1>9, <1>10, <1>11, <1>12, <1>13, <2>1, <2>2 DEF Left, Adds
  <1> QED
    BY <1>2, <1>4, <1>6, <1>7, <1>8, <1>9, <1>11

-----------------------------------------------------------------------------
(* The oscillators. *)

\* A chip whose registers are bytes and whose timers and phases are numbers.
Formed(s) ==
  /\ Shaped(s) /\ s.regs \in [Oscs -> [0 .. 3 -> 0 .. 255]]
  /\ s.delay \in [Oscs -> Int] /\ s.phase \in [0 .. 2 -> Int]

\* u is s but for the timers and phases of the oscillators and the noise register.
Unmoved(s, u) ==
  /\ DOMAIN u = Fields /\ u.regs = s.regs /\ u.written = s.written /\ u.len = s.len /\ u.env = s.env
  /\ u.env_delay = s.env_delay /\ u.sweep_delay = s.sweep_delay /\ u.linear = s.linear
  /\ u.dmc = s.dmc /\ u.last_time = s.last_time /\ u.last_dmc_time = s.last_dmc_time
  /\ u.frame_delay = s.frame_delay /\ u.frame_period = s.frame_period /\ u.frame = s.frame
  /\ u.mode = s.mode /\ u.enables = s.enables /\ u.irq_flag = s.irq_flag
  /\ u.next_irq = s.next_irq /\ u.earliest = s.earliest /\ u.outputs = s.outputs /\ u.pal = s.pal

\* A register holds a byte.
LEMMA RegisterIsByte ==
  ASSUME NEW s, Formed(s), NEW i \in Oscs, NEW k \in 0 .. 3 PROVE s.regs[i][k] \in 0 .. 255
  <1>1. s.regs \in [Oscs -> [0 .. 3 -> 0 .. 255]]
    BY DEF Formed
  <1> HIDE DEF Oscs
  <1> QED
    BY <1>1

SquareTimer(s, i) == (Period(s, i) + 1) * 2
TriangleTimer(s) == Period(s, 2) + 1
NoiseTimer(s) == noise_period_table[(s.regs[3][2] % 16) + 1]
TriangleStops(s) == s.len[2] = 0 \/ s.linear = 0 \/ TriangleTimer(s) < 3

\* A period is a number.
LEMMA PeriodIsNat == ASSUME NEW s, Formed(s), NEW i \in 0 .. 2 PROVE Period(s, i) \in Nat
  <1>1. i \in Oscs /\ 2 \in 0 .. 3 /\ 3 \in 0 .. 3
    BY DEF Oscs
  <1>2. s.regs[i][2] \in 0 .. 255 /\ s.regs[i][3] \in 0 .. 255
    BY <1>1, RegisterIsByte
  <1>5. PICK low \in 0 .. 255 : low = s.regs[i][2]
    BY <1>2
  <1>6. PICK high \in 0 .. 255 : high = s.regs[i][3]
    BY <1>2
  <1>4. (high % 8) * 256 + low \in Nat
    OBVIOUS
  <1> QED
    BY <1>4, <1>5, <1>6 DEF Period

\* No timer has a period of nothing: its steps can be counted.
LEMMA TimersRun ==
  ASSUME NEW s, Formed(s)
  PROVE  /\ \A i \in 0 .. 1 : SquareTimer(s, i) \in Nat \ {0}
         /\ TriangleTimer(s) \in Nat \ {0} /\ NoiseTimer(s) \in Nat \ {0}
  <1>2. ASSUME NEW i \in 0 .. 1 PROVE SquareTimer(s, i) \in Nat \ {0}
    <2>1. PICK p \in Nat : p = Period(s, i)
      BY PeriodIsNat
    <2> QED
      BY <2>1 DEF SquareTimer
  <1>3. TriangleTimer(s) \in Nat \ {0}
    <2>1. PICK p \in Nat : p = Period(s, 2)
      BY PeriodIsNat
    <2> QED
      BY <2>1 DEF TriangleTimer
  <1>4. NoiseTimer(s) \in Nat \ {0}
    <2>1. 3 \in Oscs /\ 2 \in 0 .. 3
      BY DEF Oscs
    <2>2. PICK x \in 0 .. 255 : x = s.regs[3][2]
      BY <2>1, RegisterIsByte
    <2>3. PICK k \in 1 .. 16 : k = (x % 16) + 1
      OBVIOUS
    <2>4. noise_period_table[k] \in Nat \ {0}
      BY DEF noise_period_table
    <2> QED
      BY <2>2, <2>3, <2>4 DEF NoiseTimer
  <1> QED
    BY <1>2, <1>3, <1>4

\* Nes_Square::run() moves its own phase and its own delay.
LEMMA SquareRuns ==
  ASSUME NEW s, Formed(s), NEW i \in 0 .. 1, NEW from \in Int, NEW end \in Int,
         NEW u, u = RunSquare(s, i, from, end), NEW d \in Int, d = s.delay[i],
         NEW timer \in Nat \ {0}, timer = SquareTimer(s, i)
  PROVE  /\ Unmoved(s, u)
         /\ u.phase = [s.phase EXCEPT ![i] = (@ + StepsTo(d, Elapsed(from, end), timer)) % 8]
         /\ u.delay = [s.delay EXCEPT ![i] = Left(d, Elapsed(from, end), timer)]
  <1>1. timer \in Nat \ {0} /\ d \in Int
    BY TimersRun DEF Formed, Oscs
  <1>2. PICK count : count = StepsFrom(from, d, end, timer)
    OBVIOUS
  <1>6. Counts(count, from, d, end, timer)
    BY <1>1, <1>2, StepsFromAnywhere
  <1>5. /\ count \in Nat /\ count = StepsTo(d, Elapsed(from, end), timer)
        /\ from + d + count * timer - end = Left(d, Elapsed(from, end), timer)
    BY <1>6 DEF Counts
  <1> QED
    BY <1>2, <1>5 DEF StepsFrom, RunSquare, SquareTimer, Formed, Shaped, Fields, Unmoved

\* u is s after k clocks of a triangle whose delay was d and whose timer has this period.
TriangleRan(s, u, d, k, timer) ==
  /\ Unmoved(s, u)
  /\ \E p \in Int :
       /\ u.phase = [s.phase EXCEPT ![2] = p]
       /\ 2 \in s.outputs => p = IF TriangleStops(s) THEN s.phase[2]
                                 ELSE ((s.phase[2] - 1 - StepsTo(d, k, timer)) % 32) + 1
  /\ u.delay = [s.delay EXCEPT ![2] = IF TriangleStops(s) THEN 0 ELSE Left(d, k, timer)]

\* Nes_Triangle::run() moves its own phase and delay; a triangle that is not mixed
\* keeps no phase.
LEMMA TriangleRuns ==
  ASSUME NEW s, Formed(s), NEW from \in Int, NEW end \in Int,
         NEW u, u = RunTriangle(s, from, end), NEW d \in Int, d = s.delay[2],
         NEW timer \in Nat \ {0}, timer = TriangleTimer(s)
  PROVE  TriangleRan(s, u, d, Elapsed(from, end), timer)
  <1>1. timer \in Nat \ {0} /\ d \in Int /\ s.phase[2] \in Int
    BY TimersRun DEF Formed, Oscs
  <1>2. PICK count : count = StepsFrom(from, d, end, timer)
    OBVIOUS
  <1>6. Counts(count, from, d, end, timer)
    BY <1>1, <1>2, StepsFromAnywhere
  <1>5. /\ count \in Nat /\ count = StepsTo(d, Elapsed(from, end), timer)
        /\ from + d + count * timer - end = Left(d, Elapsed(from, end), timer)
    BY <1>6 DEF Counts
  <1>3. CASE TriangleStops(s)
    <2>1. u = [s EXCEPT !.delay[2] = 0]
      BY <1>3 DEF StepsFrom, RunTriangle, TriangleStops, TriangleTimer
    <2>2. Unmoved(s, u) /\ u.phase = s.phase /\ u.delay = [s.delay EXCEPT ![2] = 0]
      BY <2>1 DEF Formed, Shaped, Fields, Unmoved
    <2>3. s.phase = [s.phase EXCEPT ![2] = s.phase[2]]
      BY DEF Formed
    <2> QED
      BY <1>1, <1>3, <2>2, <2>3 DEF TriangleRan
  <1>4. CASE ~TriangleStops(s)
    <2>2. PICK p \in Int : p = ((s.phase[2] - 1 - (IF 2 \notin s.outputs /\ count > 0 THEN count - 2
                                                   ELSE count)) % 32) + 1
      BY <1>1, <1>5
    <2>3. u = [s EXCEPT !.phase[2] = p, !.delay[2] = Left(d, Elapsed(from, end), timer)]
      BY <1>2, <1>4, <1>5, <2>2 DEF StepsFrom, RunTriangle, TriangleStops, TriangleTimer
    <2>4. /\ Unmoved(s, u) /\ u.phase = [s.phase EXCEPT ![2] = p]
          /\ u.delay = [s.delay EXCEPT ![2] = Left(d, Elapsed(from, end), timer)]
      BY <2>3 DEF Formed, Shaped, Fields, Unmoved
    <2>5. 2 \in s.outputs => p = ((s.phase[2] - 1 - StepsTo(d, Elapsed(from, end), timer)) % 32) + 1
      BY <1>5, <2>2
    <2> QED
      BY <1>4, <2>4, <2>5 DEF TriangleRan
  <1> QED
    BY <1>3, <1>4

\* Nes_Noise::run() moves its own delay; of a noise that is not mixed nothing is
\* heard.
LEMMA NoiseRuns ==
  ASSUME NEW s, Formed(s), NEW from \in Int, NEW end \in Int,
         NEW u, u = RunNoise(s, from, end), NEW d \in Int, d = s.delay[3],
         NEW timer \in Nat \ {0}, timer = NoiseTimer(s)
  PROVE  /\ Unmoved(s, u) /\ u.phase = s.phase
         /\ \E e \in Int : /\ u.delay = [s.delay EXCEPT ![3] = e]
                           /\ 3 \in s.outputs => e = Left(d, Elapsed(from, end), timer)
  <1>1. timer \in Nat \ {0} /\ d \in Int
    BY TimersRun DEF Formed, Oscs
  <1>2. PICK count : count = StepsFrom(from, d, end, timer)
    OBVIOUS
  <1>6. Counts(count, from, d, end, timer)
    BY <1>1, <1>2, StepsFromAnywhere
  <1>5. /\ count \in Nat /\ count = StepsTo(d, Elapsed(from, end), timer)
        /\ from + d + count * timer - end = Left(d, Elapsed(from, end), timer)
    BY <1>6 DEF Counts
  <1>3. CASE 3 \in s.outputs
    <2>1. PICK shifts : u = [s EXCEPT !.delay[3] = Left(d, Elapsed(from, end), timer), !.shifts = shifts]
      BY <1>2, <1>3, <1>5 DEF StepsFrom, RunNoise, NoiseTimer
    <2>2. Left(d, Elapsed(from, end), timer) \in Int
      BY <1>6 DEF Counts
    <2> QED
      BY <2>1, <2>2 DEF Formed, Shaped, Fields, Unmoved
  <1>4. CASE 3 \notin s.outputs
    <2>1. PICK e : e = from + d + RoundUp(end - (from + d), timer) * timer - end
      OBVIOUS
    <2>2. e \in Int
      <3>1. PICK x \in Int : x = end - (from + d) + timer - 1
        BY <1>1
      <3>2. CDiv(x, timer) \in Int
        <4>1. x \div timer \in Int /\ (-x) \div timer \in Int
          BY <1>1, Division
        <4> QED
          BY <4>1 DEF CDiv
      <3>3. PICK r \in Int : r = RoundUp(end - (from + d), timer)
        BY <3>1, <3>2 DEF RoundUp
      <3> QED
        BY <1>1, <2>1, <3>3
    <2>3. u = [s EXCEPT !.delay[3] = e]
      BY <1>4, <2>1 DEF StepsFrom, RunNoise, NoiseTimer
    <2> QED
      BY <1>4, <2>2, <2>3 DEF Formed, Shaped, Fields, Unmoved
  <1> QED
    BY <1>3, <1>4

SquareTicked(s, u, i, n) ==
  /\ u.phase[i] = (s.phase[i] + StepsTo(s.delay[i], n, SquareTimer(s, i))) % 8
  /\ u.delay[i] = Left(s.delay[i], n, SquareTimer(s, i))
TriangleTicked(s, u, n) ==
  /\ u.delay[2] = IF TriangleStops(s) THEN 0 ELSE Left(s.delay[2], n, TriangleTimer(s))
  /\ 2 \in s.outputs =>
       u.phase[2] = IF TriangleStops(s) THEN s.phase[2]
                    ELSE ((s.phase[2] - 1 - StepsTo(s.delay[2], n, TriangleTimer(s))) % 32) + 1
NoiseTicked(s, u, n) == 3 \in s.outputs => u.delay[3] = Left(s.delay[3], n, NoiseTimer(s))
\* u is s with its oscillators n clocks later.
Ticked(s, u, n) ==
  /\ Formed(u) /\ Unmoved(s, u) /\ SquareTicked(s, u, 0, n) /\ SquareTicked(s, u, 1, n)
  /\ TriangleTicked(s, u, n) /\ NoiseTicked(s, u, n)

\* The DMC's delay and the shape of the chip are no matter of the oscillators.
LEMMA StillFormed ==
  ASSUME NEW s, Formed(s), NEW u, Unmoved(s, u), u.delay \in [Oscs -> Int], u.delay[4] = s.delay[4],
         u.phase \in [0 .. 2 -> Int]
  PROVE  Formed(u)
  BY DEF Formed, Shaped, Unmoved, Oscs

\* The steps of a run and what is left of the delay are numbers, wherever the run
\* starts.
LEMMA LeftIsInt ==
  ASSUME NEW from \in Int, NEW end \in Int, NEW d \in Int, NEW p \in Nat \ {0}, NEW n, n = Elapsed(from, end)
  PROVE  StepsTo(d, n, p) \in Int /\ Left(d, n, p) \in Int
  <1>1. PICK m \in Int : m = Elapsed(from, end)
    BY DEF Elapsed
  <1>2. StepsTo(d, m, p) \in Nat /\ Left(d, m, p) \in Nat
    BY LeftIsNat
  <1> QED
    BY <1>1, <1>2

\* One square, run for n clocks.
LEMMA SquareTicks ==
  ASSUME NEW s, Formed(s), NEW i \in 0 .. 1, NEW from \in Int, NEW end \in Int,
         NEW u, u = RunSquare(s, i, from, end), NEW n, n = Elapsed(from, end)
  PROVE  /\ Formed(u) /\ Unmoved(s, u) /\ SquareTicked(s, u, i, n)
         /\ \A j \in 0 .. 2 : j # i => u.phase[j] = s.phase[j]
         /\ \A j \in 0 .. 3 : j # i => u.delay[j] = s.delay[j]
  <1>1. PICK d \in Int : d = s.delay[i]
    BY DEF Formed, Oscs
  <1>2. PICK timer \in Nat \ {0} : timer = SquareTimer(s, i)
    BY TimersRun
  <1>3. /\ Unmoved(s, u)
        /\ u.phase = [s.phase EXCEPT ![i] = (@ + StepsTo(d, n, timer)) % 8]
        /\ u.delay = [s.delay EXCEPT ![i] = Left(d, n, timer)]
    BY <1>1, <1>2, SquareRuns
  <1>4. StepsTo(d, n, timer) \in Int /\ Left(d, n, timer) \in Int
    BY LeftIsInt
  <1>5. /\ u.delay \in [Oscs -> Int] /\ u.delay[4] = s.delay[4] /\ u.delay[i] = Left(d, n, timer)
        /\ \A j \in 0 .. 3 : j # i => u.delay[j] = s.delay[j]
    BY <1>3, <1>4 DEF Formed, Oscs
  <1>6. PICK p \in Int : p = (s.phase[i] + StepsTo(d, n, timer)) % 8
    BY <1>4 DEF Formed
  <1>7. u.phase = [s.phase EXCEPT ![i] = p]
    BY <1>3, <1>6
  <1>8. /\ u.phase \in [0 .. 2 -> Int] /\ u.phase[i] = p
        /\ \A j \in 0 .. 2 : j # i => u.phase[j] = s.phase[j]
    BY <1>7 DEF Formed
  <1>9. Formed(u)
    BY <1>3, <1>5, <1>8, StillFormed
  <1> QED
    BY <1>1, <1>2, <1>3, <1>5, <1>6, <1>8, <1>9 DEF SquareTicked

\* The triangle, run for n clocks.
LEMMA TriangleTicks ==
  ASSUME NEW s, Formed(s), NEW from \in Int, NEW end \in Int,
         NEW u, u = RunTriangle(s, from, end), NEW n, n = Elapsed(from, end)
  PROVE  /\ Formed(u) /\ Unmoved(s, u) /\ TriangleTicked(s, u, n)
         /\ \A j \in 0 .. 1 : u.phase[j] = s.phase[j]
         /\ \A j \in 0 .. 3 : j # 2 => u.delay[j] = s.delay[j]
  <1>1. PICK d \in Int : d = s.delay[2]
    BY DEF Formed, Oscs
  <1>2. PICK timer \in Nat \ {0} : timer = TriangleTimer(s)
    BY TimersRun
  <1>10. TriangleRan(s, u, d, n, timer)
    BY <1>1, <1>2, TriangleRuns
  <1>3. PICK p \in Int :
          /\ Unmoved(s, u) /\ u.phase = [s.phase EXCEPT ![2] = p]
          /\ 2 \in s.outputs => p = IF TriangleStops(s) THEN s.phase[2]
                                    ELSE ((s.phase[2] - 1 - StepsTo(d, n, timer)) % 32) + 1
          /\ u.delay = [s.delay EXCEPT ![2] = IF TriangleStops(s) THEN 0 ELSE Left(d, n, timer)]
    BY <1>10 DEF TriangleRan
  <1>11. Left(d, n, timer) \in Int
    BY LeftIsInt
  <1>4. PICK e \in Int : e = IF TriangleStops(s) THEN 0 ELSE Left(d, n, timer)
    BY <1>11
  <1>5. u.delay = [s.delay EXCEPT ![2] = e]
    BY <1>3, <1>4
  <1>6. /\ u.delay \in [Oscs -> Int] /\ u.delay[4] = s.delay[4] /\ u.delay[2] = e
        /\ \A j \in 0 .. 3 : j # 2 => u.delay[j] = s.delay[j]
    BY <1>5 DEF Formed, Oscs
  <1>8. /\ u.phase \in [0 .. 2 -> Int] /\ u.phase[2] = p /\ \A j \in 0 .. 1 : u.phase[j] = s.phase[j]
    BY <1>3 DEF Formed
  <1>9. Formed(u)
    BY <1>3, <1>6, <1>8, StillFormed
  <1> QED
    BY <1>1, <1>2, <1>3, <1>4, <1>6, <1>8, <1>9 DEF TriangleTicked

\* The noise, run for n clocks.
LEMMA NoiseTicks ==
  ASSUME NEW s, Formed(s), NEW from \in Int, NEW end \in Int,
         NEW u, u = RunNoise(s, from, end), NEW n, n = Elapsed(from, end)
  PROVE  /\ Formed(u) /\ Unmoved(s, u) /\ NoiseTicked(s, u, n)
         /\ \A j \in 0 .. 2 : u.phase[j] = s.phase[j] /\ u.delay[j] = s.delay[j]
  <1>1. PICK d \in Int : d = s.delay[3]
    BY DEF Formed, Oscs
  <1>2. PICK timer \in Nat \ {0} : timer = NoiseTimer(s)
    BY TimersRun
  <1>3. PICK e \in Int : /\ Unmoved(s, u) /\ u.phase = s.phase /\ u.delay = [s.delay EXCEPT ![3] = e]
                         /\ 3 \in s.outputs => e = Left(d, n, timer)
    BY <1>1, <1>2, NoiseRuns
  <1>6. /\ u.delay \in [Oscs -> Int] /\ u.delay[4] = s.delay[4] /\ u.delay[3] = e
        /\ \A j \in 0 .. 2 : u.delay[j] = s.delay[j]
    BY <1>3 DEF Formed, Oscs
  <1>9. Formed(u)
    BY <1>3, <1>6, StillFormed DEF Formed
  <1> QED
    BY <1>1, <1>2, <1>3, <1>6, <1>9 DEF NoiseTicked

\* What two runs leave alone, both leave alone.
LEMMA UnmovedChains ==
  ASSUME NEW s, NEW t, NEW u, Unmoved(s, t), Unmoved(t, u)
  PROVE  Unmoved(s, u)
  BY DEF Unmoved

\* The oscillators' periods do not depend on where the oscillators are.
LEMMA TimersUnmoved ==
  ASSUME NEW s, NEW u, Unmoved(s, u)
  PROVE  /\ \A i \in 0 .. 1 : SquareTimer(u, i) = SquareTimer(s, i)
         /\ TriangleTimer(u) = TriangleTimer(s) /\ NoiseTimer(u) = NoiseTimer(s)
         /\ (TriangleStops(u) <=> TriangleStops(s)) /\ u.outputs = s.outputs
  BY DEF Unmoved, SquareTimer, TriangleTimer, NoiseTimer, TriangleStops, Period

\* Running the oscillators from a time to another ticks each of them.
LEMMA OscillatorsTick ==
  ASSUME NEW s, Formed(s), NEW from \in Int, NEW end \in Int,
         NEW u, u = RunOscillators(s, from, end), NEW n, n = Elapsed(from, end)
  PROVE  Ticked(s, u, n)
  <1>1. PICK r : r = RunSquare(s, 0, from, end)
    OBVIOUS
  <1>2. PICK t : t = RunSquare(r, 1, from, end)
    OBVIOUS
  <1>3. PICK v : v = RunTriangle(t, from, end)
    OBVIOUS
  <1>4. u = RunNoise(v, from, end)
    BY <1>1, <1>2, <1>3 DEF RunOscillators
  <1>5. /\ Formed(r) /\ Unmoved(s, r) /\ SquareTicked(s, r, 0, n)
        /\ \A j \in 0 .. 2 : j # 0 => r.phase[j] = s.phase[j]
        /\ \A j \in 0 .. 3 : j # 0 => r.delay[j] = s.delay[j]
    BY <1>1, SquareTicks
  <1>6. /\ Formed(t) /\ Unmoved(r, t) /\ SquareTicked(r, t, 1, n)
        /\ \A j \in 0 .. 2 : j # 1 => t.phase[j] = r.phase[j]
        /\ \A j \in 0 .. 3 : j # 1 => t.delay[j] = r.delay[j]
    BY <1>2, <1>5, SquareTicks
  <1>7. /\ Formed(v) /\ Unmoved(t, v) /\ TriangleTicked(t, v, n)
        /\ \A j \in 0 .. 1 : v.phase[j] = t.phase[j]
        /\ \A j \in 0 .. 3 : j # 2 => v.delay[j] = t.delay[j]
    BY <1>3, <1>6, TriangleTicks
  <1>8. /\ Formed(u) /\ Unmoved(v, u) /\ NoiseTicked(v, u, n)
        /\ \A j \in 0 .. 2 : u.phase[j] = v.phase[j] /\ u.delay[j] = v.delay[j]
    BY <1>4, <1>7, NoiseTicks
  <1>9. Unmoved(s, t) /\ Unmoved(s, v) /\ Unmoved(s, u)
    BY <1>5, <1>6, <1>7, <1>8, UnmovedChains
  <1>10. SquareTicked(s, u, 0, n)
    <2>1. u.phase[0] = r.phase[0] /\ u.delay[0] = r.delay[0]
      BY <1>6, <1>7, <1>8
    <2> QED
      BY <1>5, <2>1 DEF SquareTicked
  <1>11. SquareTicked(s, u, 1, n)
    <2>1. u.phase[1] = t.phase[1] /\ u.delay[1] = t.delay[1]
      BY <1>7, <1>8
    <2>2. r.phase[1] = s.phase[1] /\ r.delay[1] = s.delay[1] /\ SquareTimer(r, 1) = SquareTimer(s, 1)
      BY <1>5, TimersUnmoved
    <2> QED
      BY <1>6, <2>1, <2>2 DEF SquareTicked
  <1>12. TriangleTicked(s, u, n)
    <2>1. u.phase[2] = v.phase[2] /\ u.delay[2] = v.delay[2]
      BY <1>8
    <2>2. t.phase[2] = s.phase[2] /\ t.delay[2] = s.delay[2]
      BY <1>5, <1>6
    <2>3. TriangleTimer(t) = TriangleTimer(s) /\ (TriangleStops(t) <=> TriangleStops(s)) /\ t.outputs = s.outputs
      BY <1>9, TimersUnmoved
    <2> QED
      BY <1>7, <2>1, <2>2, <2>3 DEF TriangleTicked
  <1>13. NoiseTicked(s, u, n)
    <2>1. v.delay[3] = s.delay[3]
      BY <1>5, <1>6, <1>7
    <2>2. NoiseTimer(v) = NoiseTimer(s) /\ v.outputs = s.outputs
      BY <1>9, TimersUnmoved
    <2> QED
      BY <1>8, <2>1, <2>2 DEF NoiseTicked
  <1> QED
    BY <1>8, <1>9, <1>10, <1>11, <1>12, <1>13 DEF Ticked

\* The timers and phases that are heard are the same.
SameTimers(c, w) ==
  /\ c.phase[0] = w.phase[0] /\ c.phase[1] = w.phase[1]
  /\ c.delay[0] = w.delay[0] /\ c.delay[1] = w.delay[1] /\ c.delay[2] = w.delay[2]
  /\ 2 \in w.outputs => c.phase[2] = w.phase[2]
  /\ 3 \in w.outputs => c.delay[3] = w.delay[3]

\* What the timers depend on is the same.
SameVoices(c, w) ==
  /\ c.regs = w.regs /\ c.len[2] = w.len[2] /\ c.linear = w.linear /\ c.outputs = w.outputs

\* Chips with the same registers have the same periods.
LEMMA SameTimersOf ==
  ASSUME NEW c, NEW w, SameVoices(c, w)
  PROVE  /\ SquareTimer(c, 0) = SquareTimer(w, 0) /\ SquareTimer(c, 1) = SquareTimer(w, 1)
         /\ TriangleTimer(c) = TriangleTimer(w) /\ NoiseTimer(c) = NoiseTimer(w)
         /\ (TriangleStops(c) <=> TriangleStops(w)) /\ c.outputs = w.outputs
  BY DEF SameVoices, SquareTimer, TriangleTimer, NoiseTimer, TriangleStops, Period

\* The same clocks move two like chips alike.
LEMMA TicksAlike ==
  ASSUME NEW c, NEW w, SameVoices(c, w), SameTimers(c, w), NEW n,
         NEW d, Ticked(c, d, n), NEW v, Ticked(w, v, n)
  PROVE  SameTimers(d, v)
  <1>1. /\ SquareTimer(c, 0) = SquareTimer(w, 0) /\ SquareTimer(c, 1) = SquareTimer(w, 1)
        /\ TriangleTimer(c) = TriangleTimer(w) /\ NoiseTimer(c) = NoiseTimer(w)
        /\ (TriangleStops(c) <=> TriangleStops(w)) /\ c.outputs = w.outputs
    BY SameTimersOf
  <1>2. v.outputs = w.outputs
    BY DEF Ticked, Unmoved
  <1>3. d.phase[0] = v.phase[0] /\ d.delay[0] = v.delay[0] /\ d.phase[1] = v.phase[1] /\ d.delay[1] = v.delay[1]
    BY <1>1 DEF Ticked, SquareTicked, SameTimers
  <1>4. d.delay[2] = v.delay[2] /\ (2 \in w.outputs => d.phase[2] = v.phase[2])
    BY <1>1 DEF Ticked, TriangleTicked, SameTimers
  <1>5. 3 \in w.outputs => d.delay[3] = v.delay[3]
    BY <1>1 DEF Ticked, NoiseTicked, SameTimers
  <1> QED
    BY <1>2, <1>3, <1>4, <1>5 DEF SameTimers

\* Some clocks and more clocks move a chip as all of them do.
LEMMA TicksAdd ==
  ASSUME NEW s, Formed(s), NEW n \in Int, NEW m \in Int, 0 <= n, 0 <= m, NEW z \in Int, IsSum(z, n, m),
         NEW t, Ticked(s, t, n), NEW u, Ticked(t, u, m), NEW v, Ticked(s, v, z)
  PROVE  SameTimers(u, v)
  <1>1. /\ \A i \in 0 .. 1 : SquareTimer(t, i) = SquareTimer(s, i)
        /\ TriangleTimer(t) = TriangleTimer(s) /\ NoiseTimer(t) = NoiseTimer(s)
        /\ (TriangleStops(t) <=> TriangleStops(s)) /\ t.outputs = s.outputs
    BY TimersUnmoved DEF Ticked
  <1>2. v.outputs = s.outputs
    BY DEF Ticked, Unmoved
  <1>3. ASSUME NEW i \in 0 .. 1, SquareTicked(s, t, i, n), SquareTicked(t, u, i, m), SquareTicked(s, v, i, z)
        PROVE  u.phase[i] = v.phase[i] /\ u.delay[i] = v.delay[i]
    <2>1. PICK timer \in Nat \ {0} : timer = SquareTimer(s, i)
      BY TimersRun
    <2>2. PICK d \in Int : d = s.delay[i]
      BY DEF Formed, Oscs
    <2>3. PICK e \in Int : e = Left(d, n, timer)
      <3>1. Left(d, n, timer) \in Nat
        BY LeftIsNat
      <3> QED
        BY <3>1
    <2>4. Adds(d, n, m, z, timer)
      BY StepsAdd
    <2>5. PICK a \in Int : a = StepsTo(d, n, timer)
      <3>1. StepsTo(d, n, timer) \in Nat
        BY LeftIsNat
      <3> QED
        BY <3>1
    <2>6. PICK b \in Int : b = StepsTo(e, m, timer)
      <3>1. StepsTo(e, m, timer) \in Nat
        BY LeftIsNat
      <3> QED
        BY <3>1
    <2>7. PICK x \in Int : x = s.phase[i]
      BY DEF Formed
    <2>8. /\ t.phase[i] = (x + a) % 8 /\ t.delay[i] = e /\ SquareTimer(t, i) = timer
      BY <1>1, <1>3, <2>1, <2>2, <2>3, <2>5, <2>7 DEF SquareTicked
    <2>9. u.phase[i] = (((x + a) % 8) + b) % 8 /\ u.delay[i] = Left(e, m, timer)
      BY <1>3, <2>6, <2>8 DEF SquareTicked
    <2>10. v.phase[i] = (x + (a + b)) % 8 /\ v.delay[i] = Left(e, m, timer)
      BY <1>3, <2>1, <2>2, <2>3, <2>4, <2>5, <2>6, <2>7 DEF SquareTicked, Adds
    <2>11. (((x + a) % 8) + b) % 8 = (x + (a + b)) % 8
      OBVIOUS
    <2> QED
      BY <2>9, <2>10, <2>11
  <1>4. u.delay[2] = v.delay[2] /\ (2 \in s.outputs => u.phase[2] = v.phase[2])
    <2>0. TriangleTicked(s, t, n) /\ TriangleTicked(t, u, m) /\ TriangleTicked(s, v, z)
      BY DEF Ticked
    <2>1. PICK timer \in Nat \ {0} : timer = TriangleTimer(s)
      BY TimersRun
    <2>2. PICK d \in Int : d = s.delay[2]
      BY DEF Formed, Oscs
    <2>7. PICK x \in Int : x = s.phase[2]
      BY DEF Formed
    <2>12. CASE TriangleStops(s)
      BY <1>1, <2>0, <2>12 DEF TriangleTicked
    <2>13. CASE ~TriangleStops(s)
      <3>3. PICK e \in Int : e = Left(d, n, timer)
        <4>1. Left(d, n, timer) \in Nat
          BY LeftIsNat
        <4> QED
          BY <4>1
      <3>4. Adds(d, n, m, z, timer)
        BY StepsAdd
      <3>5. PICK a \in Int : a = StepsTo(d, n, timer)
        <4>1. StepsTo(d, n, timer) \in Nat
          BY LeftIsNat
        <4> QED
          BY <4>1
      <3>6. PICK b \in Int : b = StepsTo(e, m, timer)
        <4>1. StepsTo(e, m, timer) \in Nat
          BY LeftIsNat
        <4> QED
          BY <4>1
      <3>8. /\ t.delay[2] = e /\ TriangleTimer(t) = timer
            /\ 2 \in s.outputs => t.phase[2] = ((x - 1 - a) % 32) + 1
        BY <1>1, <2>0, <2>1, <2>2, <2>7, <2>13, <3>3, <3>5 DEF TriangleTicked
      <3>9. /\ u.delay[2] = Left(e, m, timer)
            /\ 2 \in s.outputs => u.phase[2] = (((((x - 1 - a) % 32) + 1) - 1 - b) % 32) + 1
        BY <1>1, <2>0, <2>13, <3>6, <3>8 DEF TriangleTicked
      <3>10. /\ v.delay[2] = Left(e, m, timer)
             /\ 2 \in s.outputs => v.phase[2] = ((x - 1 - (a + b)) % 32) + 1
        BY <2>0, <2>1, <2>2, <2>7, <2>13, <3>3, <3>4, <3>5, <3>6 DEF TriangleTicked, Adds
      <3>11. ((((x - 1 - a) % 32) + 1) - 1 - b) % 32 = (x - 1 - (a + b)) % 32
        OBVIOUS
      <3> QED
        BY <3>9, <3>10, <3>11
    <2> QED
      BY <2>12, <2>13
  <1>5. 3 \in s.outputs => u.delay[3] = v.delay[3]
    <2>1. PICK timer \in Nat \ {0} : timer = NoiseTimer(s)
      BY TimersRun
    <2>2. PICK d \in Int : d = s.delay[3]
      BY DEF Formed, Oscs
    <2>3. Adds(d, n, m, z, timer)
      BY StepsAdd
    <2> QED
      BY <1>1, <2>1, <2>2, <2>3 DEF Ticked, NoiseTicked, Adds
  <1>6. SquareTicked(s, t, 0, n) /\ SquareTicked(t, u, 0, m) /\ SquareTicked(s, v, 0, z)
    BY DEF Ticked
  <1>7. SquareTicked(s, t, 1, n) /\ SquareTicked(t, u, 1, m) /\ SquareTicked(s, v, 1, z)
    BY DEF Ticked
  <1> QED
    BY <1>2, <1>3, <1>4, <1>5, <1>6, <1>7 DEF SameTimers

-----------------------------------------------------------------------------
(* What the frame sequencer clocks. *)

\* What the sequencer clocks is the same.
SameUnits(c, w) ==
  /\ c.regs = w.regs /\ c.written = w.written /\ c.env = w.env /\ c.env_delay = w.env_delay
  /\ c.sweep_delay = w.sweep_delay /\ c.linear = w.linear /\ c.outputs = w.outputs /\ c.pal = w.pal
  /\ \A i \in 0 .. 3 : c.len[i] = w.len[i]

\* u is s but for what the sequencer clocks.
OnlyUnits(s, u) ==
  /\ DOMAIN u = Fields /\ u.delay = s.delay /\ u.phase = s.phase /\ u.dmc = s.dmc
  /\ u.last_time = s.last_time /\ u.last_dmc_time = s.last_dmc_time
  /\ u.frame_delay = s.frame_delay /\ u.frame_period = s.frame_period /\ u.frame = s.frame
  /\ u.mode = s.mode /\ u.enables = s.enables /\ u.irq_flag = s.irq_flag
  /\ u.next_irq = s.next_irq /\ u.earliest = s.earliest /\ u.outputs = s.outputs /\ u.pal = s.pal
  /\ u.regs[4] = s.regs[4] /\ u.len[4] = s.len[4]

Units(c, w) == Formed(c) /\ Formed(w) /\ SameUnits(c, w) /\ SameTimers(c, w)

\* One of the sequencer's clocks does the same to two like chips.
Clocked2(c, w, d, v) == OnlyUnits(c, d) /\ OnlyUnits(w, v) /\ Units(d, v)

\* Two clocks of the sequencer, one after the other.
LEMMA Clocked2Chains ==
  ASSUME NEW c, NEW w, NEW d, NEW v, NEW e, NEW x, Clocked2(c, w, d, v), Clocked2(d, v, e, x)
  PROVE  Clocked2(c, w, e, x)
  BY DEF Clocked2, OnlyUnits

\* A clock of the sequencer leaves bytes in the registers.
LEMMA OnlyUnitsFormed ==
  ASSUME NEW s, Formed(s), NEW u, OnlyUnits(s, u), Shaped(u), u.regs \in [Oscs -> [0 .. 3 -> 0 .. 255]]
  PROVE  Formed(u)
  BY DEF OnlyUnits, Formed

\* Like chips that are clocked alike stay like each other.
LEMMA UnitsStay ==
  ASSUME NEW c, NEW w, Units(c, w), NEW d, NEW v, OnlyUnits(c, d), OnlyUnits(w, v),
         Formed(d), Formed(v), SameUnits(d, v)
  PROVE  Clocked2(c, w, d, v)
  BY DEF Clocked2, Units, OnlyUnits, SameTimers

\* A clock of the sequencer leaves a chip of the same shape.
LEMMA ClocklessIsShaped ==
  ASSUME NEW s, NEW u, Clockless(s, u) PROVE Shaped(u)
  BY DEF Clockless, Leaves

\* Nes_Osc::clock_length().
LEMMA ClockLengthAlike ==
  ASSUME NEW c, NEW w, Units(c, w), NEW i \in 0 .. 3
  PROVE  Clocked2(c, w, ClockLength(c, i), ClockLength(w, i))
  <1> DEFINE d == ClockLength(c, i)
             v == ClockLength(w, i)
  <1>1. ASSUME NEW s, Formed(s), NEW u, u = ClockLength(s, i)
        PROVE  /\ OnlyUnits(s, u) /\ u.regs = s.regs /\ u.written = s.written /\ u.env = s.env
               /\ u.env_delay = s.env_delay /\ u.sweep_delay = s.sweep_delay /\ u.linear = s.linear
               /\ u.len = IF s.len[i] > 0 /\ BitOf(s.regs[i][0], IF i = 2 THEN 7 ELSE 5) = 0
                          THEN [s.len EXCEPT ![i] = @ - 1] ELSE s.len
               /\ Formed(u)
    <2>1. /\ OnlyUnits(s, u) /\ u.regs = s.regs /\ u.written = s.written /\ u.env = s.env
          /\ u.env_delay = s.env_delay /\ u.sweep_delay = s.sweep_delay /\ u.linear = s.linear
          /\ u.len = IF s.len[i] > 0 /\ BitOf(s.regs[i][0], IF i = 2 THEN 7 ELSE 5) = 0
                     THEN [s.len EXCEPT ![i] = @ - 1] ELSE s.len
      BY <1>1 DEF ClockLength, OnlyUnits, Formed, Shaped, Fields, Oscs
    <2>2. Shaped(u)
      BY <1>1, ClockLengthKeeps, ClocklessIsShaped DEF Formed
    <2>3. Formed(u)
      BY <1>1, <2>1, <2>2, OnlyUnitsFormed DEF Formed
    <2> QED
      BY <2>1, <2>3
  <1>2. Formed(c) /\ Formed(w) /\ SameUnits(c, w)
    BY DEF Units
  <1>3. /\ OnlyUnits(c, d) /\ d.regs = c.regs /\ d.written = c.written /\ d.env = c.env
        /\ d.env_delay = c.env_delay /\ d.sweep_delay = c.sweep_delay /\ d.linear = c.linear
        /\ d.len = IF c.len[i] > 0 /\ BitOf(c.regs[i][0], IF i = 2 THEN 7 ELSE 5) = 0
                   THEN [c.len EXCEPT ![i] = @ - 1] ELSE c.len
        /\ Formed(d)
    BY <1>1, <1>2
  <1>4. /\ OnlyUnits(w, v) /\ v.regs = w.regs /\ v.written = w.written /\ v.env = w.env
        /\ v.env_delay = w.env_delay /\ v.sweep_delay = w.sweep_delay /\ v.linear = w.linear
        /\ v.len = IF w.len[i] > 0 /\ BitOf(w.regs[i][0], IF i = 2 THEN 7 ELSE 5) = 0
                   THEN [w.len EXCEPT ![i] = @ - 1] ELSE w.len
        /\ Formed(v)
    BY <1>1, <1>2
  <1> HIDE DEF d, v
  <1>5. \A j \in 0 .. 3 : d.len[j] = v.len[j]
    <2>1. DOMAIN c.len = Oscs /\ DOMAIN w.len = Oscs /\ c.regs = w.regs /\ \A j \in 0 .. 3 : c.len[j] = w.len[j]
      BY <1>2 DEF Formed, Shaped, SameUnits
    <2> QED
      BY <1>3, <1>4, <2>1 DEF Oscs
  <1>6. SameUnits(d, v)
    BY <1>2, <1>3, <1>4, <1>5 DEF SameUnits, OnlyUnits
  <1>7. Clocked2(c, w, d, v)
    BY <1>3, <1>4, <1>6, UnitsStay
  <1> QED
    BY <1>7 DEF d, v

\* Nes_Envelope::clock_envelope().
LEMMA ClockEnvelopeAlike ==
  ASSUME NEW c, NEW w, Units(c, w), NEW i \in Enveloped
  PROVE  Clocked2(c, w, ClockEnvelope(c, i), ClockEnvelope(w, i))
  <1> DEFINE d == ClockEnvelope(c, i)
             v == ClockEnvelope(w, i)
  <1>1. ASSUME NEW s, Formed(s), NEW u, u = ClockEnvelope(s, i)
        PROVE  /\ OnlyUnits(s, u) /\ u.regs = s.regs /\ u.len = s.len
               /\ u.sweep_delay = s.sweep_delay /\ u.linear = s.linear /\ Formed(u)
    <2>1. /\ OnlyUnits(s, u) /\ u.regs = s.regs /\ u.len = s.len
          /\ u.sweep_delay = s.sweep_delay /\ u.linear = s.linear
      BY <1>1 DEF ClockEnvelope, OnlyUnits, Formed, Shaped, Fields
    <2>2. Shaped(u)
      BY <1>1, ClockEnvelopeKeeps, ClocklessIsShaped DEF Formed
    <2>3. Formed(u)
      BY <1>1, <2>1, <2>2, OnlyUnitsFormed DEF Formed
    <2> QED
      BY <2>1, <2>3
  <1>2. Formed(c) /\ Formed(w) /\ SameUnits(c, w)
    BY DEF Units
  <1>3. /\ OnlyUnits(c, d) /\ d.regs = c.regs /\ d.len = c.len
        /\ d.sweep_delay = c.sweep_delay /\ d.linear = c.linear /\ Formed(d)
    BY <1>1, <1>2
  <1>4. /\ OnlyUnits(w, v) /\ v.regs = w.regs /\ v.len = w.len
        /\ v.sweep_delay = w.sweep_delay /\ v.linear = w.linear /\ Formed(v)
    BY <1>1, <1>2
  <1>5. d.written = v.written /\ d.env_delay = v.env_delay /\ d.env = v.env
    BY <1>2 DEF ClockEnvelope, Formed, Shaped, Fields, SameUnits
  <1> HIDE DEF d, v
  <1>6. SameUnits(d, v)
    BY <1>2, <1>3, <1>4, <1>5 DEF SameUnits, OnlyUnits
  <1>7. Clocked2(c, w, d, v)
    BY <1>3, <1>4, <1>6, UnitsStay
  <1> QED
    BY <1>7 DEF d, v

\* Nes_Triangle::clock_linear_counter().
LEMMA ClockLinearAlike ==
  ASSUME NEW c, NEW w, Units(c, w)
  PROVE  Clocked2(c, w, ClockLinear(c), ClockLinear(w))
  <1> DEFINE d == ClockLinear(c)
             v == ClockLinear(w)
  <1>1. ASSUME NEW s, Formed(s), NEW u, u = ClockLinear(s)
        PROVE  /\ OnlyUnits(s, u) /\ u.regs = s.regs /\ u.len = s.len /\ u.env = s.env
               /\ u.env_delay = s.env_delay /\ u.sweep_delay = s.sweep_delay /\ Formed(u)
    <2>1. /\ OnlyUnits(s, u) /\ u.regs = s.regs /\ u.len = s.len /\ u.env = s.env
          /\ u.env_delay = s.env_delay /\ u.sweep_delay = s.sweep_delay
      BY <1>1 DEF ClockLinear, OnlyUnits, Formed, Shaped, Fields
    <2>2. Shaped(u)
      BY <1>1, ClockLinearKeeps, ClocklessIsShaped DEF Formed
    <2>3. Formed(u)
      BY <1>1, <2>1, <2>2, OnlyUnitsFormed DEF Formed
    <2> QED
      BY <2>1, <2>3
  <1>2. Formed(c) /\ Formed(w) /\ SameUnits(c, w)
    BY DEF Units
  <1>3. /\ OnlyUnits(c, d) /\ d.regs = c.regs /\ d.len = c.len /\ d.env = c.env
        /\ d.env_delay = c.env_delay /\ d.sweep_delay = c.sweep_delay /\ Formed(d)
    BY <1>1, <1>2
  <1>4. /\ OnlyUnits(w, v) /\ v.regs = w.regs /\ v.len = w.len /\ v.env = w.env
        /\ v.env_delay = w.env_delay /\ v.sweep_delay = w.sweep_delay /\ Formed(v)
    BY <1>1, <1>2
  <1>5. d.written = v.written /\ d.linear = v.linear
    BY <1>2 DEF ClockLinear, Formed, Shaped, Fields, SameUnits
  <1> HIDE DEF d, v
  <1>6. SameUnits(d, v)
    BY <1>2, <1>3, <1>4, <1>5 DEF SameUnits, OnlyUnits
  <1>7. Clocked2(c, w, d, v)
    BY <1>3, <1>4, <1>6, UnitsStay
  <1> QED
    BY <1>7 DEF d, v

\* The divisors of a sweep.
LEMMA Powers == ASSUME NEW k \in 0 .. 7 PROVE 2^k \in Nat \ {0}
  <1>1. 2^0 = 1 /\ 2^1 = 2 /\ 2^2 = 4 /\ 2^3 = 8 /\ 2^4 = 16 /\ 2^5 = 32 /\ 2^6 = 64 /\ 2^7 = 128
    OBVIOUS
  <1>2. CASE k = 0
    BY <1>1, <1>2
  <1>3. CASE k = 1
    BY <1>1, <1>3
  <1>4. CASE k = 2
    BY <1>1, <1>4
  <1>5. CASE k = 3
    BY <1>1, <1>5
  <1>6. CASE k = 4
    BY <1>1, <1>6
  <1>7. CASE k = 5
    BY <1>1, <1>7
  <1>8. CASE k = 6
    BY <1>1, <1>8
  <1>9. CASE k = 7
    BY <1>1, <1>9
  <1> QED
    BY <1>2, <1>3, <1>4, <1>5, <1>6, <1>7, <1>8, <1>9

\* A sweep leaves bytes in the registers of the period.
LEMMA SweptIsBytes ==
  ASSUME NEW s, Formed(s), NEW i \in 0 .. 1, NEW a \in Int
  PROVE  Swept(s, i, a) \in [0 .. 3 -> 0 .. 255]
  <1> DEFINE sweep == s.regs[i][1]
             offset == Period(s, i) \div 2^(sweep % 8)
             new == Period(s, i) + (IF BitOf(sweep, 3) = 1 THEN a - offset ELSE offset)
  <1>1. \/ Swept(s, i, a) = s.regs[i]
        \/ Swept(s, i, a) = [s.regs[i] EXCEPT ![2] = new % 256,
                                              ![3] = ((@ \div 8) * 8) + ((new \div 256) % 8)]
    BY DEF Swept
  <1>2. s.regs[i] \in [0 .. 3 -> 0 .. 255]
    <2>1. i \in Oscs /\ s.regs \in [Oscs -> [0 .. 3 -> 0 .. 255]]
      BY DEF Formed, Oscs
    <2> QED
      BY <2>1
  <1>3. new \in Int
    <2>1. offset \in Int
      <3>1. PICK k \in 0 .. 7 : k = sweep % 8
        BY <1>2
      <3>2. PICK power \in Nat \ {0} : power = 2^k
        BY Powers
      <3>3. PICK p \in Nat : p = Period(s, i)
        BY PeriodIsNat
      <3>4. p \div power \in Int
        OBVIOUS
      <3> QED
        BY <3>1, <3>2, <3>3, <3>4
    <2>2. Period(s, i) \in Int
      BY PeriodIsNat
    <2> HIDE DEF offset
    <2>3. a - offset \in Int
      BY <2>1
    <2>4. (IF BitOf(sweep, 3) = 1 THEN a - offset ELSE offset) \in Int
      BY <2>1, <2>3
    <2> QED
      BY <2>2, <2>4
  <1> HIDE DEF new
  <1>4. new % 256 \in 0 .. 255
    BY <1>3
  <1>5. ((s.regs[i][3] \div 8) * 8) + ((new \div 256) % 8) \in 0 .. 255
    <2>1. PICK high \in 0 .. 255 : high = s.regs[i][3]
      BY <1>2
    <2>2. PICK h \in 0 .. 31 : h = high \div 8
      OBVIOUS
    <2>3. PICK q \in Int : q = new \div 256
      BY <1>3
    <2>4. PICK g \in 0 .. 7 : g = q % 8
      OBVIOUS
    <2> QED
      BY <2>1, <2>2, <2>3, <2>4
  <1> QED
    BY <1>1, <1>2, <1>4, <1>5

\* Nes_Square::clock_sweep().
LEMMA ClockSweepAlike ==
  ASSUME NEW c, NEW w, Units(c, w), NEW i \in 0 .. 1, NEW a \in Int
  PROVE  Clocked2(c, w, ClockSweep(c, i, a), ClockSweep(w, i, a))
  <1> DEFINE d == ClockSweep(c, i, a)
             v == ClockSweep(w, i, a)
  <1>1. ASSUME NEW s, Formed(s), NEW u, u = ClockSweep(s, i, a)
        PROVE  /\ OnlyUnits(s, u) /\ u.len = s.len /\ u.env = s.env
               /\ u.env_delay = s.env_delay /\ u.linear = s.linear /\ Formed(u)
    <2>1. /\ OnlyUnits(s, u) /\ u.len = s.len /\ u.env = s.env
          /\ u.env_delay = s.env_delay /\ u.linear = s.linear
      BY <1>1 DEF ClockSweep, OnlyUnits, Formed, Shaped, Fields, Oscs
    <2>2. Shaped(u)
      BY <1>1, ClockSweepKeeps, ClocklessIsShaped DEF Formed
    <2>3. u.regs \in [Oscs -> [0 .. 3 -> 0 .. 255]]
      <3>1. PICK r \in [0 .. 3 -> 0 .. 255] : r = Swept(s, i, a)
        BY <1>1, SweptIsBytes
      <3>2. u.regs = s.regs \/ u.regs = [s.regs EXCEPT ![i] = r]
        BY <1>1, <3>1 DEF ClockSweep, Formed, Shaped, Fields
      <3>3. s.regs \in [Oscs -> [0 .. 3 -> 0 .. 255]]
        BY <1>1 DEF Formed
      <3> QED
        BY <3>2, <3>3
    <2>4. Formed(u)
      BY <1>1, <2>1, <2>2, <2>3, OnlyUnitsFormed
    <2> QED
      BY <2>1, <2>4
  <1>2. Formed(c) /\ Formed(w) /\ SameUnits(c, w)
    BY DEF Units
  <1>3. /\ OnlyUnits(c, d) /\ d.len = c.len /\ d.env = c.env
        /\ d.env_delay = c.env_delay /\ d.linear = c.linear /\ Formed(d)
    BY <1>1, <1>2
  <1>4. /\ OnlyUnits(w, v) /\ v.len = w.len /\ v.env = w.env
        /\ v.env_delay = w.env_delay /\ v.linear = w.linear /\ Formed(v)
    BY <1>1, <1>2
  <1>8. Swept(c, i, a) = Swept(w, i, a)
    BY <1>2 DEF Swept, Period, SameUnits
  <1>5. d.written = v.written /\ d.sweep_delay = v.sweep_delay /\ d.regs = v.regs
    BY <1>2, <1>8 DEF ClockSweep, Formed, Shaped, Fields, SameUnits
  <1> HIDE DEF d, v
  <1>6. SameUnits(d, v)
    BY <1>2, <1>3, <1>4, <1>5 DEF SameUnits, OnlyUnits
  <1>7. Clocked2(c, w, d, v)
    BY <1>3, <1>4, <1>6, UnitsStay
  <1> QED
    BY <1>7 DEF d, v

\* Two like chips nothing has been done to.
LEMMA UnitsAreClocked ==
  ASSUME NEW c, NEW w, Units(c, w) PROVE Clocked2(c, w, c, w)
  BY DEF Clocked2, OnlyUnits, Units, Formed, Shaped

\* Two like chips that were clocked are alike.
LEMMA UnitsClockedOn ==
  ASSUME NEW c, NEW w, NEW d, NEW v, Clocked2(c, w, d, v) PROVE Units(d, v)
  BY DEF Clocked2

\* The lengths of all four channels.
LEMMA LengthsAlike ==
  ASSUME NEW c, NEW w, Units(c, w) PROVE Clocked2(c, w, ClockLengths(c), ClockLengths(w))
  <1>1. PICK c1, w1 : c1 = ClockLength(c, 0) /\ w1 = ClockLength(w, 0)
    OBVIOUS
  <1>2. PICK c2, w2 : c2 = ClockLength(c1, 1) /\ w2 = ClockLength(w1, 1)
    OBVIOUS
  <1>3. PICK c3, w3 : c3 = ClockLength(c2, 3) /\ w3 = ClockLength(w2, 3)
    OBVIOUS
  <1>4. PICK c4, w4 : c4 = ClockLength(c3, 2) /\ w4 = ClockLength(w3, 2)
    OBVIOUS
  <1>5. Clocked2(c, w, c1, w1)
    BY <1>1, ClockLengthAlike
  <1>6. Clocked2(c1, w1, c2, w2)
    BY <1>2, <1>5, ClockLengthAlike, UnitsClockedOn
  <1>7. Clocked2(c2, w2, c3, w3)
    BY <1>3, <1>6, ClockLengthAlike, UnitsClockedOn
  <1>8. Clocked2(c3, w3, c4, w4)
    BY <1>4, <1>7, ClockLengthAlike, UnitsClockedOn
  <1>9. Clocked2(c, w, c3, w3)
    BY <1>5, <1>6, <1>7, Clocked2Chains
  <1>10. Clocked2(c, w, c4, w4)
    BY <1>8, <1>9, Clocked2Chains
  <1> QED
    BY <1>1, <1>2, <1>3, <1>4, <1>10 DEF ClockLengths

\* The sweeps of both squares.
LEMMA SweepsAlike ==
  ASSUME NEW c, NEW w, Units(c, w) PROVE Clocked2(c, w, ClockSweeps(c), ClockSweeps(w))
  <1>1. PICK c1, w1 : c1 = ClockSweep(c, 0, -1) /\ w1 = ClockSweep(w, 0, -1)
    OBVIOUS
  <1>2. PICK c2, w2 : c2 = ClockSweep(c1, 1, 0) /\ w2 = ClockSweep(w1, 1, 0)
    OBVIOUS
  <1>5. Clocked2(c, w, c1, w1)
    BY <1>1, ClockSweepAlike
  <1>6. Clocked2(c1, w1, c2, w2)
    BY <1>2, <1>5, ClockSweepAlike, UnitsClockedOn
  <1>7. Clocked2(c, w, c2, w2)
    BY <1>5, <1>6, Clocked2Chains
  <1> QED
    BY <1>1, <1>2, <1>7 DEF ClockSweeps

\* The linear counter and the three envelopes.
LEMMA EnvelopesAlike ==
  ASSUME NEW c, NEW w, Units(c, w)
  PROVE  Clocked2(c, w, ClockEnvelopes(ClockLinear(c)), ClockEnvelopes(ClockLinear(w)))
  <1>1. PICK c1, w1 : c1 = ClockLinear(c) /\ w1 = ClockLinear(w)
    OBVIOUS
  <1>2. PICK c2, w2 : c2 = ClockEnvelope(c1, 0) /\ w2 = ClockEnvelope(w1, 0)
    OBVIOUS
  <1>3. PICK c3, w3 : c3 = ClockEnvelope(c2, 1) /\ w3 = ClockEnvelope(w2, 1)
    OBVIOUS
  <1>4. PICK c4, w4 : c4 = ClockEnvelope(c3, 3) /\ w4 = ClockEnvelope(w3, 3)
    OBVIOUS
  <1>0. 0 \in Enveloped /\ 1 \in Enveloped /\ 3 \in Enveloped
    BY DEF Enveloped
  <1>5. Clocked2(c, w, c1, w1)
    BY <1>1, ClockLinearAlike
  <1>6. Clocked2(c1, w1, c2, w2)
    BY <1>0, <1>2, <1>5, ClockEnvelopeAlike, UnitsClockedOn
  <1>7. Clocked2(c2, w2, c3, w3)
    BY <1>0, <1>3, <1>6, ClockEnvelopeAlike, UnitsClockedOn
  <1>8. Clocked2(c3, w3, c4, w4)
    BY <1>0, <1>4, <1>7, ClockEnvelopeAlike, UnitsClockedOn
  <1>9. Clocked2(c, w, c3, w3)
    BY <1>5, <1>6, <1>7, Clocked2Chains
  <1>10. Clocked2(c, w, c4, w4)
    BY <1>8, <1>9, Clocked2Chains
  <1> QED
    BY <1>1, <1>2, <1>3, <1>4, <1>10 DEF ClockEnvelopes

\* A time worked out for an IRQ is the same in two chips whose times are b apart.
SameIrq(c, w, b) ==
  IF w = NoIrq THEN c = NoIrq ELSE c \in Int /\ c # NoIrq /\ IsSum(w, c, b) /\ w < NoIrq

SameClock(c, w, b) ==
  /\ c.frame_delay = w.frame_delay /\ c.frame_period = w.frame_period /\ c.frame = w.frame
  /\ c.mode = w.mode /\ c.irq_flag = w.irq_flag
  /\ IsSum(w.last_time, c.last_time, b) /\ SameIrq(c.next_irq, w.next_irq, b)

\* The two chips are the same but for their DMC.
Rest(c, w, b) == Units(c, w) /\ SameClock(c, w, b)

\* The DMC of s is that of u, and the sequencer raised its IRQ or left it alone.
Idle(s, u) ==
  /\ u.dmc = s.dmc /\ u.last_dmc_time = s.last_dmc_time /\ u.enables = s.enables
  /\ u.regs[4] = s.regs[4] /\ u.len[4] = s.len[4] /\ u.delay[4] = s.delay[4]
  /\ u.outputs = s.outputs /\ u.pal = s.pal /\ u.earliest = s.earliest
  /\ s.irq_flag => u.irq_flag
  /\ u.irq_flag \/ u.next_irq = s.next_irq

Horizon == 536870912
Longest == 415700

\* The sequencer's own fields were set.
Sequenced(s, t) ==
  /\ DOMAIN t = Fields /\ t.regs = s.regs /\ t.written = s.written /\ t.len = s.len /\ t.env = s.env
  /\ t.env_delay = s.env_delay /\ t.sweep_delay = s.sweep_delay /\ t.linear = s.linear
  /\ t.delay = s.delay /\ t.phase = s.phase
  /\ t.dmc = s.dmc /\ t.last_time = s.last_time /\ t.last_dmc_time = s.last_dmc_time
  /\ t.frame_period = s.frame_period /\ t.mode = s.mode /\ t.enables = s.enables
  /\ t.earliest = s.earliest /\ t.outputs = s.outputs /\ t.pal = s.pal

RaisesIrq(s) == s.frame = 0 /\ s.mode % 128 < 64 /\ s.mode < 128
Step(s) == [s EXCEPT !.next_irq = IF RaisesIrq(s) THEN s.last_time + s.frame_period * 4 + 2 ELSE @,
                     !.irq_flag = @ \/ RaisesIrq(s),
                     !.frame = (@ + 1) % 4, !.frame_delay = ToNextStep(s)]

\* What a step of the sequencer does to the sequencer itself.
LEMMA StepSteps ==
  ASSUME NEW s, Formed(s), NEW t, t = Step(s)
  PROVE  /\ Formed(t) /\ Sequenced(s, t)
         /\ t.next_irq = IF RaisesIrq(s) THEN s.last_time + s.frame_period * 4 + 2 ELSE s.next_irq
         /\ t.irq_flag = (s.irq_flag \/ RaisesIrq(s))
         /\ t.frame = (s.frame + 1) % 4 /\ t.frame_delay = ToNextStep(s)
  <1>1. /\ Sequenced(s, t)
        /\ t.next_irq = IF RaisesIrq(s) THEN s.last_time + s.frame_period * 4 + 2 ELSE s.next_irq
        /\ t.irq_flag = (s.irq_flag \/ RaisesIrq(s))
        /\ t.frame = (s.frame + 1) % 4 /\ t.frame_delay = ToNextStep(s)
    BY DEF Step, Formed, Shaped, Fields, Sequenced
  <1>2. Formed(t)
    BY <1>1 DEF Formed, Shaped, Sequenced
  <1> QED
    BY <1>1, <1>2

-----------------------------------------------------------------------------
(* The frame sequencer, and the IRQ it works out. *)

\* Chips whose times are b apart: hypotheses of the lemmas.
Pair(c, w, b) ==
  /\ Rest(c, w, b) /\ b \in Nat /\ Timed(c) /\ Timed(w)
  /\ w.last_time <= Horizon /\ w.frame_period <= Longest

\* No time worked out is further away than this.
Farthest == 500000000

\* Times b apart are like IRQs, as long as neither is no_irq.
LEMMA TimesAlike ==
  ASSUME NEW q \in Int, NEW r \in Int, NEW b \in Nat, IsSum(r, q, b), r < NoIrq
  PROVE  SameIrq(q, r, b)
  <1>1. PICK n \in Int : n = NoIrq
    BY DEF NoIrq
  <1>2. q # n /\ r # n
    BY <1>1 DEF IsSum
  <1> QED
    BY <1>1, <1>2 DEF SameIrq

\* So are times as far ahead of them.
LEMMA AheadAlike ==
  ASSUME NEW x \in Int, NEW y \in Int, NEW b \in Nat, IsSum(y, x, b), y <= Horizon,
         NEW o \in Nat, o <= Farthest, NEW q \in Int, IsSum(q, x, o), NEW r \in Int, IsSum(r, y, o)
  PROVE  SameIrq(q, r, b)
  <1>1. IsSum(r, q, b) /\ r < NoIrq
    BY DEF IsSum, Horizon, Farthest, NoIrq
  <1> QED
    BY <1>1, TimesAlike

\* A step, with the IRQ it may work out.
LEMMA StepAlike ==
  ASSUME NEW c, NEW w, NEW b, Pair(c, w, b), NEW d, d = Step(c), NEW v, v = Step(w)
  PROVE  Rest(d, v, b)
  <1>1. /\ Formed(d) /\ Sequenced(c, d)
        /\ d.next_irq = IF RaisesIrq(c) THEN c.last_time + c.frame_period * 4 + 2 ELSE c.next_irq
        /\ d.irq_flag = (c.irq_flag \/ RaisesIrq(c))
        /\ d.frame = (c.frame + 1) % 4 /\ d.frame_delay = ToNextStep(c)
    BY StepSteps DEF Pair, Rest, Units
  <1>2. /\ Formed(v) /\ Sequenced(w, v)
        /\ v.next_irq = IF RaisesIrq(w) THEN w.last_time + w.frame_period * 4 + 2 ELSE w.next_irq
        /\ v.irq_flag = (w.irq_flag \/ RaisesIrq(w))
        /\ v.frame = (w.frame + 1) % 4 /\ v.frame_delay = ToNextStep(w)
    BY StepSteps DEF Pair, Rest, Units
  <1>3. Units(d, v)
    BY <1>1, <1>2 DEF Units, SameUnits, SameTimers, Sequenced, Pair, Rest
  <1>4. SameClock(c, w, b) /\ c.pal = w.pal
    BY DEF Pair, Rest, Units, SameUnits
  <1>5. ToNextStep(c) = ToNextStep(w) /\ (RaisesIrq(c) <=> RaisesIrq(w))
    BY <1>4 DEF ToNextStep, RaisesIrq, SameClock
  <1>6. SameIrq(d.next_irq, v.next_irq, b)
    <2>1. CASE RaisesIrq(w)
      <3>1. PICK p \in Nat : p = w.frame_period /\ p = c.frame_period /\ p <= Longest
        BY <1>4 DEF SameClock, Pair, Timed
      <3>2. PICK x \in Int : x = c.last_time
        BY DEF Pair, Timed
      <3>3. PICK y \in Int : y = w.last_time /\ y <= Horizon
        BY DEF Pair, Timed
      <3>4. IsSum(y, x, b) /\ b \in Nat
        BY <1>4, <3>2, <3>3 DEF SameClock, Pair
      <3>5. PICK o \in Nat : o = p * 4 + 2 /\ o <= Farthest
        BY <3>1 DEF Longest, Farthest
      <3>8. PICK q \in Int : q = x + o
        OBVIOUS
      <3>9. PICK r \in Int : r = y + o
        OBVIOUS
      <3>6. SameIrq(q, r, b)
        BY <3>3, <3>4, <3>5, <3>8, <3>9, AheadAlike DEF IsSum
      <3>7. d.next_irq = q /\ v.next_irq = r
        BY <1>1, <1>2, <1>5, <2>1, <3>1, <3>2, <3>3, <3>5, <3>8, <3>9
      <3> QED
        BY <3>6, <3>7
    <2>2. CASE ~RaisesIrq(w)
      BY <1>1, <1>2, <1>4, <1>5, <2>2 DEF SameClock
    <2> QED
      BY <2>1, <2>2
  <1>7. SameClock(d, v, b)
    BY <1>1, <1>2, <1>4, <1>5, <1>6 DEF SameClock, Sequenced
  <1> QED
    BY <1>3, <1>7 DEF Rest

\* A step of the sequencer does the same to two like chips.
LEMMA FrameStepAlike ==
  ASSUME NEW c, NEW w, NEW b, Pair(c, w, b), NEW d, d = FrameStep(c), NEW v, v = FrameStep(w)
  PROVE  Rest(d, v, b) /\ Idle(c, d) /\ Idle(w, v)
  <1>1. PICK c1, w1 : c1 = Step(c) /\ w1 = Step(w)
    OBVIOUS
  <1>2. Rest(c1, w1, b)
    BY <1>1, StepAlike
  <1>3. PICK c2, w2 : /\ c2 = IF c.frame \in {0, 2} THEN ClockSweeps(ClockLengths(c1)) ELSE c1
                      /\ w2 = IF w.frame \in {0, 2} THEN ClockSweeps(ClockLengths(w1)) ELSE w1
    OBVIOUS
  <1>4. d = ClockEnvelopes(ClockLinear(c2)) /\ v = ClockEnvelopes(ClockLinear(w2))
    BY <1>1, <1>3 DEF FrameStep, Step, RaisesIrq
  <1>5. Clocked2(c1, w1, c2, w2)
    <2>1. c.frame = w.frame /\ Units(c1, w1)
      BY <1>2 DEF Pair, Rest, SameClock
    <2>2. CASE c.frame \in {0, 2}
      <3>1. PICK c3, w3 : c3 = ClockLengths(c1) /\ w3 = ClockLengths(w1)
        OBVIOUS
      <3>2. Clocked2(c1, w1, c3, w3)
        BY <2>1, <3>1, LengthsAlike
      <3>3. Clocked2(c3, w3, c2, w2)
        BY <1>3, <2>1, <2>2, <3>1, <3>2, SweepsAlike, UnitsClockedOn
      <3> QED
        BY <3>2, <3>3, Clocked2Chains
    <2>3. CASE c.frame \notin {0, 2}
      BY <1>3, <2>1, <2>3, UnitsAreClocked
    <2> QED
      BY <2>2, <2>3
  <1>6. Clocked2(c2, w2, d, v)
    BY <1>4, <1>5, EnvelopesAlike, UnitsClockedOn
  <1>7. Clocked2(c1, w1, d, v)
    BY <1>5, <1>6, Clocked2Chains
  <1>8. Rest(d, v, b)
    BY <1>2, <1>7 DEF Rest, Clocked2, OnlyUnits, SameClock
  <1>9. Formed(c) /\ Formed(w)
    BY DEF Pair, Rest, Units
  <1>10. ASSUME NEW s, Formed(s), NEW t, t = Step(s), NEW u, OnlyUnits(t, u)
         PROVE  Idle(s, u)
    <2>1. /\ Sequenced(s, t)
          /\ t.next_irq = IF RaisesIrq(s) THEN s.last_time + s.frame_period * 4 + 2 ELSE s.next_irq
          /\ t.irq_flag = (s.irq_flag \/ RaisesIrq(s))
      BY <1>10, StepSteps
    <2> QED
      BY <1>10, <2>1 DEF Idle, Sequenced, OnlyUnits
  <1>11. Idle(c, d) /\ Idle(w, v)
    BY <1>1, <1>7, <1>9, <1>10 DEF Clocked2
  <1> QED
    BY <1>8, <1>11

-----------------------------------------------------------------------------
(* The loop of run_until_(): a turn, the turns, and a loop that stops on its way. *)

\* The oscillators up to a time.
Ran(s, time) ==
  [RunOscillators(s, s.last_time, time) EXCEPT !.last_time = time,
                                               !.frame_delay = @ - (time - s.last_time)]

\* u is s with its oscillators run to a time, n clocks later.
Moved(s, u, time, n) ==
  /\ Formed(u)
  /\ u.regs = s.regs /\ u.written = s.written /\ u.len = s.len /\ u.env = s.env
  /\ u.env_delay = s.env_delay /\ u.sweep_delay = s.sweep_delay /\ u.linear = s.linear
  /\ u.dmc = s.dmc /\ u.last_dmc_time = s.last_dmc_time
  /\ u.frame_period = s.frame_period /\ u.frame = s.frame
  /\ u.mode = s.mode /\ u.enables = s.enables /\ u.irq_flag = s.irq_flag
  /\ u.next_irq = s.next_irq /\ u.earliest = s.earliest /\ u.outputs = s.outputs /\ u.pal = s.pal
  /\ u.delay[4] = s.delay[4]
  /\ u.last_time = time /\ u.frame_delay = s.frame_delay - n
  /\ \E r : Ticked(s, r, n) /\ u.delay = r.delay /\ u.phase = r.phase

\* The oscillators leave the DMC's delay alone.
LEMMA TickedKeepsDmcDelay ==
  ASSUME NEW s, Formed(s), NEW from, NEW end, NEW u, u = RunOscillators(s, from, end)
  PROVE  u.delay[4] = s.delay[4]
  <1>1. Clockless(s, u)
    BY OscillatorsKeep DEF Formed
  <1> QED
    BY <1>1 DEF Clockless, Leaves

\* The oscillators, run to a time.
LEMMA RanMoves ==
  ASSUME NEW s, Formed(s), Timed(s), NEW time \in Int, NEW u, u = Ran(s, time),
         NEW n, n = Elapsed(s.last_time, time)
  PROVE  Moved(s, u, time, n)
  <1>1. PICK last \in Int, delay \in Nat : last = s.last_time /\ delay = s.frame_delay
    BY DEF Timed
  <1>2. PICK r : r = RunOscillators(s, last, time)
    OBVIOUS
  <1>3. Ticked(s, r, n)
    BY <1>1, <1>2, OscillatorsTick
  <1>4. r.delay[4] = s.delay[4]
    BY <1>2, TickedKeepsDmcDelay
  <1>5. u = [r EXCEPT !.last_time = time, !.frame_delay = @ - (time - last)]
    BY <1>1, <1>2 DEF Ran
  <1>6. DOMAIN r = Fields /\ r.frame_delay = delay /\ n = time - last
    BY <1>1, <1>3 DEF Ticked, Unmoved, Elapsed
  <1>7. /\ DOMAIN u = Fields /\ u.last_time = time /\ u.frame_delay = delay - n
        /\ u.regs = r.regs /\ u.written = r.written /\ u.len = r.len /\ u.env = r.env
        /\ u.env_delay = r.env_delay /\ u.sweep_delay = r.sweep_delay /\ u.linear = r.linear
        /\ u.dmc = r.dmc /\ u.last_dmc_time = r.last_dmc_time
        /\ u.frame_period = r.frame_period /\ u.frame = r.frame
        /\ u.mode = r.mode /\ u.enables = r.enables /\ u.irq_flag = r.irq_flag
        /\ u.next_irq = r.next_irq /\ u.earliest = r.earliest /\ u.outputs = r.outputs
        /\ u.pal = r.pal /\ u.delay = r.delay /\ u.phase = r.phase
    BY <1>5, <1>6 DEF Fields
  <1>8. Formed(u)
    BY <1>3, <1>7 DEF Ticked, Formed, Shaped
  <1> QED
    BY <1>1, <1>3, <1>4, <1>7, <1>8 DEF Moved, Ticked, Unmoved

\* Two like chips are run for as many clocks.
LEMMA RanAlike ==
  ASSUME NEW c, NEW w, NEW b \in Int, Rest(c, w, b), Timed(c), Timed(w),
         NEW e \in Int, NEW end \in Int, IsSum(end, e, b),
         NEW d, d = Ran(c, e), NEW v, v = Ran(w, end)
  PROVE  Rest(d, v, b)
  <1>1. PICK x \in Int, y \in Int : x = c.last_time /\ y = w.last_time
    BY DEF Timed
  <1>2. IsSum(y, x, b)
    BY <1>1 DEF Rest, SameClock
  <1>3. PICK n \in Int : n = Elapsed(x, e) /\ n = Elapsed(y, end)
    BY <1>2 DEF Elapsed, IsSum
  <1>4. Moved(c, d, e, n) /\ Moved(w, v, end, n)
    BY <1>1, <1>3, RanMoves DEF Rest, Units
  <1>5. PICK r : Ticked(c, r, n) /\ d.delay = r.delay /\ d.phase = r.phase
    BY <1>4 DEF Moved
  <1>6. PICK q : Ticked(w, q, n) /\ v.delay = q.delay /\ v.phase = q.phase
    BY <1>4 DEF Moved
  <1>7. SameVoices(c, w) /\ SameTimers(c, w)
    BY DEF Rest, Units, SameUnits, SameVoices
  <1>8. SameTimers(r, q)
    BY <1>5, <1>6, <1>7, TicksAlike
  <1>9. SameTimers(d, v)
    <2>1. v.outputs = q.outputs
      BY <1>4, <1>6 DEF Moved, Ticked, Unmoved
    <2> QED
      BY <1>5, <1>6, <1>8, <2>1 DEF SameTimers
  <1>10. SameUnits(d, v)
    BY <1>4 DEF Moved, Rest, Units, SameUnits
  <1>11. SameClock(d, v, b)
    BY <1>4 DEF Moved, Rest, SameClock
  <1> QED
    BY <1>4, <1>9, <1>10, <1>11 DEF Rest, Units, Moved

\* A run may be cut in two.
LEMMA RanAdds ==
  ASSUME NEW s, Formed(s), Timed(s), SameIrq(s.next_irq, s.next_irq, 0),
         NEW m \in Int, NEW end \in Int, s.last_time <= m, m <= end, m <= NextStepTime(s),
         NEW g, g = Ran(s, m), NEW u, u = Ran(g, end), NEW v, v = Ran(s, end)
  PROVE  Rest(u, v, 0)
  <1>1. PICK x \in Int : x = s.last_time
    BY DEF Timed
  <1>2. PICK n1 \in Int, n2 \in Int, n \in Int :
          /\ n1 = Elapsed(x, m) /\ n2 = Elapsed(m, end) /\ n = Elapsed(x, end)
          /\ 0 <= n1 /\ 0 <= n2 /\ IsSum(n, n1, n2) /\ n1 = m - x
    BY <1>1 DEF Elapsed, IsSum
  <1>3. Moved(s, g, m, n1)
    BY <1>1, <1>2, RanMoves
  <1>4. PICK delay \in Nat : delay = s.frame_delay /\ n1 <= delay
    BY <1>1, <1>2 DEF Timed, NextStepTime
  <1>5. Timed(g)
    BY <1>2, <1>3, <1>4 DEF Timed, Moved
  <1>6. Moved(g, u, end, n2)
    BY <1>2, <1>3, <1>5, RanMoves DEF Moved
  <1>7. Moved(s, v, end, n)
    BY <1>1, <1>2, RanMoves
  <1>8. PICK r : Ticked(s, r, n1) /\ g.delay = r.delay /\ g.phase = r.phase
    BY <1>3 DEF Moved
  <1>9. PICK q : Ticked(g, q, n2) /\ u.delay = q.delay /\ u.phase = q.phase
    BY <1>6 DEF Moved
  <1>10. PICK p : Ticked(s, p, n) /\ v.delay = p.delay /\ v.phase = p.phase
    BY <1>7 DEF Moved
  <1>11. PICK o : o = RunOscillators(r, m, end)
    OBVIOUS
  <1>12. Ticked(r, o, n2)
    BY <1>2, <1>8, <1>11, OscillatorsTick DEF Ticked
  <1>13. SameTimers(o, p)
    BY <1>2, <1>8, <1>10, <1>12, TicksAdd
  <1>14. SameVoices(g, r) /\ SameTimers(g, r)
    BY <1>3, <1>8 DEF Moved, Ticked, Unmoved, SameVoices, SameTimers
  <1>15. SameTimers(q, o)
    BY <1>9, <1>12, <1>14, TicksAlike
  <1>16. /\ u.outputs = s.outputs /\ v.outputs = s.outputs /\ o.outputs = s.outputs
         /\ p.outputs = s.outputs
    BY <1>3, <1>6, <1>7, <1>8, <1>10, <1>12 DEF Moved, Ticked, Unmoved
  <1>17. SameTimers(u, v)
    BY <1>9, <1>10, <1>13, <1>15, <1>16 DEF SameTimers
  <1>18. SameUnits(u, v)
    BY <1>3, <1>6, <1>7 DEF Moved, SameUnits
  <1>19. SameClock(u, v, 0)
    <2>1. u.frame_delay = v.frame_delay
      <3>1. u.frame_delay = (delay - n1) - n2 /\ v.frame_delay = delay - n
        BY <1>3, <1>4, <1>6, <1>7 DEF Moved
      <3>2. n = n1 + n2
        BY <1>2 DEF IsSum
      <3> QED
        BY <3>1, <3>2
    <2>2. IsSum(v.last_time, u.last_time, 0)
      BY <1>6, <1>7 DEF Moved, IsSum
    <2> QED
      BY <1>3, <1>6, <1>7, <2>1, <2>2 DEF Moved, SameClock
  <1> QED
    BY <1>6, <1>7, <1>17, <1>18, <1>19 DEF Rest, Units, Moved

\* A chip is like itself when what it worked out is a time.
LEMMA RestItself ==
  ASSUME NEW s, Formed(s), Timed(s), SameIrq(s.next_irq, s.next_irq, 0) PROVE Rest(s, s, 0)
  <1>1. IsSum(s.last_time, s.last_time, 0)
    BY DEF IsSum, Timed
  <1> QED
    BY <1>1 DEF Rest, Units, SameUnits, SameTimers, SameClock

\* What running the oscillators leaves.
LEMMA MovedIdle == ASSUME NEW s, NEW u, NEW time, NEW n, Moved(s, u, time, n) PROVE Idle(s, u)
  BY DEF Moved, Idle

\* What two turns leave of the DMC, both leave.
LEMMA IdleChains == ASSUME NEW s, NEW t, NEW u, Idle(s, t), Idle(t, u) PROVE Idle(s, u)
  BY DEF Idle

\* A DMC nothing was done to.
LEMMA IdleItself == ASSUME NEW s PROVE Idle(s, s)
  BY DEF Idle

\* Until the next step of the sequencer.
LEMMA RanPairs ==
  ASSUME NEW c, NEW w, NEW b, Pair(c, w, b), NEW e \in Int, NEW end \in Int, IsSum(end, e, b),
         c.last_time <= e, e <= NextStepTime(c), end <= Horizon,
         NEW d, d = Ran(c, e), NEW v, v = Ran(w, end)
  PROVE  /\ Pair(d, v, b) /\ Idle(c, d) /\ Idle(w, v) /\ d.last_time = e /\ v.last_time = end
         /\ NextStepTime(d) = NextStepTime(c) /\ NextStepTime(v) = NextStepTime(w)
  <1>1. PICK x \in Int, y \in Int : x = c.last_time /\ y = w.last_time /\ IsSum(y, x, b) /\ b \in Nat
    BY DEF Timed, Pair, Rest, SameClock
  <1>2. PICK n \in Int : n = Elapsed(x, e) /\ n = Elapsed(y, end) /\ n = e - x /\ n = end - y
    BY <1>1 DEF Elapsed, IsSum
  <1>3. Moved(c, d, e, n) /\ Moved(w, v, end, n)
    BY <1>1, <1>2, RanMoves DEF Pair, Rest, Units
  <1>4. PICK delay \in Nat : delay = c.frame_delay /\ delay = w.frame_delay /\ n <= delay
    BY <1>1, <1>2 DEF Pair, Timed, NextStepTime, Rest, SameClock
  <1>5. Timed(d) /\ Timed(v)
    BY <1>2, <1>3, <1>4 DEF Timed, Moved, Pair
  <1>6. Rest(d, v, b)
    BY <1>1, RanAlike DEF Pair
  <1>7. NextStepTime(d) = NextStepTime(c) /\ NextStepTime(v) = NextStepTime(w)
    BY <1>1, <1>2, <1>3, <1>4 DEF NextStepTime, Moved
  <1>8. d.last_time = e /\ v.last_time = end
        /\ d.frame_period = c.frame_period /\ v.frame_period = w.frame_period
    BY <1>3, Zenon DEF Moved
  <1>9. Pair(d, v, b)
    BY <1>5, <1>6, <1>8 DEF Pair
  <1>10. Idle(c, d) /\ Idle(w, v)
    BY <1>3, MovedIdle, Zenon
  <1> QED
    BY <1>7, <1>8, <1>9, <1>10

\* A turn of the loop: a run to the next step or to the end, and the step if it is
\* one.
LEMMA IterationIs ==
  ASSUME NEW s, NEW end, NEW time, time = Earlier(s.last_time + s.frame_delay, end)
  PROVE  Iteration(s, end) = IF s.last_time = end THEN s
                             ELSE IF time = end THEN Ran(s, time) ELSE FrameStep(Ran(s, time))
  BY DEF Iteration, Ran

\* An iteration does the same to two like chips.
LEMMA IterationAlike ==
  ASSUME NEW c, NEW w, NEW b, Pair(c, w, b), NEW e \in Int, NEW end \in Int, IsSum(end, e, b),
         c.last_time <= e, end <= Horizon,
         NEW d, d = Iteration(c, e), NEW v, v = Iteration(w, end)
  PROVE  Rest(d, v, b) /\ Idle(c, d) /\ Idle(w, v)
  <1>1. PICK x \in Int, y \in Int, delay \in Nat :
          /\ x = c.last_time /\ y = w.last_time /\ IsSum(y, x, b) /\ b \in Nat
          /\ delay = c.frame_delay /\ delay = w.frame_delay
    BY DEF Timed, Pair, Rest, SameClock
  <1>2. PICK t1 \in Int, t2 \in Int :
          /\ t1 = Earlier(x + delay, e) /\ t2 = Earlier(y + delay, end)
          /\ IsSum(t2, t1, b) /\ x <= t1 /\ t1 <= x + delay /\ t2 <= end
          /\ t1 = e <=> t2 = end
    BY <1>1 DEF Earlier, IsSum
  <1>3. PICK c1 : c1 = Ran(c, t1)
    OBVIOUS
  <1>4. PICK w1 : w1 = Ran(w, t2)
    OBVIOUS
  <1>5. d = IF x = e THEN c ELSE IF t1 = e THEN c1 ELSE FrameStep(c1)
    BY <1>1, <1>2, <1>3 DEF Iteration, Ran
  <1>6. v = IF y = end THEN w ELSE IF t2 = end THEN w1 ELSE FrameStep(w1)
    BY <1>1, <1>2, <1>4 DEF Iteration, Ran
  <1>7. x = e <=> y = end
    BY <1>1 DEF IsSum
  <1>8. Pair(c1, w1, b) /\ Idle(c, c1) /\ Idle(w, w1)
    <2>1. c.last_time <= t1 /\ t1 <= NextStepTime(c) /\ t2 <= Horizon
      BY <1>1, <1>2 DEF NextStepTime, Horizon
    <2> QED
      BY <1>2, <1>3, <1>4, <2>1, RanPairs
  <1>9. CASE x = e
    BY <1>5, <1>6, <1>7, <1>9, IdleItself DEF Pair
  <1>10. CASE x # e /\ t1 = e
    BY <1>2, <1>5, <1>6, <1>7, <1>8, <1>10 DEF Pair
  <1>11. CASE x # e /\ t1 # e
    <2>1. d = FrameStep(c1) /\ v = FrameStep(w1)
      BY <1>2, <1>5, <1>6, <1>7, <1>11
    <2>2. Rest(d, v, b) /\ Idle(c1, d) /\ Idle(w1, v)
      BY <1>8, <2>1, FrameStepAlike
    <2> QED
      BY <1>8, <2>2, IdleChains
  <1> QED
    BY <1>9, <1>10, <1>11

\* A chip that may be run: like itself.
Runs(s) == Pair(s, s, 0)

\* Before the next step of the sequencer, an iteration may be cut in two.
LEMMA IterationSplits ==
  ASSUME NEW s, Runs(s), NEW m \in Int, NEW end \in Int, s.last_time < m, m < end, end <= Horizon,
         m <= NextStepTime(s), NEW g, g = Iteration(s, m),
         NEW u, u = Iteration(g, end), NEW v, v = Iteration(s, end)
  PROVE  g.last_time = m /\ Rest(u, v, 0)
  <1>1. PICK x \in Int, delay \in Nat : x = s.last_time /\ delay = s.frame_delay
    BY DEF Timed, Pair, Runs
  <1>2. x < m /\ m <= x + delay /\ NextStepTime(s) = x + delay
    BY <1>1 DEF NextStepTime
  <1>3. PICK t \in Int : t = Earlier(x + delay, end) /\ m <= t /\ t <= end /\ t <= x + delay
    BY <1>2 DEF Earlier
  <1>4. g = Ran(s, m)
    <2>1. Earlier(x + delay, m) = m /\ x # m
      BY <1>2 DEF Earlier
    <2> QED
      BY <1>1, <2>1 DEF Iteration, Ran
  <1>5. IsSum(m, m, 0) /\ IsSum(t, t, 0)
    BY DEF IsSum
  <1>6. /\ Pair(g, g, 0) /\ g.last_time = m /\ NextStepTime(g) = x + delay
    BY <1>1, <1>2, <1>4, <1>5, RanPairs DEF Runs, Horizon
  <1>7. PICK g1 : g1 = Ran(g, t)
    OBVIOUS
  <1>8. PICK s1 : s1 = Ran(s, t)
    OBVIOUS
  <1>9. Rest(g1, s1, 0)
    <2>1. Formed(s) /\ Timed(s) /\ SameIrq(s.next_irq, s.next_irq, 0)
      BY DEF Runs, Pair, Rest, Units, SameClock
    <2> QED
      BY <1>1, <1>2, <1>3, <1>4, <1>7, <1>8, <2>1, RanAdds
  <1>10. u = IF t = end THEN g1 ELSE FrameStep(g1)
    <2>1. Earlier(g.last_time + g.frame_delay, end) = t
      BY <1>3, <1>6 DEF NextStepTime
    <2>2. g.last_time # end
      BY <1>6
    <2> QED
      BY <1>7, <2>1, <2>2, IterationIs
  <1>11. v = IF t = end THEN s1 ELSE FrameStep(s1)
    <2>1. x # end
      BY <1>2
    <2> QED
      BY <1>1, <1>3, <1>8, <2>1 DEF Iteration, Ran
  <1>12. Pair(g1, s1, 0)
    <2>1. Pair(g1, g1, 0)
      BY <1>3, <1>5, <1>6, <1>7, RanPairs DEF Horizon
    <2>2. Pair(s1, s1, 0)
      BY <1>1, <1>2, <1>3, <1>5, <1>8, RanPairs DEF Runs, Horizon
    <2> QED
      BY <1>9, <2>1, <2>2 DEF Pair
  <1>13. CASE t = end
    BY <1>6, <1>9, <1>10, <1>11, <1>13
  <1>14. CASE t # end
    BY <1>6, <1>10, <1>11, <1>12, <1>14, FrameStepAlike
  <1> QED
    BY <1>13, <1>14

\* After it, the end does not matter.
LEMMA IterationIsTheSame ==
  ASSUME NEW s, Timed(s), NEW m \in Int, NEW end \in Int, s.last_time < m, m < end,
         NextStepTime(s) < m
  PROVE  Iteration(s, m) = Iteration(s, end)
  <1>1. PICK x \in Int, delay \in Nat : x = s.last_time /\ delay = s.frame_delay
    BY DEF Timed
  <1>2. /\ Earlier(x + delay, m) = x + delay /\ Earlier(x + delay, end) = x + delay
        /\ x # m /\ x # end /\ x + delay # m /\ x + delay # end
    BY <1>1 DEF NextStepTime, Earlier
  <1> QED
    BY <1>1, <1>2 DEF Iteration

\* A chip that can be run is like itself.
LEMMA RunsIsShaped ==
  ASSUME NEW s, Runs(s)
  PROVE  /\ Formed(s) /\ Shaped(s) /\ Timed(s) /\ Rest(s, s, 0) /\ SameIrq(s.next_irq, s.next_irq, 0)
         /\ s.last_time <= Horizon /\ s.frame_period <= Longest
  BY DEF Runs, Pair, Rest, Units, Formed, SameClock

\* Two of them that are alike are a pair the lemmas are about.
LEMMA PairOf ==
  ASSUME NEW c, NEW w, NEW b \in Nat, Rest(c, w, b), Runs(c), Runs(w)
  PROVE  Pair(c, w, b)
  BY DEF Runs, Pair

\* A turn leaves a chip that can be run, no later than the end.
LEMMA IterationRuns ==
  ASSUME NEW s, Runs(s), NEW end \in Int, s.last_time <= end, end <= Horizon,
         NEW u, u = Iteration(s, end)
  PROVE  /\ Runs(u) /\ Follows(s, u) /\ u.last_time <= end /\ Idle(s, u)
         /\ s.last_time = end => u = s
  <1>1. IsSum(end, end, 0)
    BY DEF IsSum
  <1>2. Rest(u, u, 0) /\ Idle(s, u)
    BY <1>1, IterationAlike DEF Runs
  <1>3. Follows(s, u) /\ u.last_time <= end
    BY IterationFollows, RunsIsShaped
  <1>4. Timed(u) /\ u.frame_period = s.frame_period
    BY <1>3 DEF Follows, Leaves
  <1>5. Runs(u)
    <2>1. u.last_time <= Horizon
      BY <1>3, <1>4 DEF Timed, Horizon
    <2>2. u.frame_period <= Longest
      BY <1>4, RunsIsShaped
    <2>3. 0 \in Nat
      OBVIOUS
    <2> QED
      BY <1>2, <1>4, <2>1, <2>2, <2>3 DEF Runs, Pair
  <1>6. s.last_time = end => u = s
    BY DEF Iteration
  <1> QED
    BY <1>2, <1>3, <1>5, <1>6

\* The turns of a loop, one by one.
LEMMA TurnIs ==
  ASSUME NEW s, NEW end, NEW n \in Nat, NEW f, IterationsTo(s, end, n, f)
  PROVE  f[0] = s /\ \A k \in Nat : k + 1 <= n => f[k + 1] = Iteration(f[k], end)
  <1>8. \A j \in 0 .. n : f[j] = IF j = 0 THEN s ELSE Iteration(f[j - 1], end)
    BY Zenon DEF IterationsTo
  <1>1. ASSUME NEW k \in Nat, k + 1 <= n PROVE f[k + 1] = Iteration(f[k], end)
    <2>1. k + 1 \in 0 .. n /\ k + 1 # 0 /\ k + 1 - 1 = k
      BY <1>1
    <2>2. f[k + 1] = IF k + 1 = 0 THEN s ELSE Iteration(f[k + 1 - 1], end)
      BY <1>8, <2>1
    <2> QED
      BY <2>1, <2>2, Zenon
  <1>2. f[0] = s
    <2>1. 0 \in 0 .. n
      OBVIOUS
    <2> QED
      BY <1>8, <2>1
  <1> QED
    BY <1>1, <1>2

\* How a turn leaves a chip that ran from s.
Went(s, u, end) == Runs(u) /\ Follows(s, u) /\ u.last_time <= end /\ Idle(s, u)

\* So do any number of turns.
LEMMA TurnsRun ==
  ASSUME NEW s, Runs(s), NEW end \in Int, s.last_time <= end, end <= Horizon,
         NEW n \in Nat, NEW f, IterationsTo(s, end, n, f)
  PROVE  \A k \in Nat : k <= n => Went(s, f[k], end)
  <1>1. f[0] = s /\ \A k \in Nat : k + 1 <= n => f[k + 1] = Iteration(f[k], end)
    BY TurnIs
  <1> DEFINE T == {k \in Nat : k <= n => Went(s, f[k], end)}
  <1>2. 0 \in T
    BY <1>1, FollowsItself, RunsIsShaped, IdleItself DEF Went
  <1>3. ASSUME NEW k \in Nat, k \in T PROVE k + 1 \in T
    <2> SUFFICES ASSUME k + 1 <= n PROVE Went(s, f[k + 1], end)
      OBVIOUS
    <2>1. Went(s, f[k], end)
      BY <1>3
    <2>2. /\ Runs(f[k + 1]) /\ Follows(f[k], f[k + 1]) /\ f[k + 1].last_time <= end
          /\ Idle(f[k], f[k + 1])
      BY <1>1, <2>1, IterationRuns DEF Went
    <2> QED
      BY <2>1, <2>2, FollowsChains, IdleChains, RunsIsShaped DEF Went
  <1> HIDE DEF T
  <1>4. \A k \in Nat : k \in T
    BY <1>2, <1>3, Induction
  <1> QED
    BY <1>4 DEF T

\* At the end more turns change nothing.
LEMMA TurnsStay ==
  ASSUME NEW s, Runs(s), NEW end \in Int, s.last_time <= end, end <= Horizon,
         NEW n \in Nat, NEW f, IterationsTo(s, end, n, f), NEW j \in Nat, f[j].last_time = end
  PROVE  \A k \in Nat : j <= k /\ k <= n => f[k] = f[j]
  <1>1. f[0] = s /\ \A k \in Nat : k + 1 <= n => f[k + 1] = Iteration(f[k], end)
    BY TurnIs
  <1> DEFINE T == {k \in Nat : j <= k /\ k <= n => f[k] = f[j]}
  <1>2. 0 \in T
    OBVIOUS
  <1>3. ASSUME NEW k \in Nat, k \in T PROVE k + 1 \in T
    <2> SUFFICES ASSUME j <= k + 1, k + 1 <= n PROVE f[k + 1] = f[j]
      OBVIOUS
    <2>1. CASE j = k + 1
      BY <2>1
    <2>2. CASE j <= k
      <3>1. f[k] = f[j] /\ f[k + 1] = Iteration(f[k], end)
        BY <1>1, <1>3, <2>2
      <3> QED
        BY <3>1 DEF Iteration
    <2> QED
      BY <2>1, <2>2
  <1> HIDE DEF T
  <1>4. \A k \in Nat : k \in T
    BY <1>2, <1>3, Induction
  <1> QED
    BY <1>4 DEF T

\* As many turns do the same to two like chips.
LEMMA TurnsAlike ==
  ASSUME NEW c, NEW w, NEW b \in Nat, Rest(c, w, b), Runs(c), Runs(w), NEW e \in Int, NEW end \in Int,
         IsSum(end, e, b), c.last_time <= e, w.last_time <= end, end <= Horizon,
         NEW n \in Nat, NEW f, IterationsTo(c, e, n, f), NEW g, IterationsTo(w, end, n, g)
  PROVE  \A k \in Nat : k <= n => Rest(f[k], g[k], b)
  <1>1. f[0] = c /\ \A k \in Nat : k + 1 <= n => f[k + 1] = Iteration(f[k], e)
    BY TurnIs
  <1>2. g[0] = w /\ \A k \in Nat : k + 1 <= n => g[k + 1] = Iteration(g[k], end)
    BY TurnIs
  <1>3. \A k \in Nat : k <= n => Went(w, g[k], end)
    BY TurnsRun
  <1>4. \A k \in Nat : k <= n => Went(c, f[k], e)
    <2>1. e <= Horizon
      BY DEF IsSum, Horizon
    <2> QED
      BY <2>1, TurnsRun
  <1> DEFINE T == {k \in Nat : k <= n => Rest(f[k], g[k], b)}
  <1>5. 0 \in T
    BY <1>1, <1>2
  <1>6. ASSUME NEW k \in Nat, k \in T PROVE k + 1 \in T
    <2> SUFFICES ASSUME k + 1 <= n PROVE Rest(f[k + 1], g[k + 1], b)
      OBVIOUS
    <2>1. Pair(f[k], g[k], b) /\ f[k].last_time <= e
      <3>1. k <= n
        OBVIOUS
      <3> QED
        BY <1>3, <1>4, <1>6, <3>1, PairOf DEF Went
    <2>2. f[k + 1] = Iteration(f[k], e) /\ g[k + 1] = Iteration(g[k], end)
      BY <1>1, <1>2
    <2> QED
      BY <2>1, <2>2, IterationAlike
  <1> HIDE DEF T
  <1>7. \A k \in Nat : k \in T
    BY <1>5, <1>6, Induction
  <1> QED
    BY <1>7 DEF T

\* The loop of run_until_().
TurnsOf(s, end) == (end - s.last_time) \div (s.frame_period - 2) + 3
Loop(s, end) == Turns(s, end, TurnsOf(s, end))

\* The turns to the end are a number.
LEMMA TurnsOfIsNat ==
  ASSUME NEW s, Timed(s), NEW end \in Int, s.last_time <= end PROVE TurnsOf(s, end) \in Nat
  <1>1. PICK d \in Nat, q \in Nat \ {0} : d = end - s.last_time /\ q = s.frame_period - 2
    BY DEF Timed
  <1>2. d \div q \in Nat
    OBVIOUS
  <1> QED
    BY <1>1, <1>2 DEF TurnsOf

\* The turns are taken one by one.
LEMMA TurnsAre ==
  ASSUME NEW s, NEW end, NEW n \in Nat
  PROVE  \E f : IterationsTo(s, end, n, f) /\ Turns(s, end, n) = f[n]
  <1>1. Turns(s, end, n) = (CHOOSE f : IterationsTo(s, end, n, f))[n]
    BY Zenon DEF Turns, Repeat, IterationsTo
  <1>2. PICK f : f = (CHOOSE g : IterationsTo(s, end, n, g)) /\ IterationsTo(s, end, n, f)
    BY IterationsExist
  <1> QED
    BY <1>1, <1>2

\* Fewer turns of the same.
LEMMA TurnsPrefix ==
  ASSUME NEW s, NEW end, NEW n \in Nat, NEW m \in Nat, m <= n, NEW f, IterationsTo(s, end, n, f),
         NEW g, IterationsTo(s, end, m, g)
  PROVE  \A k \in Nat : k <= m => g[k] = f[k]
  <1>1. f[0] = s /\ \A k \in Nat : k + 1 <= n => f[k + 1] = Iteration(f[k], end)
    BY TurnIs
  <1>2. g[0] = s /\ \A k \in Nat : k + 1 <= m => g[k + 1] = Iteration(g[k], end)
    BY TurnIs
  <1> DEFINE T == {k \in Nat : k <= m => g[k] = f[k]}
  <1>5. 0 \in T
    BY <1>1, <1>2
  <1>6. ASSUME NEW k \in Nat, k \in T PROVE k + 1 \in T
    BY <1>1, <1>2, <1>6
  <1> HIDE DEF T
  <1>7. \A k \in Nat : k \in T
    BY <1>5, <1>6, Induction
  <1> QED
    BY <1>7 DEF T

\* Any number of turns that is enough gives what the loop gives.
LEMMA LoopIs ==
  ASSUME NEW s, Runs(s), NEW end \in Int, s.last_time <= end, end <= Horizon,
         NEW n \in Nat, TurnsOf(s, end) <= n, NEW f, IterationsTo(s, end, n, f)
  PROVE  /\ Loop(s, end) = f[n] /\ Loop(s, end).last_time = end
         /\ \A k \in Nat : k <= n /\ f[k].last_time = end => f[k] = Loop(s, end)
  <1>1. PICK m \in Nat : m = TurnsOf(s, end)
    BY TurnsOfIsNat, RunsIsShaped
  <1>2. \E g : IterationsTo(s, end, m, g) /\ Turns(s, end, m) = g[m]
    BY TurnsAre
  <1>3. PICK g : IterationsTo(s, end, m, g) /\ Turns(s, end, m) = g[m]
    BY <1>2
  <1>4. PICK u : u = Turns(s, end, m) /\ u = Loop(s, end)
    BY <1>1 DEF Loop
  <1>5. u.last_time = end
    <2>1. u = Turns(s, end, (end - s.last_time) \div (s.frame_period - 2) + 3)
      BY <1>4 DEF TurnsOf, Loop
    <2>2. Shaped(s) /\ Timed(s)
      BY RunsIsShaped
    <2> QED
      BY <2>1, <2>2, LoopReachesTheEnd
  <1>6. g[m] = f[m]
    BY <1>1, <1>3, TurnsPrefix
  <1>7. f[n] = f[m]
    <2>1. f[m].last_time = end /\ m <= n /\ n <= n
      <3>1. f[m] = u
        BY <1>3, <1>4, <1>6, Zenon
      <3>2. m <= n /\ n <= n
        BY <1>1
      <3> QED
        BY <1>5, <3>1, <3>2, Zenon
    <2>2. \A k \in Nat : m <= k /\ k <= n => f[k] = f[m]
      BY <2>1, TurnsStay
    <2> QED
      BY <2>1, <2>2
  <1>8. ASSUME NEW k \in Nat, k <= n, f[k].last_time = end PROVE f[k] = f[n]
    BY <1>8, TurnsStay
  <1> QED
    BY <1>3, <1>4, <1>5, <1>6, <1>7, <1>8

\* The loop ends at the time it was given.
LEMMA LoopGoes ==
  ASSUME NEW s, Runs(s), NEW end \in Int, s.last_time <= end, end <= Horizon
  PROVE  Went(s, Loop(s, end), end) /\ Loop(s, end).last_time = end
  <1>1. PICK n \in Nat : n = TurnsOf(s, end)
    BY TurnsOfIsNat, RunsIsShaped
  <1>2. PICK f : IterationsTo(s, end, n, f)
    BY IterationsExist
  <1>3. Loop(s, end) = f[n] /\ Loop(s, end).last_time = end
    BY <1>1, <1>2, LoopIs
  <1> QED
    BY <1>2, <1>3, TurnsRun

\* The loop does the same to two like chips.
LEMMA LoopAlike ==
  ASSUME NEW c, NEW w, NEW b \in Nat, Rest(c, w, b), Runs(c), Runs(w), NEW e \in Int, NEW end \in Int,
         IsSum(end, e, b), c.last_time <= e, w.last_time <= end, end <= Horizon
  PROVE  Rest(Loop(c, e), Loop(w, end), b)
  <1>0. e <= Horizon
    BY DEF IsSum, Horizon
  <1>1. PICK n1 \in Nat : n1 = TurnsOf(c, e)
    BY TurnsOfIsNat, RunsIsShaped
  <1>2. PICK n2 \in Nat : n2 = TurnsOf(w, end)
    BY TurnsOfIsNat, RunsIsShaped
  <1>3. PICK n \in Nat : n1 <= n /\ n2 <= n
    <2>1. n1 + n2 \in Nat /\ n1 <= n1 + n2 /\ n2 <= n1 + n2
      OBVIOUS
    <2> QED
      BY <2>1
  <1>4. PICK f : IterationsTo(c, e, n, f)
    BY IterationsExist
  <1>5. PICK g : IterationsTo(w, end, n, g)
    BY IterationsExist
  <1>6. Loop(c, e) = f[n]
    BY <1>0, <1>1, <1>3, <1>4, LoopIs
  <1>7. Loop(w, end) = g[n]
    BY <1>2, <1>3, <1>5, LoopIs
  <1>8. Rest(f[n], g[n], b)
    BY <1>4, <1>5, TurnsAlike
  <1> QED
    BY <1>6, <1>7, <1>8

\* A loop that is there already does nothing.
LEMMA LoopOfNothing ==
  ASSUME NEW s, Runs(s), NEW end \in Int, s.last_time = end PROVE Loop(s, end) = s
  <1>1. PICK n \in Nat : n = TurnsOf(s, end)
    BY TurnsOfIsNat, RunsIsShaped
  <1>2. PICK f : IterationsTo(s, end, n, f)
    BY IterationsExist
  <1>3. f[0] = s
    BY <1>2, TurnIs
  <1>4. end <= Horizon /\ s.last_time <= end
    BY RunsIsShaped
  <1> QED
    BY <1>1, <1>2, <1>3, <1>4, LoopIs

\* A chip like a chip that is like a third.
LEMMA RestChains ==
  ASSUME NEW c, NEW x, NEW w, NEW b \in Int, Rest(c, x, b), Rest(x, w, 0), Timed(c), Timed(x), Timed(w)
  PROVE  Rest(c, w, b)
  <1>1. PICK p \in Int, q \in Int, r \in Int :
          p = c.last_time /\ q = x.last_time /\ r = w.last_time
    BY DEF Timed
  <1>2. IsSum(r, p, b)
    <2>1. IsSum(q, p, b) /\ IsSum(r, q, 0)
      BY <1>1 DEF Rest, SameClock
    <2> QED
      BY <2>1 DEF IsSum
  <1>3. SameIrq(c.next_irq, w.next_irq, b)
    <2>1. SameIrq(c.next_irq, x.next_irq, b) /\ SameIrq(x.next_irq, w.next_irq, 0)
      BY DEF Rest, SameClock
    <2> QED
      BY <2>1 DEF SameIrq, IsSum, NoIrq
  <1>4. SameUnits(c, w) /\ SameTimers(c, w)
    BY DEF Rest, Units, SameUnits, SameTimers
  <1> QED
    BY <1>1, <1>2, <1>3, <1>4 DEF Rest, Units, SameClock

\* Where two loops are, one of which stops in between: together before the stop, or alike after it.
Level(x, y, m, h, k) ==
  \/ x = y /\ x.last_time < m
  \/ x.last_time = m /\ \E j \in Nat : j <= k /\ Rest(h[j], y, 0)

\* A turn of each: the two loops keep level.
LEMMA LevelStays ==
  ASSUME NEW s, Runs(s), NEW m \in Int, NEW end \in Int, s.last_time < m, m < end, end <= Horizon,
         NEW x, NEW y, Went(s, x, m), Went(s, y, end), NEW o, x.last_time = m => o = x,
         NEW p, p = Iteration(x, m), p.last_time = m => o = p,
         NEW q, q = Iteration(y, end), NEW n \in Nat, NEW h, IterationsTo(o, end, n, h), Runs(o),
         o.last_time <= end,
         NEW k \in Nat, k + 1 <= n, Level(x, y, m, h, k)
  PROVE  Level(p, q, m, h, k + 1)
  <1>1. h[0] = o /\ \A j \in Nat : j + 1 <= n => h[j + 1] = Iteration(h[j], end)
    BY TurnIs
  <1>2. Runs(x) /\ x.last_time \in Int /\ NextStepTime(x) \in Int
    BY DEF Went, Runs, Pair, Timed, NextStepTime
  <1>3. CASE x = y /\ x.last_time < m /\ NextStepTime(x) < m
    <2>1. p = q
      BY <1>3, IterationIsTheSame, RunsIsShaped, <1>2
    <2>2. p.last_time # m => p.last_time < m
      <3>1. Runs(p) /\ p.last_time <= m
        <4>1. m <= Horizon
          BY DEF Horizon
        <4> QED
          BY <1>2, <1>3, <4>1, IterationRuns
      <3>2. p.last_time \in Int
        BY <3>1, RunsIsShaped DEF Timed
      <3> QED
        BY <3>1, <3>2
    <2>3. p.last_time # m
      <3>1. PICK a \in Int, d \in Nat : a = x.last_time /\ d = x.frame_delay
        BY <1>2, RunsIsShaped DEF Timed
      <3>2. PICK t \in Int : t = Earlier(a + d, m) /\ t = a + d /\ t < m /\ a < m
        BY <1>3, <3>1 DEF Earlier, NextStepTime
      <3>3. p = FrameStep(Ran(x, t))
        BY <3>1, <3>2, IterationIs
      <3>4. PICK r : r = Ran(x, t)
        OBVIOUS
      <3>5. r.last_time = t /\ Shaped(r)
        <4>1. IsSum(t, t, 0) /\ a <= t /\ t <= NextStepTime(x) /\ t <= Horizon
          BY <3>1, <3>2 DEF IsSum, NextStepTime, Horizon
        <4>2. Pair(r, r, 0) /\ r.last_time = t
          BY <1>2, <3>1, <3>4, <4>1, RanPairs DEF Runs
        <4> QED
          BY <4>2, RunsIsShaped DEF Runs
      <3>6. p.last_time = r.last_time
        BY <3>3, <3>4, <3>5, FrameStepSteps
      <3> QED
        BY <3>2, <3>5, <3>6
    <2> QED
      BY <2>1, <2>2, <2>3 DEF Level
  <1>4. CASE x = y /\ x.last_time < m /\ m <= NextStepTime(x)
    <2>1. PICK u : u = Iteration(p, end)
      OBVIOUS
    <2>2. p.last_time = m /\ Rest(u, q, 0)
      BY <1>2, <1>4, <2>1, IterationSplits
    <2>3. h[1] = u /\ 1 <= k + 1
      <3>1. h[0] = p
        BY <1>1, <2>2
      <3>2. 0 + 1 <= n /\ 0 + 1 = 1
        OBVIOUS
      <3>3. h[0 + 1] = Iteration(h[0], end)
        BY <1>1, <3>2
      <3> QED
        BY <2>1, <3>1, <3>2, <3>3
    <2> QED
      BY <2>2, <2>3 DEF Level
  <1>5. CASE x.last_time = m /\ \E j \in Nat : j <= k /\ Rest(h[j], y, 0)
    <2>1. PICK j \in Nat : j <= k /\ Rest(h[j], y, 0)
      BY <1>5
    <2>2. p = x
      BY <1>5 DEF Iteration
    <2>3. Went(o, h[j], end)
      <3>1. j <= n
        BY <2>1
      <3> QED
        BY <3>1, TurnsRun
    <2>4. Pair(h[j], y, 0)
      BY <2>1, <2>3, PairOf DEF Went
    <2>5. IsSum(end, end, 0)
      BY DEF IsSum
    <2>6. j + 1 <= n /\ j + 1 <= k + 1 /\ j + 1 \in Nat
      BY <2>1
    <2>7. h[j + 1] = Iteration(h[j], end)
      BY <1>1, <2>6
    <2>8. Rest(h[j + 1], q, 0)
      BY <2>3, <2>4, <2>5, <2>7, IterationAlike DEF Went
    <2> QED
      BY <1>5, <2>2, <2>6, <2>8 DEF Level
  <1> QED
    BY <1>2, <1>3, <1>4, <1>5 DEF Level

\* A loop that stops in between does what one that does not does.
LEMMA LoopSplits ==
  ASSUME NEW s, Runs(s), NEW m \in Int, NEW end \in Int, s.last_time <= m, m <= end, end <= Horizon
  PROVE  Rest(Loop(Loop(s, m), end), Loop(s, end), 0)
  <1>0. m <= Horizon /\ s.last_time <= end /\ s.last_time \in Int
    BY RunsIsShaped DEF Horizon, Timed
  <1>1. PICK o : o = Loop(s, m)
    OBVIOUS
  <1>2. Runs(o) /\ o.last_time = m
    BY <1>0, <1>1, LoopGoes DEF Went
  <1>3. CASE s.last_time = m
    <2>1. o = s
      BY <1>1, <1>3, LoopOfNothing
    <2>2. Runs(Loop(s, end))
      BY <1>0, LoopGoes DEF Went
    <2> QED
      BY <1>1, <2>1, <2>2, RunsIsShaped
  <1>4. CASE m = end
    <2>1. Loop(o, end) = o
      BY <1>2, <1>4, LoopOfNothing
    <2> QED
      BY <1>1, <1>2, <1>4, <2>1, RunsIsShaped
  <1>5. CASE s.last_time < m /\ m < end
    <2>1. PICK n1 \in Nat : n1 = TurnsOf(s, m)
      BY <1>0, TurnsOfIsNat, RunsIsShaped
    <2>2. PICK n2 \in Nat : n2 = TurnsOf(s, end)
      BY <1>0, TurnsOfIsNat, RunsIsShaped
    <2>3. PICK n3 \in Nat : n3 = TurnsOf(o, end)
      BY <1>2, TurnsOfIsNat, RunsIsShaped
    <2>4. PICK n \in Nat : n1 <= n /\ n2 <= n /\ n3 <= n
      <3>1. /\ n1 + n2 + n3 \in Nat /\ n1 <= n1 + n2 + n3 /\ n2 <= n1 + n2 + n3
            /\ n3 <= n1 + n2 + n3
        OBVIOUS
      <3> QED
        BY <3>1
    <2>5. PICK f : IterationsTo(s, end, n, f)
      BY IterationsExist
    <2>6. PICK g : IterationsTo(s, m, n, g)
      BY IterationsExist
    <2>7. PICK h : IterationsTo(o, end, n, h)
      BY IterationsExist
    <2>8. Loop(s, end) = f[n] /\ Loop(s, end).last_time = end
      BY <1>0, <2>2, <2>4, <2>5, LoopIs
    <2>9. o = g[n] /\ \A k \in Nat : k <= n /\ g[k].last_time = m => g[k] = o
      BY <1>0, <1>1, <2>1, <2>4, <2>6, LoopIs
    <2>10. \A k \in Nat : k <= n /\ h[k].last_time = end => h[k] = Loop(o, end)
      BY <1>2, <2>3, <2>4, <2>7, LoopIs
    <2>11. f[0] = s /\ \A k \in Nat : k + 1 <= n => f[k + 1] = Iteration(f[k], end)
      BY <2>5, TurnIs
    <2>12. g[0] = s /\ \A k \in Nat : k + 1 <= n => g[k + 1] = Iteration(g[k], m)
      BY <2>6, TurnIs
    <2>13. \A k \in Nat : k <= n => Went(s, f[k], end)
      BY <1>0, <2>5, TurnsRun
    <2>14. \A k \in Nat : k <= n => Went(s, g[k], m)
      BY <1>0, <2>6, TurnsRun
    <2> DEFINE T == {k \in Nat : k <= n => Level(g[k], f[k], m, h, k)}
    <2>15. 0 \in T
      BY <1>5, <2>11, <2>12 DEF Level
    <2>16. ASSUME NEW k \in Nat, k \in T PROVE k + 1 \in T
      <3> SUFFICES ASSUME k + 1 <= n PROVE Level(g[k + 1], f[k + 1], m, h, k + 1)
        OBVIOUS
      <3>1. Level(g[k], f[k], m, h, k) /\ k <= n
        BY <2>16
      <3>2. PICK x : x = g[k]
        OBVIOUS
      <3>3. PICK y : y = f[k]
        OBVIOUS
      <3>4. PICK p : p = g[k + 1] /\ p = Iteration(x, m)
        BY <2>12, <3>2
      <3>5. PICK q : q = f[k + 1] /\ q = Iteration(y, end)
        BY <2>11, <3>3
      <3>6. Went(s, x, m) /\ Went(s, y, end)
        BY <2>13, <2>14, <3>1, <3>2, <3>3
      <3>7. (x.last_time = m => o = x) /\ (p.last_time = m => o = p)
        <4>1. \A i \in Nat : i <= n /\ g[i].last_time = m => g[i] = o
          BY <2>9
        <4>2. k + 1 \in Nat /\ k \in Nat /\ k <= n /\ k + 1 <= n
          BY <3>1
        <4>3. x.last_time = m => o = x
          BY <3>2, <4>1, <4>2
        <4>4. p.last_time = m => o = p
          BY <3>4, <4>1, <4>2
        <4> QED
          BY <4>3, <4>4
      <3>8. Level(x, y, m, h, k)
        BY <3>1, <3>2, <3>3
      <3>9. o.last_time <= end
        BY <1>2
      <3>10. Level(p, q, m, h, k + 1)
        BY <1>2, <1>5, <2>7, <3>4, <3>5, <3>6, <3>7, <3>8, <3>9, LevelStays
      <3> QED
        BY <3>4, <3>5, <3>10
    <2> HIDE DEF T
    <2>17. n \in T
      BY <2>15, <2>16, Induction
    <2>18. Level(o, f[n], m, h, n)
      <3>1. n <= n
        OBVIOUS
      <3> QED
        BY <2>9, <2>17, <3>1 DEF T
    <2>19. PICK j \in Nat : j <= n /\ Rest(h[j], f[n], 0)
      BY <1>2, <2>18 DEF Level
    <2>20. h[j].last_time = end
      <3>1. IsSum(f[n].last_time, h[j].last_time, 0)
        BY <2>19 DEF Rest, SameClock
      <3>2. Runs(h[j])
        BY <1>2, <2>7, <2>19, TurnsRun DEF Went
      <3>3. h[j].last_time \in Int
        BY <3>2, RunsIsShaped DEF Timed
      <3> QED
        BY <2>8, <3>1, <3>3 DEF IsSum
    <2> QED
      BY <1>1, <2>8, <2>10, <2>19, <2>20
  <1> QED
    BY <1>0, <1>3, <1>4, <1>5

-----------------------------------------------------------------------------
(* The DMC: a byte, the end of a byte, and the ends of bytes. *)

\* u is s but for the DMC.
OnlyDmc(s, u) ==
  /\ Formed(u)
  /\ u.regs = s.regs /\ u.written = s.written /\ u.env = s.env
  /\ u.env_delay = s.env_delay /\ u.sweep_delay = s.sweep_delay /\ u.linear = s.linear
  /\ u.last_time = s.last_time /\ u.frame_delay = s.frame_delay
  /\ u.frame_period = s.frame_period /\ u.frame = s.frame /\ u.mode = s.mode
  /\ u.irq_flag = s.irq_flag /\ u.next_irq = s.next_irq /\ u.outputs = s.outputs /\ u.pal = s.pal
  /\ u.phase = s.phase /\ \A i \in 0 .. 3 : u.len[i] = s.len[i] /\ u.delay[i] = s.delay[i]

\* Nor has the DMC moved on.
Played(s, u) == OnlyDmc(s, u) /\ u.delay = s.delay /\ u.last_dmc_time = s.last_dmc_time

\* What leaves the rest of the chip alone, twice over.
LEMMA OnlyDmcChains ==
  ASSUME NEW s, NEW t, NEW u, OnlyDmc(s, t), OnlyDmc(t, u) PROVE OnlyDmc(s, u)
  BY DEF OnlyDmc

\* What the DMC's bytes do, twice over.
LEMMA PlayedChains ==
  ASSUME NEW s, NEW t, NEW u, Played(s, t), Played(t, u) PROVE Played(s, u)
  BY OnlyDmcChains DEF Played

\* A DMC that did nothing.
LEMMA PlayedItself == ASSUME NEW s, Formed(s) PROVE Played(s, s)
  BY DEF Played, OnlyDmc

NextAddress(a) == (a + 1) % 32768

\* A byte is read: one less to come, one address further.
LEMMA ReadBytePlays ==
  ASSUME NEW s, Formed(s), s.len[4] > 0, NEW u, u = ReadByte(s)
  PROVE  /\ Played(s, u) /\ u.enables = s.enables /\ u.earliest = s.earliest
         /\ u.len[4] = s.len[4] - 1
         /\ u.dmc.address = NextAddress(s.dmc.address) /\ u.dmc.buf_full = TRUE
         /\ u.dmc.reads = s.dmc.reads + 1
         /\ u.dmc.period = s.dmc.period /\ u.dmc.bits_remain = s.dmc.bits_remain
         /\ u.dmc.silence = s.dmc.silence /\ u.dmc.next_irq = s.dmc.next_irq
         /\ u.dmc.irq_enabled = s.dmc.irq_enabled /\ u.dmc.irq_flag = s.dmc.irq_flag
  <1>1. PICK d : d = [s.dmc EXCEPT !.address = NextAddress(s.dmc.address), !.buf_full = TRUE,
                                   !.reads = s.dmc.reads + 1]
    OBVIOUS
  <1>2. /\ DOMAIN d = DmcFields
        /\ d.address = NextAddress(s.dmc.address) /\ d.buf_full = TRUE
        /\ d.reads = s.dmc.reads + 1
        /\ d.period = s.dmc.period /\ d.bits_remain = s.dmc.bits_remain
        /\ d.silence = s.dmc.silence /\ d.next_irq = s.dmc.next_irq
        /\ d.irq_enabled = s.dmc.irq_enabled /\ d.irq_flag = s.dmc.irq_flag
    BY <1>1 DEF Formed, Shaped, DmcFields
  <1>3. u = [s EXCEPT !.dmc = d, !.len[4] = @ - 1]
    BY <1>1 DEF ReadByte, NextAddress
  <1>4. PICK n \in Nat : n = s.len[4] - 1
    BY DEF Formed, Shaped, Oscs
  <1>5. /\ DOMAIN u = Fields /\ u.dmc = d /\ u.len = [s.len EXCEPT ![4] = n]
        /\ u.regs = s.regs /\ u.written = s.written /\ u.env = s.env
        /\ u.env_delay = s.env_delay /\ u.sweep_delay = s.sweep_delay /\ u.linear = s.linear
        /\ u.last_time = s.last_time /\ u.frame_delay = s.frame_delay
        /\ u.frame_period = s.frame_period /\ u.frame = s.frame /\ u.mode = s.mode
        /\ u.irq_flag = s.irq_flag /\ u.next_irq = s.next_irq /\ u.outputs = s.outputs
        /\ u.pal = s.pal /\ u.phase = s.phase /\ u.delay = s.delay
        /\ u.last_dmc_time = s.last_dmc_time /\ u.enables = s.enables /\ u.earliest = s.earliest
    BY <1>3, <1>4 DEF Formed, Shaped, Fields
  <1>6. Formed(u) /\ u.len[4] = n /\ \A i \in 0 .. 3 : u.len[i] = s.len[i]
    BY <1>2, <1>4, <1>5 DEF Formed, Shaped, Oscs
  <1> QED
    BY <1>2, <1>4, <1>5, <1>6 DEF Played, OnlyDmc

\* Nes_Dmc::reload_sample(): the sample starts over.
LEMMA ReloadSamplePlays ==
  ASSUME NEW s, Formed(s), NEW u, u = ReloadSample(s)
  PROVE  /\ Played(s, u) /\ u.enables = s.enables /\ u.earliest = s.earliest
         /\ u.len[4] = s.regs[4][3] * 16 + 1
         /\ u.dmc.address = 16384 + s.regs[4][2] * 64 /\ u.dmc.buf_full = s.dmc.buf_full
         /\ u.dmc.reads = s.dmc.reads
         /\ u.dmc.period = s.dmc.period /\ u.dmc.bits_remain = s.dmc.bits_remain
         /\ u.dmc.silence = s.dmc.silence /\ u.dmc.next_irq = s.dmc.next_irq
         /\ u.dmc.irq_enabled = s.dmc.irq_enabled /\ u.dmc.irq_flag = s.dmc.irq_flag
  <1>0. PICK a \in Nat : a = 16384 + s.regs[4][2] * 64
    <2>1. 4 \in Oscs /\ 2 \in 0 .. 3
      BY DEF Oscs
    <2>2. s.regs[4][2] \in 0 .. 255
      BY <2>1, RegisterIsByte
    <2>3. PICK v \in 0 .. 255 : v = s.regs[4][2]
      BY <2>2
    <2>4. 16384 + v * 64 \in Nat
      OBVIOUS
    <2> QED
      BY <2>3, <2>4
  <1>1. PICK d : d = [s.dmc EXCEPT !.address = a]
    OBVIOUS
  <1>2. /\ DOMAIN d = DmcFields
        /\ d.address = a /\ d.buf_full = s.dmc.buf_full
        /\ d.reads = s.dmc.reads
        /\ d.period = s.dmc.period /\ d.bits_remain = s.dmc.bits_remain
        /\ d.silence = s.dmc.silence /\ d.next_irq = s.dmc.next_irq
        /\ d.irq_enabled = s.dmc.irq_enabled /\ d.irq_flag = s.dmc.irq_flag
    BY <1>1 DEF Formed, Shaped, DmcFields
  <1>4. PICK n \in Nat : n = s.regs[4][3] * 16 + 1
    <2>1. 4 \in Oscs /\ 3 \in 0 .. 3
      BY DEF Oscs
    <2>2. s.regs[4][3] \in 0 .. 255
      BY <2>1, RegisterIsByte
    <2>3. PICK v \in 0 .. 255 : v = s.regs[4][3]
      BY <2>2
    <2>4. v * 16 + 1 \in Nat
      OBVIOUS
    <2> QED
      BY <2>3, <2>4
  <1>3. u = [s EXCEPT !.dmc = d, !.len[4] = n]
    BY <1>0, <1>1, <1>4 DEF ReloadSample
  <1>5. /\ DOMAIN u = Fields /\ u.dmc = d /\ u.len = [s.len EXCEPT ![4] = n]
        /\ u.regs = s.regs /\ u.written = s.written /\ u.env = s.env
        /\ u.env_delay = s.env_delay /\ u.sweep_delay = s.sweep_delay /\ u.linear = s.linear
        /\ u.last_time = s.last_time /\ u.frame_delay = s.frame_delay
        /\ u.frame_period = s.frame_period /\ u.frame = s.frame /\ u.mode = s.mode
        /\ u.irq_flag = s.irq_flag /\ u.next_irq = s.next_irq /\ u.outputs = s.outputs
        /\ u.pal = s.pal /\ u.phase = s.phase /\ u.delay = s.delay
        /\ u.last_dmc_time = s.last_dmc_time /\ u.enables = s.enables /\ u.earliest = s.earliest
    BY <1>3 DEF Formed, Shaped, Fields
  <1>6. Formed(u) /\ u.len[4] = n /\ \A i \in 0 .. 3 : u.len[i] = s.len[i]
    BY <1>2, <1>5 DEF Formed, Shaped, Oscs
  <1>7. Played(s, u)
    <2>1. \A i \in 0 .. 3 : u.len[i] = s.len[i] /\ u.delay[i] = s.delay[i]
      BY <1>5, <1>6, Zenon
    <2> QED
      BY <1>5, <1>6, <2>1, Zenon DEF Played, OnlyDmc
  <1> QED
    BY <1>0, <1>2, <1>4, <1>5, <1>6, <1>7

\* What irq_changed() works out.
EarliestOf(flag, raised, next, frame) == IF flag \/ raised THEN 0 ELSE Earlier(next, frame)

\* u is s but for its DMC's fields d, and for what is worked out of them.
Settles(s, u, d, on) ==
  /\ Played(s, u) /\ u.enables = on /\ u.len = s.len /\ u.dmc = d
  /\ u.earliest = EarliestOf(d.irq_flag, s.irq_flag, d.next_irq, s.next_irq)

\* Nes_Apu::irq_changed() sets the earliest IRQ and nothing else.
LEMMA IrqChangedSettles ==
  ASSUME NEW s, Formed(s), NEW d, DOMAIN d = DmcFields, NEW on,
         NEW u, u = IrqChanged([s EXCEPT !.enables = on, !.dmc = d])
  PROVE  Settles(s, u, d, on)
  <1>1. PICK t : t = [s EXCEPT !.enables = on, !.dmc = d]
    OBVIOUS
  <1>2. /\ DOMAIN t = Fields /\ t.dmc = d /\ t.len = s.len
        /\ t.regs = s.regs /\ t.written = s.written /\ t.env = s.env
        /\ t.env_delay = s.env_delay /\ t.sweep_delay = s.sweep_delay /\ t.linear = s.linear
        /\ t.last_time = s.last_time /\ t.frame_delay = s.frame_delay
        /\ t.frame_period = s.frame_period /\ t.frame = s.frame /\ t.mode = s.mode
        /\ t.irq_flag = s.irq_flag /\ t.next_irq = s.next_irq /\ t.outputs = s.outputs
        /\ t.pal = s.pal /\ t.phase = s.phase /\ t.delay = s.delay
        /\ t.last_dmc_time = s.last_dmc_time /\ t.enables = on
    BY <1>1 DEF Formed, Shaped, Fields
  <1>3. u = [t EXCEPT !.earliest = EarliestOf(t.dmc.irq_flag, t.irq_flag, t.dmc.next_irq, t.next_irq)]
    BY <1>1 DEF IrqChanged, EarliestOf
  <1>4. /\ DOMAIN u = Fields /\ u.dmc = d /\ u.len = s.len
        /\ u.regs = s.regs /\ u.written = s.written /\ u.env = s.env
        /\ u.env_delay = s.env_delay /\ u.sweep_delay = s.sweep_delay /\ u.linear = s.linear
        /\ u.last_time = s.last_time /\ u.frame_delay = s.frame_delay
        /\ u.frame_period = s.frame_period /\ u.frame = s.frame /\ u.mode = s.mode
        /\ u.irq_flag = s.irq_flag /\ u.next_irq = s.next_irq /\ u.outputs = s.outputs
        /\ u.pal = s.pal /\ u.phase = s.phase /\ u.delay = s.delay
        /\ u.last_dmc_time = s.last_dmc_time /\ u.enables = on
        /\ u.earliest = EarliestOf(d.irq_flag, s.irq_flag, d.next_irq, s.next_irq)
    BY <1>2, <1>3 DEF Fields
  <1>5. Formed(u)
    BY <1>4 DEF Formed, Shaped
  <1> QED
    BY <1>4, <1>5 DEF Settles, Played, OnlyDmc

\* The last byte of a sample that does not loop: the channel is off, its IRQ may be
\* raised.
LEMMA EndSampleSettles ==
  ASSUME NEW s, Formed(s), NEW u, u = EndSample(s)
  PROVE  \E d : /\ Settles(s, u, d, s.enables \ {4})
                /\ d.address = s.dmc.address /\ d.buf_full = s.dmc.buf_full
                /\ d.reads = s.dmc.reads
                /\ d.period = s.dmc.period /\ d.bits_remain = s.dmc.bits_remain
                /\ d.silence = s.dmc.silence /\ d.next_irq = NoIrq
                /\ d.irq_enabled = s.dmc.irq_enabled /\ d.irq_flag = s.dmc.irq_enabled
  <1>1. PICK d : d = [s.dmc EXCEPT !.irq_flag = s.dmc.irq_enabled, !.next_irq = NoIrq]
    OBVIOUS
  <1>2. /\ DOMAIN d = DmcFields
        /\ d.address = s.dmc.address /\ d.buf_full = s.dmc.buf_full
        /\ d.reads = s.dmc.reads
        /\ d.period = s.dmc.period /\ d.bits_remain = s.dmc.bits_remain
        /\ d.silence = s.dmc.silence /\ d.next_irq = NoIrq
        /\ d.irq_enabled = s.dmc.irq_enabled /\ d.irq_flag = s.dmc.irq_enabled
    BY <1>1 DEF Formed, Shaped, DmcFields
  <1>3. PICK on : on = s.enables \ {4}
    OBVIOUS
  <1>4. u = IrqChanged([s EXCEPT !.enables = on, !.dmc = d])
    BY <1>1, <1>3 DEF EndSample
  <1>5. Settles(s, u, d, on)
    BY <1>2, <1>4, IrqChangedSettles
  <1> QED
    BY <1>2, <1>3, <1>5

\* Two times that a question at time t cannot tell apart: both past, or b apart.
Due(c, w, b, t) ==
  (c \in Int /\ w \in Int /\ c + b <= t /\ w <= t) \/ SameIrq(c, w, b)

\* What is past stays past.
LEMMA DueLater ==
  ASSUME NEW c, NEW w, NEW b \in Int, NEW t \in Int, NEW e \in Int, t <= e, Due(c, w, b, t)
  PROVE  Due(c, w, b, e)
  <1>1. CASE SameIrq(c, w, b)
    BY <1>1 DEF Due
  <1>2. CASE c \in Int /\ w \in Int /\ c + b <= t /\ w <= t
    <2>1. c + b <= e /\ w <= e
      BY <1>2
    <2> QED
      BY <1>2, <2>1 DEF Due
  <1> QED
    BY <1>1, <1>2 DEF Due

\* IRQs no clocks apart are the same.
LEMMA SameIrqOfNothing == ASSUME NEW x, NEW w, SameIrq(x, w, 0) PROVE w = x
  <1>1. CASE w = NoIrq
    BY <1>1 DEF SameIrq
  <1>2. CASE w # NoIrq
    BY <1>2 DEF SameIrq, IsSum
  <1> QED
    BY <1>1, <1>2

\* Two times like a third.
LEMMA DueChains ==
  ASSUME NEW c, NEW x, NEW w, NEW b \in Int, NEW t \in Int, t <= Horizon, Due(c, x, b, t), Due(x, w, 0, t)
  PROVE  Due(c, w, b, t)
  <1>1. CASE SameIrq(x, w, 0)
    BY <1>1, SameIrqOfNothing
  <1>2. CASE x \in Int /\ w \in Int /\ x + 0 <= t /\ w <= t
    <2>1. CASE SameIrq(c, x, b)
      <3>1. x < NoIrq
        BY <1>2 DEF Horizon, NoIrq
      <3>2. x # NoIrq
        BY <1>2, <3>1
      <3>3. c \in Int /\ IsSum(x, c, b)
        BY <2>1, <3>2 DEF SameIrq
      <3>4. c + b <= t
        BY <1>2, <3>3 DEF IsSum
      <3> QED
        BY <1>2, <3>3, <3>4 DEF Due
    <2>2. CASE c \in Int /\ x \in Int /\ c + b <= t /\ x <= t
      BY <1>2, <2>2 DEF Due
    <2> QED
      BY <2>1, <2>2 DEF Due
  <1> QED
    BY <1>1, <1>2 DEF Due

\* The earlier of two IRQs.
LEMMA EarlierAlike ==
  ASSUME NEW c, NEW w, NEW d, NEW v, NEW b \in Nat, SameIrq(c, w, b), SameIrq(d, v, b)
  PROVE  SameIrq(Earlier(c, d), Earlier(w, v), b)
  BY DEF SameIrq, IsSum, NoIrq, Earlier

\* No IRQ in either chip.
LEMMA NoIrqAlike == ASSUME NEW b PROVE SameIrq(NoIrq, NoIrq, b)
  BY DEF SameIrq

\* The earliest IRQ, of the sequencer's and the DMC's.
LEMMA EarliestAlike ==
  ASSUME NEW flag, NEW on, NEW c, NEW w, NEW d, NEW v, NEW b \in Nat, NEW t \in Int, b <= t,
         SameIrq(c, w, b), SameIrq(d, v, b)
  PROVE  Due(EarliestOf(flag, on, c, d), EarliestOf(flag, on, w, v), b, t)
  <1>1. CASE flag \/ on
    BY <1>1 DEF EarliestOf, Due
  <1>2. CASE ~(flag \/ on)
    BY <1>2, EarlierAlike DEF EarliestOf, Due
  <1> QED
    BY <1>1, <1>2

\* What the sequencer has worked out, seen by the DMC: unless the first chip's IRQ is raised.
SameWait(c, w, b, t) ==
  c.irq_flag \/ /\ ~w.irq_flag /\ SameIrq(c.next_irq, w.next_irq, b)
                /\ Due(c.earliest, w.earliest, b, t)

\* The two DMCs play the same bytes.
Bytes(c, w, b, t) ==
  /\ Formed(c) /\ Formed(w)
  /\ c.dmc.address = w.dmc.address /\ c.dmc.period = w.dmc.period
  /\ c.dmc.buf_full = w.dmc.buf_full /\ c.dmc.silence = w.dmc.silence
  /\ c.dmc.irq_enabled = w.dmc.irq_enabled /\ c.dmc.irq_flag = w.dmc.irq_flag
  /\ c.dmc.reads = w.dmc.reads /\ SameIrq(c.dmc.next_irq, w.dmc.next_irq, b)
  /\ c.len[4] = w.len[4] /\ c.regs[4] = w.regs[4] /\ c.enables = w.enables
  /\ c.outputs = w.outputs /\ c.pal = w.pal
  /\ w.dmc.silence \in BOOLEAN /\ (4 \notin w.outputs => w.dmc.silence = TRUE)
  /\ SameWait(c, w, b, t)

Both(c, w, b, t, d, v) == Played(c, d) /\ Played(w, v) /\ Bytes(d, v, b, t)

\* What was done to both DMCs, twice over.
LEMMA BothChains ==
  ASSUME NEW c, NEW w, NEW b, NEW t, NEW d, NEW v, NEW e, NEW x,
         Both(c, w, b, t, d, v), Both(d, v, b, t, e, x)
  PROVE  Both(c, w, b, t, e, x)
  BY PlayedChains DEF Both

\* A byte is read by both.
LEMMA ReadByteAlike ==
  ASSUME NEW c, NEW w, NEW b, NEW t, Bytes(c, w, b, t), c.len[4] > 0,
         NEW d, d = ReadByte(c), NEW v, v = ReadByte(w)
  PROVE  Both(c, w, b, t, d, v)
  <1>1. Formed(c) /\ Formed(w) /\ w.len[4] > 0
    BY DEF Bytes
  <1>2. /\ Played(c, d) /\ d.enables = c.enables /\ d.earliest = c.earliest
        /\ d.len[4] = c.len[4] - 1
        /\ d.dmc.address = NextAddress(c.dmc.address) /\ d.dmc.buf_full = TRUE
        /\ d.dmc.reads = c.dmc.reads + 1
        /\ d.dmc.period = c.dmc.period
        /\ d.dmc.silence = c.dmc.silence /\ d.dmc.next_irq = c.dmc.next_irq
        /\ d.dmc.irq_enabled = c.dmc.irq_enabled /\ d.dmc.irq_flag = c.dmc.irq_flag
    BY <1>1, ReadBytePlays
  <1>3. /\ Played(w, v) /\ v.enables = w.enables /\ v.earliest = w.earliest
        /\ v.len[4] = w.len[4] - 1
        /\ v.dmc.address = NextAddress(w.dmc.address) /\ v.dmc.buf_full = TRUE
        /\ v.dmc.reads = w.dmc.reads + 1
        /\ v.dmc.period = w.dmc.period
        /\ v.dmc.silence = w.dmc.silence /\ v.dmc.next_irq = w.dmc.next_irq
        /\ v.dmc.irq_enabled = w.dmc.irq_enabled /\ v.dmc.irq_flag = w.dmc.irq_flag
    BY <1>1, ReadBytePlays
  <1>4. SameWait(d, v, b, t)
    BY <1>2, <1>3 DEF Bytes, SameWait, Played, OnlyDmc
  <1>5. Formed(d) /\ Formed(v) /\ d.regs = c.regs /\ v.regs = w.regs /\ d.outputs = c.outputs
        /\ v.outputs = w.outputs /\ d.pal = c.pal /\ v.pal = w.pal
    BY <1>2, <1>3 DEF Played, OnlyDmc
  <1>6. d.len[4] = v.len[4] /\ d.dmc.address = v.dmc.address /\ d.dmc.reads = v.dmc.reads
    <2>1. c.len[4] = w.len[4] /\ c.dmc.address = w.dmc.address /\ c.dmc.reads = w.dmc.reads
      BY DEF Bytes
    <2> QED
      BY <1>2, <1>3, <2>1
  <1>7. Bytes(d, v, b, t)
    BY <1>2, <1>3, <1>4, <1>5, <1>6 DEF Bytes
  <1> QED
    BY <1>2, <1>3, <1>7 DEF Both

\* The sample of both starts over.
LEMMA ReloadSampleAlike ==
  ASSUME NEW c, NEW w, NEW b, NEW t, Bytes(c, w, b, t),
         NEW d, d = ReloadSample(c), NEW v, v = ReloadSample(w)
  PROVE  Both(c, w, b, t, d, v)
  <1>1. Formed(c) /\ Formed(w)
    BY DEF Bytes
  <1>2. /\ Played(c, d) /\ d.enables = c.enables /\ d.earliest = c.earliest
        /\ d.len[4] = c.regs[4][3] * 16 + 1
        /\ d.dmc.address = 16384 + c.regs[4][2] * 64 /\ d.dmc.buf_full = c.dmc.buf_full
        /\ d.dmc.reads = c.dmc.reads
        /\ d.dmc.period = c.dmc.period
        /\ d.dmc.silence = c.dmc.silence /\ d.dmc.next_irq = c.dmc.next_irq
        /\ d.dmc.irq_enabled = c.dmc.irq_enabled /\ d.dmc.irq_flag = c.dmc.irq_flag
    BY <1>1, ReloadSamplePlays
  <1>3. /\ Played(w, v) /\ v.enables = w.enables /\ v.earliest = w.earliest
        /\ v.len[4] = w.regs[4][3] * 16 + 1
        /\ v.dmc.address = 16384 + w.regs[4][2] * 64 /\ v.dmc.buf_full = w.dmc.buf_full
        /\ v.dmc.reads = w.dmc.reads
        /\ v.dmc.period = w.dmc.period
        /\ v.dmc.silence = w.dmc.silence /\ v.dmc.next_irq = w.dmc.next_irq
        /\ v.dmc.irq_enabled = w.dmc.irq_enabled /\ v.dmc.irq_flag = w.dmc.irq_flag
    BY <1>1, ReloadSamplePlays
  <1>4. SameWait(d, v, b, t)
    BY <1>2, <1>3 DEF Bytes, SameWait, Played, OnlyDmc
  <1> QED
    BY <1>2, <1>3, <1>4 DEF Bytes, Both, Played, OnlyDmc

\* What is worked out of like fields.
LEMMA SettlesAlike ==
  ASSUME NEW c, NEW w, NEW b \in Nat, NEW t \in Int, b <= t, SameWait(c, w, b, t),
         NEW p, NEW q, p.irq_flag = q.irq_flag, SameIrq(p.next_irq, q.next_irq, b),
         NEW on, NEW d, Settles(c, d, p, on), NEW v, Settles(w, v, q, on)
  PROVE  SameWait(d, v, b, t)
  <1>1. d.irq_flag = c.irq_flag /\ d.next_irq = c.next_irq /\ v.irq_flag = w.irq_flag
        /\ v.next_irq = w.next_irq
    BY DEF Settles, Played, OnlyDmc
  <1>2. CASE c.irq_flag
    BY <1>1, <1>2 DEF SameWait
  <1>3. CASE ~c.irq_flag /\ ~w.irq_flag /\ SameIrq(c.next_irq, w.next_irq, b)
    <2>1. d.earliest = EarliestOf(p.irq_flag, FALSE, p.next_irq, c.next_irq)
      BY <1>3 DEF Settles, EarliestOf
    <2>2. v.earliest = EarliestOf(p.irq_flag, FALSE, q.next_irq, w.next_irq)
      BY <1>3 DEF Settles, EarliestOf
    <2>3. Due(d.earliest, v.earliest, b, t)
      BY <1>3, <2>1, <2>2, EarliestAlike
    <2> QED
      BY <1>1, <1>3, <2>3 DEF SameWait
  <1> QED
    BY <1>2, <1>3 DEF SameWait

\* The last byte of both.
LEMMA EndSampleAlike ==
  ASSUME NEW c, NEW w, NEW b \in Nat, NEW t \in Int, b <= t, Bytes(c, w, b, t),
         NEW d, d = EndSample(c), NEW v, v = EndSample(w)
  PROVE  Both(c, w, b, t, d, v)
  <1>1. Formed(c) /\ Formed(w) /\ c.enables = w.enables
    BY DEF Bytes
  <1>2. PICK p : /\ Settles(c, d, p, c.enables \ {4})
                 /\ p.address = c.dmc.address /\ p.buf_full = c.dmc.buf_full
                 /\ p.reads = c.dmc.reads
                 /\ p.period = c.dmc.period /\ p.bits_remain = c.dmc.bits_remain
                 /\ p.silence = c.dmc.silence /\ p.next_irq = NoIrq
                 /\ p.irq_enabled = c.dmc.irq_enabled /\ p.irq_flag = c.dmc.irq_enabled
    BY <1>1, EndSampleSettles
  <1>3. PICK q : /\ Settles(w, v, q, w.enables \ {4})
                 /\ q.address = w.dmc.address /\ q.buf_full = w.dmc.buf_full
                 /\ q.reads = w.dmc.reads
                 /\ q.period = w.dmc.period /\ q.bits_remain = w.dmc.bits_remain
                 /\ q.silence = w.dmc.silence /\ q.next_irq = NoIrq
                 /\ q.irq_enabled = w.dmc.irq_enabled /\ q.irq_flag = w.dmc.irq_enabled
    BY <1>1, EndSampleSettles
  <1>4. PICK on : on = c.enables \ {4} /\ on = w.enables \ {4}
    BY <1>1
  <1>5. Settles(c, d, p, on) /\ Settles(w, v, q, on)
    BY <1>2, <1>3, <1>4
  <1>6. SameIrq(p.next_irq, q.next_irq, b) /\ p.irq_flag = q.irq_flag
    BY <1>2, <1>3, NoIrqAlike DEF Bytes
  <1>7. SameWait(c, w, b, t)
    BY DEF Bytes
  <1>8. SameWait(d, v, b, t)
    BY <1>5, <1>6, <1>7, SettlesAlike
  <1>9. /\ Played(c, d) /\ d.enables = on /\ d.len = c.len /\ d.dmc = p
        /\ Played(w, v) /\ v.enables = on /\ v.len = w.len /\ v.dmc = q
    BY <1>5 DEF Settles
  <1>10. Formed(d) /\ Formed(v) /\ d.regs = c.regs /\ v.regs = w.regs /\ d.outputs = c.outputs
         /\ v.outputs = w.outputs /\ d.pal = c.pal /\ v.pal = w.pal
    BY <1>9 DEF Played, OnlyDmc
  <1>11. Bytes(d, v, b, t)
    BY <1>2, <1>3, <1>6, <1>8, <1>9, <1>10 DEF Bytes
  <1> QED
    BY <1>9, <1>11 DEF Both

\* Nes_Dmc::fill_buffer().
LEMMA FillBufferAlike ==
  ASSUME NEW c, NEW w, NEW b \in Nat, NEW t \in Int, b <= t, Bytes(c, w, b, t),
         NEW d, d = FillBuffer(c), NEW v, v = FillBuffer(w)
  PROVE  Both(c, w, b, t, d, v)
  <1>1. /\ c.dmc.buf_full = w.dmc.buf_full /\ c.len[4] = w.len[4] /\ Formed(c) /\ Formed(w)
        /\ (Loops(c) <=> Loops(w))
    BY DEF Bytes, Loops
  <1>2. CASE c.dmc.buf_full \/ c.len[4] = 0
    <2>1. d = c /\ v = w
      BY <1>1, <1>2 DEF FillBuffer
    <2> QED
      BY <1>1, <2>1, PlayedItself DEF Both
  <1>3. CASE ~c.dmc.buf_full /\ c.len[4] # 0
    <2>1. PICK d1, v1 : d1 = ReadByte(c) /\ v1 = ReadByte(w)
      OBVIOUS
    <2>2. c.len[4] > 0
      BY <1>1, <1>3 DEF Formed, Shaped, Oscs
    <2>3. Both(c, w, b, t, d1, v1)
      BY <2>1, <2>2, ReadByteAlike
    <2>4. CASE c.len[4] > 1
      BY <1>1, <1>3, <2>1, <2>3, <2>4 DEF FillBuffer
    <2>5. CASE ~(c.len[4] > 1) /\ Loops(c)
      <3>1. d = ReloadSample(d1) /\ v = ReloadSample(v1)
        BY <1>1, <1>3, <2>1, <2>5 DEF FillBuffer
      <3>2. Both(d1, v1, b, t, d, v)
        BY <2>3, <3>1, ReloadSampleAlike DEF Both
      <3> QED
        BY <2>3, <3>2, BothChains
    <2>6. CASE ~(c.len[4] > 1) /\ ~Loops(c)
      <3>1. d = EndSample(d1) /\ v = EndSample(v1)
        BY <1>1, <1>3, <2>1, <2>6 DEF FillBuffer
      <3>2. Both(d1, v1, b, t, d, v)
        BY <2>3, <3>1, EndSampleAlike DEF Both
      <3> QED
        BY <2>3, <3>2, BothChains
    <2> QED
      BY <2>4, <2>5, <2>6
  <1> QED
    BY <1>2, <1>3

\* The DMC's fields of s become d.
LEMMA DmcSet ==
  ASSUME NEW s, Formed(s), NEW d, DOMAIN d = DmcFields, NEW u, u = [s EXCEPT !.dmc = d]
  PROVE  /\ Played(s, u) /\ u.enables = s.enables /\ u.earliest = s.earliest /\ u.len = s.len
         /\ u.dmc = d
  <1>4. /\ DOMAIN u = Fields /\ u.dmc = d /\ u.len = s.len
        /\ u.regs = s.regs /\ u.written = s.written /\ u.env = s.env
        /\ u.env_delay = s.env_delay /\ u.sweep_delay = s.sweep_delay /\ u.linear = s.linear
        /\ u.last_time = s.last_time /\ u.frame_delay = s.frame_delay
        /\ u.frame_period = s.frame_period /\ u.frame = s.frame /\ u.mode = s.mode
        /\ u.irq_flag = s.irq_flag /\ u.next_irq = s.next_irq /\ u.outputs = s.outputs
        /\ u.pal = s.pal /\ u.phase = s.phase /\ u.delay = s.delay
        /\ u.last_dmc_time = s.last_dmc_time /\ u.enables = s.enables /\ u.earliest = s.earliest
    BY DEF Formed, Shaped, Fields
  <1>5. Formed(u)
    BY <1>4 DEF Formed, Shaped
  <1> QED
    BY <1>4, <1>5 DEF Played, OnlyDmc

\* Only the fields of the DMC matter.
LEMMA DmcSetAlike ==
  ASSUME NEW c, NEW w, NEW b, NEW t, Bytes(c, w, b, t), NEW p, NEW q,
         DOMAIN p = DmcFields, DOMAIN q = DmcFields,
         p.address = q.address, p.period = q.period, p.buf_full = q.buf_full,
         p.silence = q.silence, p.irq_enabled = q.irq_enabled, p.irq_flag = q.irq_flag,
         p.reads = q.reads, SameIrq(p.next_irq, q.next_irq, b),
         q.silence \in BOOLEAN, 4 \notin w.outputs => q.silence = TRUE,
         NEW d, d = [c EXCEPT !.dmc = p], NEW v, v = [w EXCEPT !.dmc = q]
  PROVE  Both(c, w, b, t, d, v)
  <1>1. /\ Played(c, d) /\ d.enables = c.enables /\ d.earliest = c.earliest /\ d.len = c.len
        /\ d.dmc = p
    BY DmcSet DEF Bytes
  <1>2. /\ Played(w, v) /\ v.enables = w.enables /\ v.earliest = w.earliest /\ v.len = w.len
        /\ v.dmc = q
    BY DmcSet DEF Bytes
  <1>3. SameWait(d, v, b, t)
    BY <1>1, <1>2 DEF Bytes, SameWait, Played, OnlyDmc
  <1> QED
    BY <1>1, <1>2, <1>3 DEF Bytes, Both, Played, OnlyDmc

\* The end of a byte: the next is played, or silence.
LEMMA ByteEndAlike ==
  ASSUME NEW c, NEW w, NEW b \in Nat, NEW t \in Int, b <= t, Bytes(c, w, b, t),
         NEW d, d = ByteEnd(c), NEW v, v = ByteEnd(w)
  PROVE  Both(c, w, b, t, d, v)
  <1>1. /\ c.dmc.buf_full = w.dmc.buf_full /\ Formed(c) /\ Formed(w) /\ c.outputs = w.outputs
        /\ DOMAIN c.dmc = DmcFields /\ DOMAIN w.dmc = DmcFields
    BY DEF Bytes, Formed, Shaped
  <1>2. CASE ~c.dmc.buf_full
    <2>1. PICK p : p = [c.dmc EXCEPT !.bits_remain = 8, !.silence = TRUE]
      OBVIOUS
    <2>2. PICK q : q = [w.dmc EXCEPT !.bits_remain = 8, !.silence = TRUE]
      OBVIOUS
    <2>3. d = [c EXCEPT !.dmc = p] /\ v = [w EXCEPT !.dmc = q]
      BY <1>1, <1>2, <2>1, <2>2 DEF ByteEnd
    <2>4. /\ DOMAIN p = DmcFields /\ DOMAIN q = DmcFields
          /\ p.address = q.address /\ p.period = q.period /\ p.buf_full = q.buf_full
          /\ p.silence = TRUE /\ q.silence = TRUE
          /\ p.irq_enabled = q.irq_enabled /\ p.irq_flag = q.irq_flag
          /\ p.reads = q.reads /\ p.next_irq = c.dmc.next_irq /\ q.next_irq = w.dmc.next_irq
      BY <1>1, <2>1, <2>2 DEF DmcFields, Bytes
    <2>5. SameIrq(p.next_irq, q.next_irq, b)
      BY <2>4 DEF Bytes
    <2> QED
      BY <2>3, <2>4, <2>5, DmcSetAlike
  <1>3. CASE c.dmc.buf_full
    <2>0. PICK on : on = (4 \notin c.outputs) /\ on = (4 \notin w.outputs)
      BY <1>1
    <2>1. PICK p : p = [c.dmc EXCEPT !.bits_remain = 8, !.buf_full = FALSE, !.silence = on]
      OBVIOUS
    <2>2. PICK q : q = [w.dmc EXCEPT !.bits_remain = 8, !.buf_full = FALSE, !.silence = on]
      OBVIOUS
    <2>3. PICK x : x = [c EXCEPT !.dmc = p]
      OBVIOUS
    <2>4. PICK y : y = [w EXCEPT !.dmc = q]
      OBVIOUS
    <2>5. d = FillBuffer(x) /\ v = FillBuffer(y)
      BY <1>1, <1>3, <2>0, <2>1, <2>2, <2>3, <2>4 DEF ByteEnd
    <2>6. /\ DOMAIN p = DmcFields /\ DOMAIN q = DmcFields
          /\ p.address = q.address /\ p.period = q.period /\ p.buf_full = q.buf_full
          /\ p.silence = on /\ q.silence = on
          /\ p.irq_enabled = q.irq_enabled /\ p.irq_flag = q.irq_flag
          /\ p.reads = q.reads /\ p.next_irq = c.dmc.next_irq /\ q.next_irq = w.dmc.next_irq
      BY <1>1, <2>1, <2>2 DEF DmcFields, Bytes
    <2>7. SameIrq(p.next_irq, q.next_irq, b)
      BY <2>6 DEF Bytes
    <2>8. q.silence \in BOOLEAN /\ (4 \notin w.outputs => q.silence = TRUE)
      BY <2>0, <2>6
    <2>9. Both(c, w, b, t, x, y)
      BY <2>3, <2>4, <2>6, <2>7, <2>8, DmcSetAlike
    <2>10. Both(x, y, b, t, d, v)
      BY <2>5, <2>9, FillBufferAlike DEF Both
    <2> QED
      BY <2>9, <2>10, BothChains
  <1> QED
    BY <1>2, <1>3

\* A byte that is read ahead is the DMC's business alone.
LEMMA FillBufferPlays ==
  ASSUME NEW s, Formed(s), NEW u, u = FillBuffer(s) PROVE Played(s, u)
  <1>1. CASE s.dmc.buf_full \/ s.len[4] = 0
    BY <1>1, PlayedItself DEF FillBuffer
  <1>2. CASE ~(s.dmc.buf_full \/ s.len[4] = 0)
    <2>1. PICK t : t = ReadByte(s)
      OBVIOUS
    <2>2. s.len[4] > 0
      BY <1>2 DEF Formed, Shaped, Oscs
    <2>3. Played(s, t) /\ Formed(t)
      <3>1. Played(s, ReadByte(s))
        <4>1. PICK x : x = ReadByte(s)
          OBVIOUS
        <4>2. /\ Played(s, x) /\ x.enables = s.enables /\ x.earliest = s.earliest
              /\ x.len[4] = s.len[4] - 1
          BY <2>2, <4>1, ReadBytePlays
        <4> QED
          BY <4>1, <4>2
      <3> QED
        BY <2>1, <3>1 DEF Played, OnlyDmc
    <2>4. Played(t, ReloadSample(t))
      BY <2>3, ReloadSamplePlays
    <2>5. Played(t, EndSample(t))
      BY <2>3, EndSampleSettles DEF Settles
    <2>6. u = t \/ u = ReloadSample(t) \/ u = EndSample(t)
      BY <1>2, <2>1 DEF FillBuffer
    <2> QED
      BY <2>3, <2>4, <2>5, <2>6, PlayedChains
  <1> QED
    BY <1>1, <1>2

\* So is the end of a byte.
LEMMA ByteEndPlays ==
  ASSUME NEW s, Formed(s), NEW u, u = ByteEnd(s) PROVE Played(s, u)
  <1>1. DOMAIN s.dmc = DmcFields
    BY DEF Formed, Shaped
  <1>2. CASE ~s.dmc.buf_full
    <2>1. PICK p : p = [s.dmc EXCEPT !.bits_remain = 8, !.silence = TRUE]
      OBVIOUS
    <2>2. u = [s EXCEPT !.dmc = p] /\ DOMAIN p = DmcFields
      BY <1>1, <1>2, <2>1 DEF ByteEnd
    <2> QED
      BY <2>2, DmcSet
  <1>3. CASE s.dmc.buf_full
    <2>0. PICK on : on = (4 \notin s.outputs)
      OBVIOUS
    <2>1. PICK p : p = [s.dmc EXCEPT !.bits_remain = 8, !.buf_full = FALSE, !.silence = on]
      OBVIOUS
    <2>3. PICK x : x = [s EXCEPT !.dmc = p]
      OBVIOUS
    <2>4. u = FillBuffer(x) /\ DOMAIN p = DmcFields
      BY <1>1, <1>3, <2>0, <2>1, <2>3 DEF ByteEnd
    <2>5. Played(s, x) /\ Formed(x)
      BY <2>3, <2>4, DmcSet DEF Played, OnlyDmc
    <2> QED
      BY <2>4, <2>5, FillBufferPlays, PlayedChains
  <1> QED
    BY <1>2, <1>3

\* The ends of bytes, one by one.
ByteEndsOf(s, n) == Repeat(ByteEnd, s, n)

\* Each end follows the one before.
LEMMA ByteEndIs ==
  ASSUME NEW s, NEW n \in Nat, NEW f, ByteEndsTo(s, n, f)
  PROVE  f[0] = s /\ \A k \in Nat : k + 1 <= n => f[k + 1] = ByteEnd(f[k])
  <1>8. \A j \in 0 .. n : f[j] = IF j = 0 THEN s ELSE ByteEnd(f[j - 1])
    BY Zenon DEF ByteEndsTo
  <1>1. ASSUME NEW k \in Nat, k + 1 <= n PROVE f[k + 1] = ByteEnd(f[k])
    <2>1. k + 1 \in 0 .. n /\ k + 1 # 0 /\ k + 1 - 1 = k
      BY <1>1
    <2>2. f[k + 1] = IF k + 1 = 0 THEN s ELSE ByteEnd(f[k + 1 - 1])
      BY <1>8, <2>1
    <2> QED
      BY <2>1, <2>2, Zenon
  <1>2. f[0] = s
    <2>1. 0 \in 0 .. n
      OBVIOUS
    <2> QED
      BY <1>8, <2>1
  <1> QED
    BY <1>1, <1>2

\* The ends of n bytes are n ends.
LEMMA ByteEndsAre ==
  ASSUME NEW s, NEW n \in Nat
  PROVE  \E f : ByteEndsTo(s, n, f) /\ ByteEndsOf(s, n) = f[n]
  <1>1. ByteEndsOf(s, n) = (CHOOSE f : ByteEndsTo(s, n, f))[n]
    BY Zenon DEF ByteEndsOf, Repeat, ByteEndsTo
  <1>2. PICK f : f = (CHOOSE g : ByteEndsTo(s, n, g)) /\ ByteEndsTo(s, n, f)
    BY ByteEndsExist
  <1> QED
    BY <1>1, <1>2

\* They are the DMC's business alone.
LEMMA ByteEndsPlay ==
  ASSUME NEW s, Formed(s), NEW n \in Nat PROVE Played(s, ByteEndsOf(s, n))
  <1>1. PICK f : ByteEndsTo(s, n, f) /\ ByteEndsOf(s, n) = f[n]
    BY ByteEndsAre
  <1>2. f[0] = s /\ \A k \in Nat : k + 1 <= n => f[k + 1] = ByteEnd(f[k])
    BY <1>1, ByteEndIs
  <1> DEFINE T == {k \in Nat : k <= n => Played(s, f[k])}
  <1>3. 0 \in T
    BY <1>2, PlayedItself
  <1>4. ASSUME NEW k \in Nat, k \in T PROVE k + 1 \in T
    <2> SUFFICES ASSUME k + 1 <= n PROVE Played(s, f[k + 1])
      OBVIOUS
    <2>1. Played(s, f[k]) /\ Formed(f[k])
      <3>1. k <= n
        OBVIOUS
      <3> QED
        BY <1>4, <3>1 DEF Played, OnlyDmc
    <2>2. f[k + 1] = ByteEnd(f[k])
      BY <1>2
    <2> QED
      BY <2>1, <2>2, ByteEndPlays, PlayedChains
  <1> HIDE DEF T
  <1>5. n \in T
    BY <1>3, <1>4, Induction
  <1>6. n <= n
    OBVIOUS
  <1> QED
    BY <1>1, <1>5, <1>6 DEF T

\* As many ends in both.
LEMMA ByteEndsAlike ==
  ASSUME NEW c, NEW w, NEW b \in Nat, NEW t \in Int, b <= t, Bytes(c, w, b, t), NEW n \in Nat
  PROVE  Both(c, w, b, t, ByteEndsOf(c, n), ByteEndsOf(w, n))
  <1>1. PICK f : ByteEndsTo(c, n, f) /\ ByteEndsOf(c, n) = f[n]
    BY ByteEndsAre
  <1>2. f[0] = c /\ \A k \in Nat : k + 1 <= n => f[k + 1] = ByteEnd(f[k])
    BY <1>1, ByteEndIs
  <1>3. PICK g : ByteEndsTo(w, n, g) /\ ByteEndsOf(w, n) = g[n]
    BY ByteEndsAre
  <1>4. g[0] = w /\ \A k \in Nat : k + 1 <= n => g[k + 1] = ByteEnd(g[k])
    BY <1>3, ByteEndIs
  <1> DEFINE T == {k \in Nat : k <= n => Both(c, w, b, t, f[k], g[k])}
  <1>5. 0 \in T
    BY <1>2, <1>4, PlayedItself DEF Both, Bytes
  <1>6. ASSUME NEW k \in Nat, k \in T PROVE k + 1 \in T
    <2> SUFFICES ASSUME k + 1 <= n PROVE Both(c, w, b, t, f[k + 1], g[k + 1])
      OBVIOUS
    <2>1. Both(c, w, b, t, f[k], g[k])
      <3>1. k <= n
        OBVIOUS
      <3> QED
        BY <1>6, <3>1
    <2>2. f[k + 1] = ByteEnd(f[k]) /\ g[k + 1] = ByteEnd(g[k])
      BY <1>2, <1>4
    <2>3. Both(f[k], g[k], b, t, f[k + 1], g[k + 1])
      BY <2>1, <2>2, ByteEndAlike DEF Both
    <2> QED
      BY <2>1, <2>3, BothChains
  <1> HIDE DEF T
  <1>7. n \in T
    BY <1>5, <1>6, Induction
  <1>8. n <= n
    OBVIOUS
  <1> QED
    BY <1>1, <1>3, <1>7, <1>8 DEF T

\* The ends of n bytes and of m more are those of n + m.
LEMMA ByteEndsAdd ==
  ASSUME NEW s, NEW n \in Nat, NEW m \in Nat, NEW z \in Nat, IsSum(z, n, m)
  PROVE  ByteEndsOf(s, z) = ByteEndsOf(ByteEndsOf(s, n), m)
  <1>0. z = n + m
    BY DEF IsSum
  <1>1. PICK f : ByteEndsTo(s, z, f) /\ ByteEndsOf(s, z) = f[z]
    BY ByteEndsAre
  <1>2. f[0] = s /\ \A k \in Nat : k + 1 <= z => f[k + 1] = ByteEnd(f[k])
    BY <1>1, ByteEndIs
  <1>3. PICK g : ByteEndsTo(s, n, g) /\ ByteEndsOf(s, n) = g[n]
    BY ByteEndsAre
  <1>17. ByteEndsTo(s, n, g)
    BY <1>3
  <1>4. g[0] = s /\ \A k \in Nat : k + 1 <= n => g[k + 1] = ByteEnd(g[k])
    BY <1>17, ByteEndIs
  <1>5. PICK x : x = ByteEndsOf(s, n)
    OBVIOUS
  <1>16. \E h : ByteEndsTo(x, m, h) /\ ByteEndsOf(x, m) = h[m]
    BY ByteEndsAre
  <1>6. PICK h : ByteEndsTo(x, m, h) /\ ByteEndsOf(x, m) = h[m]
    BY <1>16
  <1>7. h[0] = x /\ \A k \in Nat : k + 1 <= m => h[k + 1] = ByteEnd(h[k])
    BY <1>6, ByteEndIs
  <1> DEFINE T == {k \in Nat : k <= n => g[k] = f[k]}
  <1>8. 0 \in T
    BY <1>2, <1>4
  <1>9. ASSUME NEW k \in Nat, k \in T PROVE k + 1 \in T
    <2> SUFFICES ASSUME k + 1 <= n PROVE g[k + 1] = f[k + 1]
      OBVIOUS
    <2>1. k + 1 <= z /\ k <= n
      BY <1>0
    <2>2. g[k] = f[k]
      BY <1>9, <2>1
    <2>3. f[k + 1] = ByteEnd(f[k])
      BY <1>2, <2>1
    <2>4. g[k + 1] = ByteEnd(g[k])
      BY <1>4
    <2> QED
      BY <2>2, <2>3, <2>4
  <1> HIDE DEF T
  <1>10. n \in T
    BY <1>8, <1>9, Induction
  <1>11. x = f[n]
    <2>1. n <= n
      OBVIOUS
    <2>2. g[n] = f[n]
      BY <1>10, <2>1 DEF T
    <2> QED
      BY <1>3, <1>5, <2>2, Zenon
  <1> DEFINE S == {k \in Nat : k <= m => h[k] = f[n + k]}
  <1>12. 0 \in S
    <2>1. n + 0 = n
      OBVIOUS
    <2> QED
      BY <1>7, <1>11, <2>1
  <1>13. ASSUME NEW k \in Nat, k \in S PROVE k + 1 \in S
    <2> SUFFICES ASSUME k + 1 <= m PROVE h[k + 1] = f[n + (k + 1)]
      OBVIOUS
    <2>1. PICK j \in Nat : j = n + k
      OBVIOUS
    <2>2. j + 1 <= z /\ n + (k + 1) = j + 1 /\ k <= m
      BY <1>0, <2>1
    <2>3. h[k] = f[j]
      BY <1>13, <2>1, <2>2
    <2>4. f[j + 1] = ByteEnd(f[j])
      BY <1>2, <2>2
    <2>5. h[k + 1] = ByteEnd(h[k])
      BY <1>7
    <2> QED
      BY <2>2, <2>3, <2>4, <2>5
  <1> HIDE DEF S
  <1>14. m \in S
    BY <1>12, <1>13, Induction
  <1>15. h[m] = f[z]
    <2>1. m <= m /\ n + m = z
      BY <1>0
    <2> QED
      BY <1>14, <2>1 DEF S
  <1> QED
    BY <1>1, <1>5, <1>6, <1>15

-----------------------------------------------------------------------------
(* The DMC: a run, and a run that stops on its way. *)

\* u is s but for its place in a byte and the delay of the next bit.
Notes(s, u) ==
  /\ OnlyDmc(s, u) /\ u.enables = s.enables /\ u.earliest = s.earliest /\ u.len[4] = s.len[4]
  /\ u.dmc.address = s.dmc.address /\ u.dmc.period = s.dmc.period
  /\ u.dmc.buf_full = s.dmc.buf_full /\ u.dmc.silence = s.dmc.silence
  /\ u.dmc.irq_enabled = s.dmc.irq_enabled /\ u.dmc.irq_flag = s.dmc.irq_flag
  /\ u.dmc.reads = s.dmc.reads /\ u.dmc.next_irq = s.dmc.next_irq

\* What is no more than a place in a byte, twice over.
LEMMA NotesChain ==
  ASSUME NEW s, NEW t, NEW u, Notes(s, t), Notes(t, u) PROVE Notes(s, u)
  <1>1. OnlyDmc(s, u)
    BY OnlyDmcChains DEF Notes
  <1> QED
    BY <1>1 DEF Notes

\* A place that nothing moved.
LEMMA NotesItself == ASSUME NEW s, Formed(s) PROVE Notes(s, s)
  BY DEF Notes, OnlyDmc

\* The bytes do not depend on the place in them.
LEMMA BytesNotes ==
  ASSUME NEW c, NEW w, NEW b, NEW t, Bytes(c, w, b, t), NEW d, Notes(c, d), NEW v, Notes(w, v)
  PROVE  Bytes(d, v, b, t)
  <1>1. /\ Formed(d) /\ Formed(v) /\ d.regs = c.regs /\ v.regs = w.regs /\ d.outputs = c.outputs
        /\ v.outputs = w.outputs /\ d.pal = c.pal /\ v.pal = w.pal
        /\ d.irq_flag = c.irq_flag /\ v.irq_flag = w.irq_flag
        /\ d.next_irq = c.next_irq /\ v.next_irq = w.next_irq
    BY DEF Notes, OnlyDmc
  <1>2. SameWait(d, v, b, t)
    BY <1>1 DEF Bytes, SameWait, Notes
  <1> QED
    BY <1>1, <1>2 DEF Bytes, Notes

\* A DMC that is not mixed is silent.
Muted(s) == IF 4 \in s.outputs THEN s ELSE [s EXCEPT !.dmc.silence = TRUE]

\* A DMC that is muted: only what it plays is gone.
LEMMA MutedPlays ==
  ASSUME NEW s, Formed(s), NEW u, u = Muted(s)
  PROVE  /\ Played(s, u) /\ u.dmc.bits_remain = s.dmc.bits_remain /\ u.dmc.period = s.dmc.period
         /\ (s.dmc.silence \in BOOLEAN => u.dmc.silence \in BOOLEAN)
         /\ (4 \notin s.outputs => s.dmc.silence = TRUE) => Notes(s, u)
  <1>1. CASE 4 \in s.outputs
    BY <1>1, PlayedItself, NotesItself DEF Muted
  <1>2. CASE 4 \notin s.outputs
    <2>1. PICK p : p = [s.dmc EXCEPT !.silence = TRUE]
      OBVIOUS
    <2>2. u = [s EXCEPT !.dmc = p]
      BY <1>2, <2>1 DEF Muted
    <2>3. /\ DOMAIN p = DmcFields /\ p.silence = TRUE /\ p.bits_remain = s.dmc.bits_remain
          /\ p.address = s.dmc.address /\ p.period = s.dmc.period
          /\ p.buf_full = s.dmc.buf_full
          /\ p.irq_enabled = s.dmc.irq_enabled /\ p.irq_flag = s.dmc.irq_flag
          /\ p.reads = s.dmc.reads /\ p.next_irq = s.dmc.next_irq
      BY <2>1 DEF Formed, Shaped, DmcFields
    <2>4. /\ Played(s, u) /\ u.enables = s.enables /\ u.earliest = s.earliest /\ u.len = s.len
          /\ u.dmc = p
      BY <2>2, <2>3, DmcSet
    <2> QED
      BY <1>2, <2>3, <2>4 DEF Notes, Played
  <1> QED
    BY <1>1, <1>2

\* While nothing is read ahead, the end of a byte only starts another.
LEMMA QuietByteEnd ==
  ASSUME NEW s, Formed(s), s.dmc.silence = TRUE, ~s.dmc.buf_full, NEW u, u = ByteEnd(s)
  PROVE  Notes(s, u)
  <2>1. PICK p : p = [s.dmc EXCEPT !.bits_remain = 8, !.silence = TRUE]
    OBVIOUS
  <2>2. u = [s EXCEPT !.dmc = p]
    BY <2>1 DEF ByteEnd
  <2>3. /\ DOMAIN p = DmcFields /\ p.silence = TRUE
        /\ p.address = s.dmc.address /\ p.period = s.dmc.period
        /\ p.buf_full = s.dmc.buf_full
        /\ p.irq_enabled = s.dmc.irq_enabled /\ p.irq_flag = s.dmc.irq_flag
        /\ p.reads = s.dmc.reads /\ p.next_irq = s.dmc.next_irq
    BY <2>1 DEF Formed, Shaped, DmcFields
  <2>4. /\ Played(s, u) /\ u.enables = s.enables /\ u.earliest = s.earliest /\ u.len = s.len
        /\ u.dmc = p
    BY <2>2, <2>3, DmcSet
  <2> QED
    BY <2>3, <2>4 DEF Notes, Played

\* A silent DMC with nothing read ahead plays silence after silence.
LEMMA QuietByteEnds ==
  ASSUME NEW s, Formed(s), s.dmc.silence = TRUE, ~s.dmc.buf_full, NEW n \in Nat
  PROVE  Notes(s, ByteEndsOf(s, n))
  <1>1. PICK f : ByteEndsTo(s, n, f) /\ ByteEndsOf(s, n) = f[n]
    BY ByteEndsAre
  <1>2. f[0] = s /\ \A k \in Nat : k + 1 <= n => f[k + 1] = ByteEnd(f[k])
    BY <1>1, ByteEndIs
  <1> DEFINE T == {k \in Nat : k <= n => Notes(s, f[k])}
  <1>3. 0 \in T
    BY <1>2, NotesItself
  <1>4. ASSUME NEW k \in Nat, k \in T PROVE k + 1 \in T
    <2> SUFFICES ASSUME k + 1 <= n PROVE Notes(s, f[k + 1])
      OBVIOUS
    <2>1. Notes(s, f[k])
      <3>1. k <= n
        OBVIOUS
      <3> QED
        BY <1>4, <3>1
    <2>2. f[k + 1] = ByteEnd(f[k])
      BY <1>2
    <2>3. Formed(f[k]) /\ f[k].dmc.silence = TRUE /\ ~f[k].dmc.buf_full
      BY <2>1 DEF Notes, OnlyDmc
    <2>4. Notes(f[k], f[k + 1])
      BY <2>2, <2>3, QuietByteEnd
    <2> QED
      BY <2>1, <2>4, NotesChain
  <1> HIDE DEF T
  <1>5. n \in T
    BY <1>3, <1>4, Induction
  <1>6. n <= n
    OBVIOUS
  <1> QED
    BY <1>1, <1>5, <1>6 DEF T

\* The place in a byte after so many bits, of which so many ended a byte.
Place(r, n, e) == r - n + 8 * e

Placed(r, n, e) ==
  /\ e \in Nat /\ Place(r, n, e) \in 1 .. 8
  /\ Place(r, n, e) = ((r + 7 - (n % 8)) % 8) + 1
  /\ Place(r, n, e) = IF e = 0 THEN r - n ELSE 8 - ((n - r) % 8)

\* The place after n bits is one of the eight.
LEMMA PlaceKept ==
  ASSUME NEW r \in 1 .. 8, NEW n \in Nat, NEW e, e = ByteEnds(n, r)
  PROVE  Placed(r, n, e)
  <1>1. /\ e \in Nat /\ (e = 0 <=> n < r) /\ r - n + 8 * e \in 1 .. 8
        /\ e > 0 => e - 1 = (n - r) \div 8 /\ r - n + 8 * e = 8 - ((n - r) % 8)
    BY EndsCount
  <1>2. PICK k \in Nat : k = e
    BY <1>1
  <1>3. r - n + 8 * k \in 1 .. 8
    BY <1>1, <1>2
  <1>4. r - n + 8 * k = ((r + 7 - (n % 8)) % 8) + 1
    BY <1>3
  <1>5. r - n + 8 * k = IF k = 0 THEN r - n ELSE 8 - ((n - r) % 8)
    BY <1>1, <1>2
  <1> QED
    BY <1>2, <1>3, <1>4, <1>5 DEF Place, Placed

\* The place after n bits and m more is that after n + m, and so are the ends.
LEMMA PlacesAdd ==
  ASSUME NEW r \in 1 .. 8, NEW n1 \in Nat, NEW e1, e1 = ByteEnds(n1, r),
         NEW r1, r1 = Place(r, n1, e1), NEW n2 \in Nat, NEW e2, e2 = ByteEnds(n2, r1),
         NEW n \in Nat, IsSum(n, n1, n2), NEW e, e = ByteEnds(n, r)
  PROVE  IsSum(e, e1, e2) /\ Place(r, n, e) = Place(r1, n2, e2) /\ e1 \in Nat /\ e2 \in Nat
  <1>1. e1 \in Nat /\ r1 \in 1 .. 8
    BY PlaceKept DEF Placed
  <1>2. e2 \in Nat /\ Place(r1, n2, e2) \in 1 .. 8
    BY <1>1, PlaceKept DEF Placed
  <1>3. e \in Nat /\ Place(r, n, e) \in 1 .. 8
    BY PlaceKept DEF Placed
  <1>4. PICK a \in Nat, b \in Nat, c \in Nat, q \in 1 .. 8 : a = e1 /\ b = e2 /\ c = e /\ q = r1
    BY <1>1, <1>2, <1>3
  <1>5. q = r - n1 + 8 * a /\ n = n1 + n2
    BY <1>4 DEF Place, IsSum
  <1>6. q - n2 + 8 * b \in 1 .. 8 /\ r - n + 8 * c \in 1 .. 8
    BY <1>2, <1>3, <1>4 DEF Place
  <1>7. c = a + b
    BY <1>5, <1>6
  <1> QED
    BY <1>1, <1>2, <1>4, <1>5, <1>7 DEF Place, IsSum

\* u is s after n bits, of which e ended a byte; t is s, muted if it is not mixed.
Ended(s, t, u, r, p, k, n, e) ==
  /\ n \in Nat /\ e \in Nat
  /\ Notes(ByteEndsOf(t, e), u) /\ u.dmc.bits_remain = Place(r, n, e)
  /\ u.delay[4] = Left(s.delay[4], k, p) /\ u.last_dmc_time = s.last_dmc_time

\* Nes_Dmc::run(): the ends of so many bytes, and the place in the byte under way.
LEMMA DmcRunIs ==
  ASSUME NEW s, Formed(s), NEW r \in 1 .. 8, r = s.dmc.bits_remain,
         NEW p \in Nat \ {0}, p = s.dmc.period, s.dmc.silence \in BOOLEAN,
         NEW from \in Int, NEW end \in Int,
         NEW k, k = Elapsed(from, end), NEW n, n = StepsTo(s.delay[4], k, p),
         NEW e, e = ByteEnds(n, r), NEW u, u = DmcRun(s, from, end),
         NEW t, t = Muted(s)
  PROVE  Ended(s, t, u, r, p, k, n, e)
  <1>1. PICK d \in Nat : d = s.delay[4]
    BY DEF Formed, Shaped
  <1>2. PICK c : c = StepsFrom(from, d, end, p)
    OBVIOUS
  <1>3. Counts(c, from, d, end, p)
    BY <1>2, StepsFromAnywhere
  <1>4. c = n /\ n \in Nat /\ from + d + n * p - end = Left(d, k, p) /\ Left(d, k, p) \in Nat
    <2>1. c \in Nat /\ c = StepsTo(d, k, p) /\ from + d + c * p - end = Left(d, k, p) /\ Left(d, k, p) \in Nat
      BY <1>3, Zenon DEF Counts
    <2>2. c = n
      BY <1>1, <2>1, Zenon
    <2> QED
      BY <2>1, <2>2, Zenon
  <1>5. PICK l \in Nat : l = Left(d, k, p) /\ from + d + n * p - end = l
    BY <1>4
  <1>6. n = StepsTo(from + s.delay[4], end, s.dmc.period)
    <2>1. c = StepsTo(from + d, end, p)
      BY <1>2, Zenon DEF StepsFrom
    <2> QED
      BY <1>1, <1>4, <2>1, Zenon
  <1>7. Placed(r, n, e) /\ e \in Nat
    <2>1. n \in Nat
      BY <1>4
    <2>2. Placed(r, n, e)
      BY <2>1, PlaceKept, Zenon
    <2> QED
      BY <2>2, Zenon DEF Placed
  <1>8. PICK q \in 1 .. 8 : q = Place(r, n, e)
    BY <1>7, Zenon DEF Placed
  <1>9. /\ Played(s, t) /\ t.dmc.bits_remain = r /\ Formed(t) /\ t.dmc.silence \in BOOLEAN
        /\ t.delay = s.delay /\ t.last_dmc_time = s.last_dmc_time
    <2>1. /\ Played(s, t) /\ t.dmc.bits_remain = s.dmc.bits_remain
          /\ (s.dmc.silence \in BOOLEAN => t.dmc.silence \in BOOLEAN)
      BY MutedPlays, Zenon
    <2> QED
      BY <2>1, Zenon DEF Played, OnlyDmc
  <1>10. PICK x : x = ByteEndsOf(t, e)
    OBVIOUS
  <1>11. Played(t, x) /\ Formed(x) /\ x.delay = t.delay /\ x.last_dmc_time = t.last_dmc_time
    <2>1. Played(t, x)
      BY <1>7, <1>9, <1>10, ByteEndsPlay
    <2> QED
      BY <2>1 DEF Played, OnlyDmc
  <1>12. PICK y : y = IF t.dmc.silence /\ ~t.dmc.buf_full
                      THEN [t EXCEPT !.dmc.bits_remain = q] ELSE [x EXCEPT !.dmc.bits_remain = q]
    OBVIOUS
  <1>13. u = [y EXCEPT !.delay[4] = from + @ + n * p - end]
    <2>1. t = IF 4 \in s.outputs THEN s ELSE [s EXCEPT !.dmc.silence = TRUE]
      BY DEF Muted
    <2>2. x = Repeat(ByteEnd, t, e)
      BY <1>10 DEF ByteEndsOf
    <2>3. q = ((r + 7 - (n % 8)) % 8) + 1 /\ q = IF e = 0 THEN r - n ELSE 8 - ((n - r) % 8)
      BY <1>7, <1>8, Zenon DEF Placed
    <2>4. n = StepsTo(from + s.delay[4], end, p)
      BY <1>6
    <2> QED
      BY <1>12, <2>1, <2>2, <2>3, <2>4 DEF DmcRun
  <1>14. ASSUME NEW z, Formed(z), z.delay = s.delay, z.last_dmc_time = s.last_dmc_time,
                y = [z EXCEPT !.dmc.bits_remain = q]
         PROVE  /\ Notes(z, u) /\ u.dmc.bits_remain = q /\ u.delay[4] = l
                /\ u.last_dmc_time = s.last_dmc_time
    <2>1. PICK m : m = [z.dmc EXCEPT !.bits_remain = q]
      OBVIOUS
    <2>2. /\ DOMAIN m = DmcFields /\ m.bits_remain = q
          /\ m.address = z.dmc.address /\ m.period = z.dmc.period
          /\ m.buf_full = z.dmc.buf_full /\ m.silence = z.dmc.silence
          /\ m.irq_enabled = z.dmc.irq_enabled /\ m.irq_flag = z.dmc.irq_flag
          /\ m.reads = z.dmc.reads /\ m.next_irq = z.dmc.next_irq
      BY <1>14, <2>1 DEF Formed, Shaped, DmcFields
    <2>3. y = [z EXCEPT !.dmc = m]
      BY <1>14, <2>1
    <2>4. Played(z, y) /\ y.enables = z.enables /\ y.earliest = z.earliest /\ y.len = z.len
          /\ y.dmc = m /\ Formed(y)
      <3>1. /\ Played(z, y) /\ y.enables = z.enables /\ y.earliest = z.earliest /\ y.len = z.len
            /\ y.dmc = m
        <4>1. Formed(z)
          BY <1>14
        <4>2. DOMAIN m = DmcFields
          BY <2>2
        <4> QED
          BY <4>1, <4>2, <2>3, DmcSet
      <3> QED
        BY <3>1, Zenon DEF Played, OnlyDmc
    <2>5. y.delay = s.delay /\ y.last_dmc_time = s.last_dmc_time /\ y.delay[4] = d
      BY <1>1, <1>14, <2>4 DEF Played
    <2>6. u = [y EXCEPT !.delay = [@ EXCEPT ![4] = l]]
      <3>1. u = [y EXCEPT !.delay = [@ EXCEPT ![4] = from + y.delay[4] + n * p - end]]
        BY <1>13
      <3> QED
        BY <1>5, <2>5, <3>1, Zenon
    <2>7. Notes(z, y)
      BY <2>2, <2>4 DEF Notes, Played
    <2>8. /\ DOMAIN u = Fields /\ u.delay = [s.delay EXCEPT ![4] = l]
          /\ u.dmc = m /\ u.len = y.len
          /\ u.regs = y.regs /\ u.written = y.written /\ u.env = y.env
          /\ u.env_delay = y.env_delay /\ u.sweep_delay = y.sweep_delay /\ u.linear = y.linear
          /\ u.last_time = y.last_time /\ u.frame_delay = y.frame_delay
          /\ u.frame_period = y.frame_period /\ u.frame = y.frame /\ u.mode = y.mode
          /\ u.irq_flag = y.irq_flag /\ u.next_irq = y.next_irq /\ u.outputs = y.outputs
          /\ u.pal = y.pal /\ u.phase = y.phase
          /\ u.last_dmc_time = y.last_dmc_time /\ u.enables = y.enables /\ u.earliest = y.earliest
      BY <2>4, <2>5, <2>6 DEF Formed, Shaped, Fields
    <2>9. Formed(u) /\ u.delay[4] = l /\ \A i \in 0 .. 3 : u.delay[i] = s.delay[i]
      <3>1. s.delay \in [Oscs -> Int]
        BY DEF Formed
      <3>2. u.delay[4] = l /\ \A i \in 0 .. 3 : u.delay[i] = s.delay[i]
        BY <3>1, <2>8 DEF Oscs
      <3>3. u.delay \in [Oscs -> Int] /\ DOMAIN u.delay = Oscs
        BY <3>1, <2>8 DEF Oscs
      <3> QED
        BY <3>2, <3>3, <2>2, <2>4, <2>8 DEF Formed, Shaped
    <2>10. Notes(y, u)
      BY <2>4, <2>5, <2>8, <2>9 DEF Notes, OnlyDmc
    <2> QED
      BY <2>2, <2>5, <2>7, <2>8, <2>9, <2>10, NotesChain
  <1>15. CASE t.dmc.silence /\ ~t.dmc.buf_full
    <2>1. /\ Notes(t, u) /\ u.dmc.bits_remain = q /\ u.delay[4] = l
          /\ u.last_dmc_time = s.last_dmc_time
      BY <1>9, <1>12, <1>14, <1>15
    <2>2. Notes(t, x)
      BY <1>7, <1>9, <1>10, <1>15, QuietByteEnds
    <2>3. Notes(x, u)
      BY <2>1, <2>2 DEF Notes, OnlyDmc
    <2> QED
      BY <1>1, <1>4, <1>5, <1>7, <1>8, <1>10, <2>1, <2>3, Zenon DEF Ended
  <1>16. CASE ~(t.dmc.silence /\ ~t.dmc.buf_full)
    <2>1. /\ Notes(x, u) /\ u.dmc.bits_remain = q /\ u.delay[4] = l
          /\ u.last_dmc_time = s.last_dmc_time
      BY <1>9, <1>11, <1>12, <1>14, <1>16
    <2> QED
      BY <1>1, <1>4, <1>5, <1>7, <1>8, <1>10, <2>1, Zenon DEF Ended
  <1> QED
    BY <1>15, <1>16

\* The DMC of a chip that is in order.
Drives(s) == Formed(s) /\ DmcOk(s) /\ s.dmc.silence \in BOOLEAN
\* Two DMCs b clocks apart.
DmcPair(c, w, b, t) ==
  /\ Bytes(c, w, b, t) /\ DmcOk(c) /\ DmcOk(w)
  /\ c.dmc.bits_remain = w.dmc.bits_remain /\ c.delay[4] = w.delay[4]
  /\ IsSum(w.last_dmc_time, c.last_dmc_time, b)

\* Each of a pair is in order.
LEMMA PairDrives ==
  ASSUME NEW c, NEW w, NEW b, NEW t, DmcPair(c, w, b, t) PROVE Drives(c) /\ Drives(w)
  BY DEF DmcPair, Drives, Bytes

\* The DMC's clock set to a time.
Stamped(s, end) == [s EXCEPT !.last_dmc_time = end]

\* Its clock is not its place.
LEMMA StampedNotes ==
  ASSUME NEW s, Formed(s), NEW end, NEW u, u = Stamped(s, end)
  PROVE  Notes(s, u) /\ u.dmc = s.dmc /\ u.delay = s.delay /\ u.last_dmc_time = end
  <1>1. /\ DOMAIN u = Fields /\ u.dmc = s.dmc /\ u.len = s.len
        /\ u.regs = s.regs /\ u.written = s.written /\ u.env = s.env
        /\ u.env_delay = s.env_delay /\ u.sweep_delay = s.sweep_delay /\ u.linear = s.linear
        /\ u.last_time = s.last_time /\ u.frame_delay = s.frame_delay
        /\ u.frame_period = s.frame_period /\ u.frame = s.frame /\ u.mode = s.mode
        /\ u.irq_flag = s.irq_flag /\ u.next_irq = s.next_irq /\ u.outputs = s.outputs
        /\ u.pal = s.pal /\ u.phase = s.phase /\ u.delay = s.delay
        /\ u.last_dmc_time = end /\ u.enables = s.enables /\ u.earliest = s.earliest
    BY DEF Formed, Shaped, Fields, Stamped
  <1>2. Formed(u)
    BY <1>1 DEF Formed, Shaped
  <1> QED
    BY <1>1, <1>2 DEF Notes, OnlyDmc

\* u is s after n bits: e ends of bytes, the first chip being stamped and muted first.
Drove(s, u, end, k, n, e) ==
  /\ k = Elapsed(s.last_dmc_time, end) /\ n = StepsTo(s.delay[4], k, s.dmc.period)
  /\ e = ByteEnds(n, s.dmc.bits_remain) /\ n \in Nat /\ e \in Nat
  /\ Notes(ByteEndsOf(Muted(Stamped(s, end)), e), u)
  /\ u.dmc.bits_remain = Place(s.dmc.bits_remain, n, e)
  /\ u.delay[4] = Left(s.delay[4], k, s.dmc.period) /\ u.last_dmc_time = end

\* A run of the DMC: so many bits, so many of them the end of a byte.
LEMMA RunDmcUntilIs ==
  ASSUME NEW s, Drives(s), NEW end \in Int, s.last_dmc_time < end, NEW u, u = RunDmcUntil(s, end)
  PROVE  \E k, n, e : Drove(s, u, end, k, n, e)
  <1>1. PICK x : x = Stamped(s, end)
    OBVIOUS
  <1>2. Formed(x) /\ x.dmc = s.dmc /\ x.delay = s.delay /\ x.last_dmc_time = end
    BY <1>1, StampedNotes DEF Drives, Notes, OnlyDmc
  <1>3. PICK from \in Int : from = s.last_dmc_time
    BY DEF Drives, DmcOk
  <1>4. u = DmcRun(x, from, end)
    BY <1>1, <1>3 DEF RunDmcUntil, Stamped
  <1>5. PICK r \in 1 .. 8 : r = s.dmc.bits_remain
    BY DEF Drives, DmcOk, DmcNumbers
  <1>6. PICK p \in Nat \ {0} : p = s.dmc.period
    BY DEF Drives, DmcOk, DmcNumbers
  <1>7. PICK k : k = Elapsed(from, end)
    OBVIOUS
  <1>8. PICK n : n = StepsTo(s.delay[4], k, p)
    OBVIOUS
  <1>9. PICK e : e = ByteEnds(n, r)
    OBVIOUS
  <1>10. PICK t : t = Muted(x)
    OBVIOUS
  <1>11. r = x.dmc.bits_remain /\ p = x.dmc.period /\ x.dmc.silence \in BOOLEAN
         /\ n = StepsTo(x.delay[4], k, p)
    BY <1>2, <1>5, <1>6, <1>8, Zenon DEF Drives
  <1>14. Ended(x, t, u, r, p, k, n, e)
    <2>1. Formed(x) /\ r = x.dmc.bits_remain /\ p = x.dmc.period /\ x.dmc.silence \in BOOLEAN
      BY <1>2, <1>11
    <2>2. n = StepsTo(x.delay[4], k, p)
      BY <1>11
    <2> HIDE <1>5, <1>6
    <2> QED
      BY <2>1, <2>2, <1>4, <1>7, <1>9, <1>10, DmcRunIs
  <1>12. /\ n \in Nat /\ e \in Nat
         /\ Notes(ByteEndsOf(t, e), u) /\ u.dmc.bits_remain = Place(r, n, e)
         /\ u.delay[4] = Left(x.delay[4], k, p) /\ u.last_dmc_time = x.last_dmc_time
    BY <1>14, Zenon DEF Ended
  <1>13. Drove(s, u, end, k, n, e)
    <2>1. k = Elapsed(s.last_dmc_time, end) /\ n = StepsTo(s.delay[4], k, s.dmc.period)
      BY <1>3, <1>6, <1>7, <1>8, Zenon
    <2>2. e = ByteEnds(n, s.dmc.bits_remain) /\ n \in Nat /\ e \in Nat
      BY <1>5, <1>9, <1>12, Zenon
    <2>3. Notes(ByteEndsOf(Muted(Stamped(s, end)), e), u) /\ u.last_dmc_time = end
      BY <1>1, <1>2, <1>10, <1>12, Zenon
    <2>4. u.dmc.bits_remain = Place(s.dmc.bits_remain, n, e)
      BY <1>5, <1>12, Zenon
    <2>5. u.delay[4] = Left(s.delay[4], k, s.dmc.period)
      BY <1>2, <1>6, <1>12, Zenon
    <2> QED
      BY <2>1, <2>2, <2>3, <2>4, <2>5, Zenon DEF Drove
  <1> QED
    BY <1>13

\* Its rate stays, and it stays in order.
LEMMA RunDmcDrives ==
  ASSUME NEW s, Drives(s), NEW end \in Int, s.last_dmc_time < end, NEW u, u = RunDmcUntil(s, end),
         Formed(u)
  PROVE  u.dmc.period = s.dmc.period /\ DmcOk(u)
  <1>1. Shaped(s) /\ DmcOk(s)
    BY DEF Drives, Formed
  <1>3. PICK b : b = StepsTo(s.last_dmc_time + s.delay[4], end, s.dmc.period)
    OBVIOUS
  <1>4. PICK e : e = ByteEnds(b, s.dmc.bits_remain)
    OBVIOUS
  <1>5. DmcOk(u)
    BY <1>1, <1>3, <1>4, DmcRunsOn
  <1>6. \E k, n, m : Drove(s, u, end, k, n, m)
    BY RunDmcUntilIs
  <1>7. PICK k, n, m : Drove(s, u, end, k, n, m)
    BY <1>6
  <1>8. PICK x : x = Stamped(s, end)
    OBVIOUS
  <1>9. PICK y : y = Muted(x)
    OBVIOUS
  <1>10. Notes(s, x) /\ Formed(x) /\ x.dmc = s.dmc
    BY <1>8, StampedNotes DEF Drives, Notes, OnlyDmc
  <1>11. Shaped(x) /\ Whole(x) /\ DmcNumbers(x)
    BY <1>1, <1>10 DEF Notes, OnlyDmc, Formed, DmcOk, Whole, DmcNumbers
  <1>12. SameBytes(x, y)
    BY <1>9, <1>11, SilenceSet DEF Muted
  <1>13. Shaped(y) /\ Whole(y) /\ y.dmc.reads \in Int
    BY <1>11, <1>12 DEF SameBytes, Aside, Whole, DmcNumbers
  <1>14. m \in Nat
    BY <1>7 DEF Drove
  <1>15. Reads(y, ByteEndsOf(y, m), m)
    BY <1>13, <1>14, ByteEndsRead DEF ByteEndsOf
  <1>16. Notes(ByteEndsOf(y, m), u)
    BY <1>7, <1>8, <1>9, Zenon DEF Drove
  <1>17. u.dmc.period = y.dmc.period
    BY <1>15, <1>16 DEF Notes, Reads
  <1>18. y.dmc.period = x.dmc.period
    BY <1>12 DEF SameBytes
  <1> QED
    BY <1>5, <1>10, <1>17, <1>18

\* Both are muted.
LEMMA MutedAlike ==
  ASSUME NEW c, NEW w, NEW b, NEW t, Bytes(c, w, b, t)
  PROVE  Bytes(Muted(c), Muted(w), b, t)
  <1>1. Formed(c) /\ Formed(w) /\ (4 \notin c.outputs => c.dmc.silence = TRUE)
        /\ (4 \notin w.outputs => w.dmc.silence = TRUE)
    BY DEF Bytes
  <1>2. Notes(c, Muted(c)) /\ Notes(w, Muted(w))
    BY <1>1, MutedPlays
  <1> QED
    BY <1>2, BytesNotes

\* Both are stamped and muted.
LEMMA StampedAlike ==
  ASSUME NEW c, NEW w, NEW b, NEW t, Bytes(c, w, b, t), NEW e, NEW end
  PROVE  Bytes(Muted(Stamped(c, e)), Muted(Stamped(w, end)), b, t)
  <1>1. Formed(c) /\ Formed(w)
    BY DEF Bytes
  <1>2. Notes(c, Stamped(c, e)) /\ Notes(w, Stamped(w, end))
    BY <1>1, StampedNotes
  <1> QED
    BY <1>2, BytesNotes, MutedAlike

\* What run_until() does to the DMC is nothing else's business.
LEMMA DroveOnlyDmc ==
  ASSUME NEW s, Formed(s), NEW u, NEW end, NEW k, NEW n, NEW e, Drove(s, u, end, k, n, e)
  PROVE  OnlyDmc(s, u) /\ Formed(u)
  <1>1. PICK x : x = Stamped(s, end)
    OBVIOUS
  <1>2. OnlyDmc(s, x) /\ Formed(x)
    BY <1>1, StampedNotes DEF Notes, OnlyDmc
  <1>3. PICK y : y = Muted(x)
    OBVIOUS
  <1>4. OnlyDmc(x, y) /\ Formed(y)
    <2>1. Played(x, y)
      BY <1>2, <1>3, MutedPlays
    <2> QED
      BY <2>1 DEF Played, OnlyDmc
  <1>5. e \in Nat /\ Notes(ByteEndsOf(y, e), u)
    BY <1>1, <1>3, Zenon DEF Drove
  <1>6. OnlyDmc(y, ByteEndsOf(y, e))
    BY <1>4, <1>5, ByteEndsPlay DEF Played
  <1>7. OnlyDmc(ByteEndsOf(y, e), u)
    BY <1>5 DEF Notes
  <1>8. OnlyDmc(s, u)
    BY <1>2, <1>4, <1>6, <1>7, OnlyDmcChains
  <1> QED
    BY <1>8 DEF OnlyDmc

\* A run of the DMC ends at the time it was given.
LEMMA RunDmcGoes ==
  ASSUME NEW s, Drives(s), NEW end \in Int, s.last_dmc_time <= end, NEW u, u = RunDmcUntil(s, end)
  PROVE  /\ OnlyDmc(s, u) /\ Formed(u) /\ DmcOk(u) /\ u.dmc.period = s.dmc.period
         /\ u.last_dmc_time = end
  <1>1. CASE s.last_dmc_time < end
    <2>1. \E k, n, e : Drove(s, u, end, k, n, e)
      BY <1>1, RunDmcUntilIs
    <2>2. PICK k, n, e : Drove(s, u, end, k, n, e)
      BY <2>1
    <2>3. OnlyDmc(s, u) /\ Formed(u)
      BY <2>2, DroveOnlyDmc DEF Drives
    <2>4. u.last_dmc_time = end
      BY <2>2 DEF Drove
    <2> QED
      BY <1>1, <2>3, <2>4, RunDmcDrives
  <1>2. CASE s.last_dmc_time = end
    <2>1. u = s
      BY <1>2 DEF RunDmcUntil
    <2> QED
      BY <1>2, <2>1, PlayedItself DEF Drives, Played
  <1>3. s.last_dmc_time \in Int
    BY DEF Drives, DmcOk
  <1> QED
    BY <1>1, <1>2, <1>3

\* Two like DMCs are run alike.
LEMMA RunDmcAlike ==
  ASSUME NEW c, NEW w, NEW b \in Nat, NEW t \in Int, b <= t, DmcPair(c, w, b, t),
         NEW e \in Int, NEW end \in Int, IsSum(end, e, b), c.last_dmc_time <= e,
         NEW d, d = RunDmcUntil(c, e), NEW v, v = RunDmcUntil(w, end)
  PROVE  DmcPair(d, v, b, t) /\ OnlyDmc(c, d) /\ OnlyDmc(w, v)
  <1>1. Drives(c) /\ Drives(w) /\ Bytes(c, w, b, t)
    BY PairDrives DEF DmcPair
  <1>2. PICK x \in Int, y \in Int : x = c.last_dmc_time /\ y = w.last_dmc_time /\ IsSum(y, x, b)
    BY <1>1 DEF Drives, DmcOk, DmcPair
  <1>3. x <= e /\ y <= end /\ (x < e <=> y < end) /\ Elapsed(x, e) = Elapsed(y, end)
    BY <1>2 DEF IsSum, Elapsed
  <1>4. /\ OnlyDmc(c, d) /\ DmcOk(d) /\ d.last_dmc_time = e
        /\ OnlyDmc(w, v) /\ DmcOk(v) /\ v.last_dmc_time = end
    BY <1>1, <1>2, <1>3, RunDmcGoes
  <1>5. CASE ~(x < e)
    <2>1. d = c /\ v = w
      BY <1>2, <1>3, <1>5 DEF RunDmcUntil
    <2> QED
      BY <1>4, <2>1
  <1>6. CASE x < e
    <2>1. \E k, n, l : Drove(c, d, e, k, n, l)
      BY <1>1, <1>2, <1>6, RunDmcUntilIs
    <2>2. PICK k, n, l : Drove(c, d, e, k, n, l)
      BY <2>1
    <2>3. \E k2, n2, l2 : Drove(w, v, end, k2, n2, l2)
      BY <1>1, <1>2, <1>3, <1>6, RunDmcUntilIs
    <2>4. PICK k2, n2, l2 : Drove(w, v, end, k2, n2, l2)
      BY <2>3
    <2>5. /\ c.dmc.bits_remain = w.dmc.bits_remain /\ c.delay[4] = w.delay[4]
          /\ c.dmc.period = w.dmc.period
      BY <1>1 DEF DmcPair, Bytes
    <2>6. k2 = k
      <3>1. k = Elapsed(c.last_dmc_time, e) /\ k2 = Elapsed(w.last_dmc_time, end)
        BY <2>2, <2>4, Zenon DEF Drove
      <3> QED
        BY <1>2, <1>3, <3>1, Zenon
    <2>7. n2 = n
      <3>1. n = StepsTo(c.delay[4], k, c.dmc.period) /\ n2 = StepsTo(w.delay[4], k2, w.dmc.period)
        BY <2>2, <2>4, Zenon DEF Drove
      <3> QED
        BY <2>5, <2>6, <3>1, Zenon
    <2>8. l2 = l /\ l \in Nat
      <3>1. l = ByteEnds(n, c.dmc.bits_remain) /\ l2 = ByteEnds(n2, w.dmc.bits_remain) /\ l \in Nat
        BY <2>2, <2>4, Zenon DEF Drove
      <3> QED
        BY <2>5, <2>7, <3>1, Zenon
    <2>9. PICK p, q : p = Muted(Stamped(c, e)) /\ q = Muted(Stamped(w, end))
      OBVIOUS
    <2>10. Bytes(p, q, b, t)
      BY <1>1, <2>9, StampedAlike
    <2>11. Bytes(ByteEndsOf(p, l), ByteEndsOf(q, l), b, t)
      BY <2>8, <2>10, ByteEndsAlike DEF Both
    <2>12. Notes(ByteEndsOf(p, l), d) /\ Notes(ByteEndsOf(q, l), v)
      BY <2>2, <2>4, <2>8, <2>9, Zenon DEF Drove
    <2>13. Bytes(d, v, b, t)
      BY <2>11, <2>12, BytesNotes
    <2>14. d.dmc.bits_remain = v.dmc.bits_remain
      <3>1. d.dmc.bits_remain = Place(c.dmc.bits_remain, n, l)
            /\ v.dmc.bits_remain = Place(w.dmc.bits_remain, n2, l2)
        BY <2>2, <2>4, Zenon DEF Drove
      <3> QED
        BY <2>5, <2>7, <2>8, <3>1, Zenon
    <2>15. d.delay[4] = v.delay[4]
      <3>1. d.delay[4] = Left(c.delay[4], k, c.dmc.period)
            /\ v.delay[4] = Left(w.delay[4], k2, w.dmc.period)
        BY <2>2, <2>4, Zenon DEF Drove
      <3> QED
        BY <2>5, <2>6, <3>1, Zenon
    <2> QED
      BY <1>4, <2>13, <2>14, <2>15 DEF DmcPair
  <1> QED
    BY <1>5, <1>6

\* A run of the DMC that stops in between does what one that does not does.
LEMMA RunDmcSplits ==
  ASSUME NEW s, NEW t \in Int, 0 <= t, DmcPair(s, s, 0, t), NEW m \in Int, NEW end \in Int,
         s.last_dmc_time <= m, m <= end,
         NEW p, p = RunDmcUntil(s, m), NEW a, a = RunDmcUntil(p, end),
         NEW v, v = RunDmcUntil(s, end)
  PROVE  DmcPair(a, v, 0, t)
  <1>1. Drives(s) /\ Bytes(s, s, 0, t) /\ Formed(s)
    BY PairDrives DEF DmcPair, Drives
  <1>2. PICK x \in Int : x = s.last_dmc_time
    BY <1>1 DEF Drives, DmcOk
  <1>3. /\ OnlyDmc(s, p) /\ DmcOk(p) /\ p.last_dmc_time = m /\ p.dmc.period = s.dmc.period
        /\ Formed(p)
    BY <1>1, RunDmcGoes
  <1>4. IsSum(m, m, 0) /\ IsSum(end, end, 0) /\ 0 \in Nat
    BY DEF IsSum
  <1>5. DmcPair(p, p, 0, t)
    BY <1>4, RunDmcAlike
  <1>6. DmcPair(v, v, 0, t)
    <2>1. s.last_dmc_time <= end
      BY <1>2
    <2> QED
      BY <1>4, <2>1, RunDmcAlike
  <1>7. CASE x = m
    <2>1. p = s
      BY <1>2, <1>7 DEF RunDmcUntil
    <2> QED
      BY <1>6, <2>1
  <1>8. CASE m = end
    <2>1. a = p
      BY <1>3, <1>8 DEF RunDmcUntil
    <2> QED
      BY <1>6, <1>8, <2>1
  <1>9. CASE x < m /\ m < end
    <2>1. Drives(p)
      BY <1>5, PairDrives
    <2>2. \E k, n, e : Drove(s, p, m, k, n, e)
      BY <1>1, <1>2, <1>9, RunDmcUntilIs
    <2>3. PICK k1, n1, e1 : Drove(s, p, m, k1, n1, e1)
      BY <2>2
    <2>4. \E k, n, e : Drove(p, a, end, k, n, e)
      BY <2>1, <1>3, <1>9, RunDmcUntilIs
    <2>5. PICK k2, n2, e2 : Drove(p, a, end, k2, n2, e2)
      BY <2>4
    <2>6. \E kk, n, e : Drove(s, v, end, kk, n, e)
      BY <1>1, <1>2, <1>9, RunDmcUntilIs
    <2>7. PICK k, n, e : Drove(s, v, end, k, n, e)
      BY <2>6
    <2>8. PICK r \in 1 .. 8 : r = s.dmc.bits_remain
      BY <1>1 DEF Drives, DmcOk, DmcNumbers
    <2>9. PICK f \in Nat \ {0} : f = s.dmc.period
      BY <1>1 DEF Drives, DmcOk, DmcNumbers
    <2>10. PICK dl \in Nat : dl = s.delay[4]
      BY <1>1 DEF Formed, Shaped
    <2>11. /\ k1 = Elapsed(x, m) /\ n1 = StepsTo(dl, k1, f) /\ e1 = ByteEnds(n1, r)
           /\ n1 \in Nat /\ e1 \in Nat
           /\ p.dmc.bits_remain = Place(r, n1, e1) /\ p.delay[4] = Left(dl, k1, f)
      BY <1>2, <2>3, <2>8, <2>9, <2>10, Zenon DEF Drove
    <2>12. /\ k = Elapsed(x, end) /\ n = StepsTo(dl, k, f) /\ e = ByteEnds(n, r)
           /\ n \in Nat /\ e \in Nat
           /\ v.dmc.bits_remain = Place(r, n, e) /\ v.delay[4] = Left(dl, k, f)
      BY <1>2, <2>7, <2>8, <2>9, <2>10, Zenon DEF Drove
    <2>13. PICK r1 : r1 = Place(r, n1, e1)
      OBVIOUS
    <2>14. p.dmc.bits_remain = r1 /\ p.dmc.period = f
      BY <1>3, <2>9, <2>11, <2>13, Zenon
    <2>15. /\ k2 = Elapsed(m, end) /\ n2 = StepsTo(Left(dl, k1, f), k2, f) /\ e2 = ByteEnds(n2, r1)
           /\ n2 \in Nat /\ e2 \in Nat
           /\ a.dmc.bits_remain = Place(r1, n2, e2) /\ a.delay[4] = Left(Left(dl, k1, f), k2, f)
      <3>1. k2 = Elapsed(p.last_dmc_time, end) /\ n2 = StepsTo(p.delay[4], k2, p.dmc.period)
            /\ e2 = ByteEnds(n2, p.dmc.bits_remain)
            /\ n2 \in Nat /\ e2 \in Nat
            /\ a.dmc.bits_remain = Place(p.dmc.bits_remain, n2, e2)
            /\ a.delay[4] = Left(p.delay[4], k2, p.dmc.period)
        BY <2>5, Zenon DEF Drove
      <3>2. p.last_dmc_time = m /\ p.delay[4] = Left(dl, k1, f)
        BY <1>3, <2>11
      <3> QED
        BY <2>14, <3>1, <3>2, Zenon
    <2>16. k1 \in Int /\ k2 \in Int /\ k \in Int /\ 0 <= k1 /\ 0 <= k2 /\ IsSum(k, k1, k2)
      BY <1>9, <2>11, <2>12, <2>15 DEF Elapsed, IsSum
    <2>17. Adds(dl, k1, k2, k, f)
      BY <2>16, StepsAdd
    <2>18. n = n1 + n2
      <3>1. StepsTo(dl, k, f) = StepsTo(dl, k1, f) + StepsTo(Left(dl, k1, f), k2, f)
        BY <2>17, Zenon DEF Adds
      <3> QED
        BY <2>11, <2>12, <2>15, <3>1, Zenon
    <2>19. a.delay[4] = v.delay[4]
      <3>1. Left(dl, k, f) = Left(Left(dl, k1, f), k2, f)
        BY <2>17, Zenon DEF Adds
      <3> QED
        BY <2>12, <2>15, <3>1, Zenon
    <2>20. IsSum(n, n1, n2)
      BY <2>18 DEF IsSum
    <2>21. IsSum(e, e1, e2) /\ Place(r, n, e) = Place(r1, n2, e2)
      <3>1. n1 \in Nat /\ n2 \in Nat /\ n \in Nat /\ e1 = ByteEnds(n1, r)
            /\ e2 = ByteEnds(n2, r1) /\ e = ByteEnds(n, r)
        BY <2>11, <2>12, <2>15, Zenon
      <3> HIDE <2>11, <2>12, <2>15, <2>18
      <3> QED
        BY <2>13, <2>20, <3>1, PlacesAdd, SMTT(40)
    <2>22. a.dmc.bits_remain = v.dmc.bits_remain
      BY <2>12, <2>15, <2>21, Zenon
    <2>23. PICK y1 : y1 = Muted(Stamped(s, m))
      OBVIOUS
    <2>24. PICK y : y = Muted(Stamped(s, end))
      OBVIOUS
    <2>25. Bytes(y1, y, 0, t)
      BY <1>1, <2>23, <2>24, StampedAlike
    <2>26. PICK z1, z : z1 = ByteEndsOf(y1, e1) /\ z = ByteEndsOf(y, e1)
      OBVIOUS
    <2>27. Bytes(z1, z, 0, t)
      <3>1. Both(y1, y, 0, t, ByteEndsOf(y1, e1), ByteEndsOf(y, e1))
        BY <1>4, <2>11, <2>25, ByteEndsAlike
      <3> QED
        BY <2>26, <3>1 DEF Both
    <2>28. Notes(z1, p)
      BY <2>3, <2>23, <2>26, Zenon DEF Drove
    <2>29. Bytes(p, z, 0, t)
      <3>1. Formed(z)
        BY <2>27 DEF Bytes
      <3>2. Notes(z, z)
        BY <3>1, NotesItself
      <3> QED
        BY <2>27, <2>28, <3>2, BytesNotes
    <2>30. PICK y2 : y2 = Muted(Stamped(p, end))
      OBVIOUS
    <2>31. Notes(p, y2)
      <3>1. Notes(p, Stamped(p, end))
        BY <1>3, StampedNotes
      <3>2. 4 \notin p.outputs => p.dmc.silence = TRUE
        BY <1>5 DEF DmcPair, Bytes
      <3>3. PICK q : q = Stamped(p, end)
        OBVIOUS
      <3>4. Formed(q) /\ (4 \notin q.outputs => q.dmc.silence = TRUE)
        BY <3>1, <3>2, <3>3 DEF Notes, OnlyDmc
      <3>5. Notes(q, Muted(q))
        BY <3>4, MutedPlays
      <3> QED
        BY <2>30, <3>1, <3>3, <3>5, NotesChain
    <2>32. Bytes(y2, z, 0, t)
      <3>1. Formed(z)
        BY <2>27 DEF Bytes
      <3>2. Notes(z, z)
        BY <3>1, NotesItself
      <3> QED
        BY <2>29, <2>31, <3>2, BytesNotes
    <2>33. Bytes(ByteEndsOf(y2, e2), ByteEndsOf(z, e2), 0, t)
      <3>1. Both(y2, z, 0, t, ByteEndsOf(y2, e2), ByteEndsOf(z, e2))
        BY <1>4, <2>15, <2>32, ByteEndsAlike
      <3> QED
        BY <3>1 DEF Both
    <2>34. ByteEndsOf(z, e2) = ByteEndsOf(y, e)
      <3>1. e1 \in Nat /\ e2 \in Nat /\ e \in Nat
        BY <2>11, <2>12, <2>15
      <3>2. ByteEndsOf(y, e) = ByteEndsOf(ByteEndsOf(y, e1), e2)
        BY <2>21, <3>1, ByteEndsAdd
      <3> QED
        BY <2>26, <3>2
    <2>35. Notes(ByteEndsOf(y2, e2), a)
      BY <2>5, <2>30, Zenon DEF Drove
    <2>36. Notes(ByteEndsOf(y, e), v)
      BY <2>7, <2>24, Zenon DEF Drove
    <2>37. Bytes(a, v, 0, t)
      BY <2>33, <2>34, <2>35, <2>36, BytesNotes
    <2>38. DmcOk(a) /\ a.last_dmc_time = end
      BY <2>1, <1>3, <1>9, RunDmcGoes
    <2>39. DmcOk(v) /\ v.last_dmc_time = end
      BY <1>1, <1>2, <1>9, RunDmcGoes
    <2> QED
      BY <1>4, <2>19, <2>22, <2>37, <2>38, <2>39 DEF DmcPair
  <1> QED
    BY <1>2, <1>7, <1>8, <1>9

-----------------------------------------------------------------------------
(* A run of the whole chip, and a run that stops on its way. *)

\* What is done to the DMC alone leaves the rest alike.
LEMMA RestOnlyDmc ==
  ASSUME NEW c, NEW w, NEW b, Rest(c, w, b), NEW d, OnlyDmc(c, d), NEW v, OnlyDmc(w, v)
  PROVE  Rest(d, v, b)
  <1>1. SameUnits(d, v) /\ Formed(d) /\ Formed(v)
    BY DEF Rest, Units, OnlyDmc, SameUnits
  <1>2. SameTimers(d, v)
    <2>1. /\ \A i \in 0 .. 3 : d.delay[i] = c.delay[i] /\ v.delay[i] = w.delay[i]
          /\ d.phase = c.phase /\ v.phase = w.phase /\ v.outputs = w.outputs
      BY DEF OnlyDmc
    <2>2. 0 \in 0 .. 3 /\ 1 \in 0 .. 3 /\ 2 \in 0 .. 3 /\ 3 \in 0 .. 3
      OBVIOUS
    <2>3. SameTimers(c, w)
      BY DEF Rest, Units
    <2> QED
      BY <2>1, <2>2, <2>3 DEF SameTimers
  <1>3. SameClock(d, v, b)
    BY DEF Rest, OnlyDmc, SameClock
  <1> QED
    BY <1>1, <1>2, <1>3 DEF Rest, Units

\* What is done to the DMC alone leaves a chip that can be run.
LEMMA RunsOnlyDmc ==
  ASSUME NEW s, Runs(s), NEW u, OnlyDmc(s, u)
  PROVE  Runs(u) /\ u.last_time = s.last_time /\ u.frame_period = s.frame_period
  <1>1. Rest(u, u, 0)
    BY RestOnlyDmc, RunsIsShaped
  <1>2. Timed(u) /\ u.last_time = s.last_time /\ u.frame_period = s.frame_period
    BY RunsIsShaped DEF Timed, OnlyDmc
  <1> QED
    BY <1>1, <1>2, RunsIsShaped DEF Runs, Pair

\* A chip that run_until() may be called on.
Ready(s) == Drives(s) /\ Runs(s) /\ s.last_dmc_time = s.last_time

\* Nes_Apu::run_until(): the DMC first, then the loop of the others.
LEMMA RunUntilIs ==
  ASSUME NEW s, Ready(s), NEW end \in Int, s.last_time <= end, end <= Horizon,
         NEW d, d = RunDmcUntil(s, end)
  PROVE  /\ OnlyDmc(s, d) /\ Runs(d) /\ d.last_time = s.last_time /\ DmcOk(d)
         /\ RunUntil(s, end) = Loop(d, end)
  <1>1. OnlyDmc(s, d) /\ DmcOk(d)
    BY RunDmcGoes DEF Ready
  <1>2. Runs(d) /\ d.last_time = s.last_time /\ d.frame_period = s.frame_period
    BY <1>1, RunsOnlyDmc DEF Ready
  <1>3. CASE s.last_time = end
    <2>1. d = s
      BY <1>3 DEF RunDmcUntil, Ready
    <2>2. Loop(s, end) = s
      BY <1>3, LoopOfNothing DEF Ready
    <2> QED
      BY <1>1, <1>2, <1>3, <2>1, <2>2 DEF RunUntil
  <1>4. CASE s.last_time # end
    <2>1. PICK n : n = (end - s.last_time) \div (s.frame_period - 2) + 3
      OBVIOUS
    <2>2. RunUntil(s, end) = Turns(d, end, n)
      BY <1>4, <2>1 DEF RunUntil, Turns
    <2>3. n = TurnsOf(d, end)
      BY <1>2, <2>1, Zenon DEF TurnsOf
    <2> QED
      BY <1>1, <1>2, <2>2, <2>3, Zenon DEF Loop
  <1> QED
    BY <1>3, <1>4

\* The sequencer has run on, and raised its IRQ in the first chip if it did in the second.
LEMMA DmcPairIdle ==
  ASSUME NEW d, NEW v, NEW b, NEW t, DmcPair(d, v, b, t), NEW x, Idle(d, x), Formed(x),
         NEW y, Idle(v, y), Formed(y), y.irq_flag => x.irq_flag
  PROVE  DmcPair(x, y, b, t)
  <1>1. DmcOk(x) /\ DmcOk(y)
    BY DEF DmcPair, Idle, DmcOk, Whole, DmcNumbers, Loops, IrqTime
  <1>2. SameWait(x, y, b, t)
    BY DEF DmcPair, Bytes, SameWait, Idle
  <1> QED
    BY <1>1, <1>2 DEF DmcPair, Bytes, Idle

\* DMCs that are alike are alike later on.
LEMMA DmcPairLater ==
  ASSUME NEW c, NEW w, NEW b \in Int, NEW t \in Int, NEW e \in Int, t <= e, DmcPair(c, w, b, t)
  PROVE  DmcPair(c, w, b, e)
  <1>1. SameWait(c, w, b, e)
    <2>1. CASE c.irq_flag
      BY <2>1 DEF SameWait
    <2>2. CASE ~c.irq_flag
      <3>1. ~w.irq_flag /\ SameIrq(c.next_irq, w.next_irq, b) /\ Due(c.earliest, w.earliest, b, t)
        BY <2>2 DEF DmcPair, Bytes, SameWait
      <3> QED
        BY <3>1, DueLater DEF SameWait
    <2> QED
      BY <2>1, <2>2
  <1> QED
    BY <1>1 DEF DmcPair, Bytes

\* A DMC like a DMC that is like a third.
LEMMA DmcPairChains ==
  ASSUME NEW c, NEW x, NEW w, NEW b \in Int, NEW t \in Int, t <= Horizon,
         DmcPair(c, x, b, t), DmcPair(x, w, 0, t)
  PROVE  DmcPair(c, w, b, t)
  <1>1. SameWait(c, w, b, t)
    <2>1. CASE c.irq_flag
      BY <2>1 DEF SameWait
    <2>2. CASE ~c.irq_flag
      <3>1. ~x.irq_flag /\ SameIrq(c.next_irq, x.next_irq, b) /\ Due(c.earliest, x.earliest, b, t)
        BY <2>2 DEF DmcPair, Bytes, SameWait
      <3>2. ~w.irq_flag /\ SameIrq(x.next_irq, w.next_irq, 0) /\ Due(x.earliest, w.earliest, 0, t)
        BY <3>1 DEF DmcPair, Bytes, SameWait
      <3>3. w.next_irq = x.next_irq
        BY <3>2, SameIrqOfNothing
      <3> QED
        BY <3>1, <3>2, <3>3, DueChains DEF SameWait
    <2> QED
      BY <2>1, <2>2
  <1>2. SameIrq(c.dmc.next_irq, w.dmc.next_irq, b)
    <2>1. SameIrq(c.dmc.next_irq, x.dmc.next_irq, b) /\ SameIrq(x.dmc.next_irq, w.dmc.next_irq, 0)
      BY DEF DmcPair, Bytes
    <2>2. w.dmc.next_irq = x.dmc.next_irq
      BY <2>1, SameIrqOfNothing
    <2> QED
      BY <2>1, <2>2
  <1>3. IsSum(w.last_dmc_time, c.last_dmc_time, b)
    <2>1. PICK p \in Int, q \in Int, r \in Int :
            p = c.last_dmc_time /\ q = x.last_dmc_time /\ r = w.last_dmc_time
      BY DEF DmcPair, DmcOk
    <2>2. IsSum(q, p, b) /\ IsSum(r, q, 0)
      BY <2>1 DEF DmcPair
    <2>3. IsSum(r, p, b)
      BY <2>2 DEF IsSum
    <2> QED
      BY <2>1, <2>3
  <1> QED
    BY <1>1, <1>2, <1>3 DEF DmcPair, Bytes

\* The two chips are the same, b clocks apart, as far as anyone can tell from here on.
Same(c, w, b) ==
  /\ Rest(c, w, b) /\ DmcPair(c, w, b, w.last_time) /\ Ready(c) /\ Ready(w)
  /\ 0 <= w.last_time /\ b <= w.last_time

\* Chips that are the same are in order and at the same time.
LEMMA SameIsReady ==
  ASSUME NEW c, NEW w, NEW b, Same(c, w, b)
  PROVE  /\ Ready(c) /\ Ready(w) /\ Runs(c) /\ Runs(w) /\ Formed(c) /\ Formed(w)
         /\ c.last_time \in Int /\ w.last_time \in Int /\ IsSum(w.last_time, c.last_time, b)
         /\ c.last_dmc_time = c.last_time /\ w.last_dmc_time = w.last_time
         /\ DmcOk(c) /\ DmcOk(w)
  <1>1. Ready(c) /\ Ready(w) /\ Runs(c) /\ Runs(w) /\ Formed(c) /\ Formed(w)
        /\ c.last_dmc_time = c.last_time /\ w.last_dmc_time = w.last_time
    BY DEF Same, Ready, Drives
  <1>2. c.last_time \in Int /\ w.last_time \in Int
    BY <1>1, RunsIsShaped DEF Timed
  <1>3. IsSum(w.last_time, c.last_time, b) /\ DmcOk(c) /\ DmcOk(w)
    BY DEF Same, Rest, SameClock, DmcPair
  <1> QED
    BY <1>1, <1>2, <1>3

\* The loop of run_until_(), seen by the DMC.
LEMMA LoopIdles ==
  ASSUME NEW d, Runs(d), NEW end \in Int, d.last_time <= end, end <= Horizon, NEW x, x = Loop(d, end)
  PROVE  Idle(d, x) /\ Formed(x) /\ Runs(x) /\ x.last_time = end
  <1>1. Went(d, x, end) /\ x.last_time = end
    BY LoopGoes
  <1>2. Runs(x) /\ Idle(d, x)
    BY <1>1 DEF Went
  <1> QED
    BY <1>1, <1>2, RunsIsShaped

\* The loop leaves a chip that can be run again.
LEMMA ReadyAfter ==
  ASSUME NEW d, NEW x, Formed(x), Idle(d, x), Runs(x), DmcOk(d), d.dmc.silence \in BOOLEAN,
         d.last_dmc_time = x.last_time
  PROVE  Ready(x)
  <1>1. DmcOk(x) /\ x.dmc.silence \in BOOLEAN /\ x.last_dmc_time = x.last_time
    BY DEF Idle, DmcOk, Whole, DmcNumbers, Loops, IrqTime
  <1> QED
    BY <1>1 DEF Ready, Drives

\* Nes_Apu::run_until() does the same to both.
LEMMA RunUntilSame ==
  ASSUME NEW c, NEW w, NEW b \in Nat, Same(c, w, b), NEW e \in Int, NEW end \in Int,
         IsSum(end, e, b), w.last_time <= end, end <= Horizon,
         NEW x, x = RunUntil(c, e), NEW y, y = RunUntil(w, end)
  PROVE  Same(x, y, b) /\ x.last_time = e /\ y.last_time = end
  <1>1. /\ Ready(c) /\ Ready(w) /\ Runs(c) /\ Runs(w)
        /\ c.last_time \in Int /\ w.last_time \in Int /\ IsSum(w.last_time, c.last_time, b)
        /\ c.last_dmc_time = c.last_time /\ w.last_dmc_time = w.last_time
    BY SameIsReady
  <1>2. PICK p \in Int, q \in Int : p = c.last_time /\ q = w.last_time /\ IsSum(q, p, b)
    BY <1>1
  <1>3. p <= e /\ q <= end /\ e <= Horizon /\ 0 <= q /\ b <= q /\ 0 <= end /\ b <= end
    <2>1. 0 <= q /\ b <= q
      BY <1>2 DEF Same
    <2> QED
      BY <1>2, <2>1 DEF IsSum, Horizon
  <1>4. PICK d : d = RunDmcUntil(c, e)
    OBVIOUS
  <1>5. PICK v : v = RunDmcUntil(w, end)
    OBVIOUS
  <1>6. OnlyDmc(c, d) /\ Runs(d) /\ d.last_time = p /\ DmcOk(d) /\ x = Loop(d, e)
    BY <1>1, <1>2, <1>3, <1>4, RunUntilIs
  <1>7. OnlyDmc(w, v) /\ Runs(v) /\ v.last_time = q /\ DmcOk(v) /\ y = Loop(v, end)
    BY <1>1, <1>2, <1>3, <1>5, RunUntilIs
  <1>8. DmcPair(d, v, b, end)
    <2>1. DmcPair(c, w, b, q)
      BY <1>2 DEF Same
    <2>2. c.last_dmc_time <= e
      BY <1>1, <1>2, <1>3
    <2>3. DmcPair(d, v, b, q)
      BY <1>3, <1>4, <1>5, <2>1, <2>2, RunDmcAlike
    <2> QED
      BY <1>3, <2>3, DmcPairLater
  <1>9. Rest(d, v, b)
    <2>1. Rest(c, w, b)
      BY DEF Same
    <2> QED
      BY <1>6, <1>7, <2>1, RestOnlyDmc
  <1>10. Rest(x, y, b)
    BY <1>3, <1>6, <1>7, <1>9, LoopAlike
  <1>11. Idle(d, x) /\ Formed(x) /\ Runs(x) /\ x.last_time = e
    BY <1>3, <1>6, LoopIdles
  <1>12. Idle(v, y) /\ Formed(y) /\ Runs(y) /\ y.last_time = end
    BY <1>3, <1>7, LoopIdles
  <1>13. DmcPair(x, y, b, end)
    <2>1. x.irq_flag = y.irq_flag
      BY <1>10 DEF Rest, SameClock
    <2> QED
      BY <1>8, <1>11, <1>12, <2>1, DmcPairIdle
  <1>14. d.last_dmc_time = e /\ v.last_dmc_time = end
    <2>1. Drives(c) /\ Drives(w) /\ c.last_dmc_time <= e /\ w.last_dmc_time <= end
      BY <1>1, <1>2, <1>3 DEF Ready
    <2> QED
      BY <1>4, <1>5, <2>1, RunDmcGoes
  <1>15. d.dmc.silence \in BOOLEAN /\ v.dmc.silence \in BOOLEAN
    BY <1>8 DEF DmcPair, Bytes
  <1>16. Ready(x) /\ Ready(y)
    BY <1>6, <1>7, <1>11, <1>12, <1>14, <1>15, ReadyAfter
  <1> QED
    BY <1>3, <1>10, <1>11, <1>12, <1>13, <1>16 DEF Same

\* A chip that is the same as one that is the same as a third.
LEMMA SameChains ==
  ASSUME NEW c, NEW x, NEW w, NEW b \in Nat, Same(c, x, b), Same(x, w, 0)
  PROVE  Same(c, w, b)
  <1>1. /\ Ready(c) /\ Ready(x) /\ Ready(w) /\ Runs(c) /\ Runs(x) /\ Runs(w)
        /\ x.last_time \in Int /\ w.last_time \in Int /\ IsSum(w.last_time, x.last_time, 0)
    BY SameIsReady
  <1>2. w.last_time = x.last_time
    BY <1>1 DEF IsSum
  <1>3. Timed(c) /\ Timed(x) /\ Timed(w) /\ w.last_time <= Horizon
    BY <1>1, RunsIsShaped
  <1>4. Rest(c, w, b)
    BY <1>3, RestChains DEF Same
  <1>5. PICK t \in Int : t = w.last_time /\ t = x.last_time /\ t <= Horizon
    BY <1>1, <1>2, <1>3
  <1>6. DmcPair(c, x, b, t) /\ DmcPair(x, w, 0, t)
    BY <1>5 DEF Same
  <1>7. DmcPair(c, w, b, t)
    BY <1>5, <1>6, DmcPairChains
  <1>8. b <= t /\ 0 <= t
    BY <1>5 DEF Same
  <1> QED
    BY <1>1, <1>4, <1>5, <1>7, <1>8 DEF Same

\* A run that stops in between does what one that does not does.
LEMMA RunUntilSplits ==
  ASSUME NEW s, Same(s, s, 0), NEW m \in Int, NEW end \in Int, s.last_time <= m, m <= end,
         end <= Horizon, NEW x, x = RunUntil(s, m), NEW y, y = RunUntil(x, end),
         NEW z, z = RunUntil(s, end)
  PROVE  Same(y, z, 0)
  <1>1. /\ Ready(s) /\ Runs(s) /\ Formed(s) /\ s.last_time \in Int /\ s.last_dmc_time = s.last_time
    BY SameIsReady
  <1>2. PICK t \in Int : t = s.last_time /\ 0 <= t /\ t <= m /\ t <= end /\ m <= Horizon /\ 0 <= m
    BY <1>1 DEF Same, Horizon
  <1>3. IsSum(m, m, 0) /\ IsSum(end, end, 0) /\ 0 \in Nat /\ IsSum(t, t, 0)
    BY <1>2 DEF IsSum
  <1>4. Same(x, x, 0) /\ x.last_time = m
    BY <1>2, <1>3, RunUntilSame
  <1>5. Same(z, z, 0) /\ z.last_time = end
    BY <1>2, <1>3, RunUntilSame
  <1>6. Same(y, y, 0) /\ y.last_time = end
    BY <1>3, <1>4, RunUntilSame
  <1>7. Ready(x) /\ Runs(x) /\ Formed(x)
    BY <1>4, SameIsReady
  <1>8. PICK p : p = RunDmcUntil(s, m)
    OBVIOUS
  <1>9. PICK p2 : p2 = RunDmcUntil(p, end)
    OBVIOUS
  <1>10. PICK a : a = RunDmcUntil(x, end)
    OBVIOUS
  <1>11. PICK v : v = RunDmcUntil(s, end)
    OBVIOUS
  <1>12. OnlyDmc(s, p) /\ Runs(p) /\ p.last_time = t /\ x = Loop(p, m)
    BY <1>1, <1>2, <1>8, RunUntilIs
  <1>13. OnlyDmc(s, v) /\ Runs(v) /\ v.last_time = t /\ z = Loop(v, end)
    BY <1>1, <1>2, <1>11, RunUntilIs
  <1>14. OnlyDmc(x, a) /\ Runs(a) /\ a.last_time = m /\ y = Loop(a, end)
    BY <1>4, <1>7, <1>10, RunUntilIs
  <1>15. Idle(p, x)
    BY <1>2, <1>12, LoopIdles
  <1>16. DmcPair(s, s, 0, m)
    <2>1. DmcPair(s, s, 0, t)
      BY <1>2 DEF Same
    <2> QED
      BY <1>2, <2>1, DmcPairLater
  <1>17. DmcPair(p, p, 0, m) /\ p.last_dmc_time = m
    <2>1. Drives(s) /\ s.last_dmc_time <= m
      BY <1>1, <1>2 DEF Ready
    <2> QED
      BY <1>2, <1>3, <1>8, <1>16, <2>1, RunDmcAlike, RunDmcGoes
  <1>18. DmcPair(x, p, 0, m)
    <2>1. Idle(p, p) /\ Formed(p) /\ (p.irq_flag => x.irq_flag)
      BY <1>12, <1>15, IdleItself, RunsIsShaped DEF Idle
    <2> QED
      BY <1>7, <1>15, <1>17, <2>1, DmcPairIdle
  <1>19. DmcPair(a, p2, 0, m)
    <2>1. x.last_dmc_time <= end
      BY <1>2, <1>4, SameIsReady
    <2> QED
      BY <1>2, <1>3, <1>9, <1>10, <1>18, <2>1, RunDmcAlike
  <1>20. DmcPair(p2, v, 0, m)
    <2>1. s.last_dmc_time <= m
      BY <1>1, <1>2
    <2> QED
      BY <1>2, <1>8, <1>9, <1>11, <1>16, <2>1, RunDmcSplits
  <1>21. DmcPair(a, v, 0, end)
    <2>1. DmcPair(a, v, 0, m)
      BY <1>2, <1>19, <1>20, DmcPairChains
    <2> QED
      BY <2>1, DmcPairLater
  <1>22. Rest(y, z, 0)
    <2>1. Rest(a, x, 0)
      <3>1. OnlyDmc(x, x)
        BY <1>7, PlayedItself DEF Played
      <3>2. Rest(x, x, 0)
        BY <1>4 DEF Same
      <3> QED
        BY <1>14, <3>1, <3>2, RestOnlyDmc
    <2>2. Rest(p, v, 0)
      <3>1. Rest(s, s, 0)
        BY DEF Same
      <3> QED
        BY <1>12, <1>13, <3>1, RestOnlyDmc
    <2>3. Rest(y, Loop(x, end), 0)
      BY <1>3, <1>4, <1>7, <1>14, <2>1, LoopAlike
    <2>4. Rest(Loop(x, end), Loop(p, end), 0)
      BY <1>2, <1>12, LoopSplits
    <2>5. Rest(Loop(p, end), z, 0)
      BY <1>2, <1>3, <1>12, <1>13, <2>2, LoopAlike
    <2>6. Timed(y) /\ Timed(z) /\ Timed(Loop(x, end)) /\ Timed(Loop(p, end))
      <3>1. Runs(Loop(x, end)) /\ Runs(Loop(p, end))
        BY <1>2, <1>4, <1>7, <1>12, LoopIdles
      <3>2. Runs(y) /\ Runs(z)
        BY <1>5, <1>6, SameIsReady
      <3> QED
        BY <3>1, <3>2, RunsIsShaped
    <2>7. Rest(y, Loop(p, end), 0)
      BY <2>3, <2>4, <2>6, RestChains
    <2> QED
      BY <2>5, <2>6, <2>7, RestChains
  <1>23. DmcPair(y, z, 0, end)
    <2>1. Idle(a, y) /\ Formed(y)
      BY <1>14, LoopIdles
    <2>2. Idle(v, z) /\ Formed(z)
      BY <1>2, <1>13, LoopIdles
    <2>3. z.irq_flag = y.irq_flag
      BY <1>22 DEF Rest, SameClock
    <2> QED
      BY <1>21, <2>1, <2>2, <2>3, DmcPairIdle
  <1>24. Ready(y) /\ Ready(z) /\ 0 <= end
    BY <1>2, <1>5, <1>6 DEF Same
  <1> QED
    BY <1>5, <1>22, <1>23, <1>24 DEF Same

-----------------------------------------------------------------------------
(* The time of the DMC's IRQ, and the earliest IRQ. *)

\* The longest sample, and the slowest rate.
Short(s) == s.len[4] <= 4081
Small(s) == s.dmc.period <= 428 /\ s.delay[4] <= 428 /\ Short(s)

\* A sample is as long as its register can say.
LEMMA ReloadSampleShort ==
  ASSUME NEW s, Formed(s), NEW u, u = ReloadSample(s) PROVE Short(u)
  <1>1. u.len[4] = s.regs[4][3] * 16 + 1
    BY ReloadSamplePlays
  <1>2. 4 \in Oscs /\ 3 \in 0 .. 3
    BY DEF Oscs
  <1>3. s.regs[4][3] \in 0 .. 255
    BY <1>2, RegisterIsByte
  <1>4. PICK v \in 0 .. 255 : v = s.regs[4][3]
    BY <1>3
  <1>5. u.len[4] = v * 16 + 1
    BY <1>1, <1>4
  <1> QED
    BY <1>5 DEF Short

\* No byte that is read makes it longer.
LEMMA FillBufferShort ==
  ASSUME NEW s, Formed(s), Short(s), NEW u, u = FillBuffer(s) PROVE Short(u)
  <1>1. CASE s.dmc.buf_full \/ s.len[4] = 0
    BY <1>1 DEF FillBuffer
  <1>2. CASE ~(s.dmc.buf_full \/ s.len[4] = 0)
    <2>1. PICK t : t = ReadByte(s)
      OBVIOUS
    <2>2. s.len[4] > 0 /\ s.len[4] \in Nat
      BY <1>2 DEF Formed, Shaped, Oscs
    <2>3. Played(s, t) /\ t.len[4] = s.len[4] - 1
      BY <2>1, <2>2, ReadBytePlays
    <2>4. Formed(t) /\ Short(t)
      BY <2>2, <2>3 DEF Played, OnlyDmc, Short
    <2>5. CASE u = ReloadSample(t)
      BY <2>4, <2>5, ReloadSampleShort
    <2>6. CASE u = EndSample(t)
      <3>1. \E d : Settles(t, u, d, t.enables \ {4})
        BY <2>4, <2>6, EndSampleSettles
      <3>2. u.len = t.len
        BY <3>1 DEF Settles
      <3> QED
        BY <2>4, <3>2 DEF Short
    <2>7. u = t \/ u = ReloadSample(t) \/ u = EndSample(t)
      BY <1>2, <2>1 DEF FillBuffer
    <2> QED
      BY <2>4, <2>5, <2>6, <2>7
  <1> QED
    BY <1>1, <1>2

\* Nor does the end of a byte.
LEMMA ByteEndShort ==
  ASSUME NEW s, Formed(s), Short(s), NEW u, u = ByteEnd(s) PROVE Short(u)
  <1>1. DOMAIN s.dmc = DmcFields
    BY DEF Formed, Shaped
  <1>2. CASE ~s.dmc.buf_full
    <2>1. u.len = s.len
      BY <1>2 DEF ByteEnd, Formed, Shaped, Fields
    <2> QED
      BY <2>1 DEF Short
  <1>3. CASE s.dmc.buf_full
    <2>0. PICK on : on = (4 \notin s.outputs)
      OBVIOUS
    <2>1. PICK p : p = [s.dmc EXCEPT !.bits_remain = 8, !.buf_full = FALSE, !.silence = on]
      OBVIOUS
    <2>3. PICK x : x = [s EXCEPT !.dmc = p]
      OBVIOUS
    <2>4. u = FillBuffer(x) /\ DOMAIN p = DmcFields
      BY <1>1, <1>3, <2>0, <2>1, <2>3 DEF ByteEnd
    <2>5. Formed(x) /\ Short(x)
      BY <2>3, <2>4, DmcSet DEF Played, OnlyDmc, Short
    <2> QED
      BY <2>4, <2>5, FillBufferShort
  <1> QED
    BY <1>2, <1>3

\* Nor do any number of ends.
LEMMA ByteEndsShort ==
  ASSUME NEW s, Formed(s), Short(s), NEW n \in Nat PROVE Short(ByteEndsOf(s, n))
  <1>1. PICK f : ByteEndsTo(s, n, f) /\ ByteEndsOf(s, n) = f[n]
    BY ByteEndsAre
  <1>2. f[0] = s /\ \A k \in Nat : k + 1 <= n => f[k + 1] = ByteEnd(f[k])
    BY <1>1, ByteEndIs
  <1> DEFINE T == {k \in Nat : k <= n => Formed(f[k]) /\ Short(f[k])}
  <1>3. 0 \in T
    BY <1>2
  <1>4. ASSUME NEW k \in Nat, k \in T PROVE k + 1 \in T
    <2> SUFFICES ASSUME k + 1 <= n PROVE Formed(f[k + 1]) /\ Short(f[k + 1])
      OBVIOUS
    <2>1. Formed(f[k]) /\ Short(f[k])
      <3>1. k <= n
        OBVIOUS
      <3> QED
        BY <1>4, <3>1
    <2>2. f[k + 1] = ByteEnd(f[k])
      BY <1>2
    <2>3. Played(f[k], f[k + 1])
      BY <2>1, <2>2, ByteEndPlays
    <2> QED
      BY <2>1, <2>2, <2>3, ByteEndShort DEF Played, OnlyDmc
  <1> HIDE DEF T
  <1>5. n \in T
    BY <1>3, <1>4, Induction
  <1>6. n <= n
    OBVIOUS
  <1> QED
    BY <1>1, <1>5, <1>6 DEF T

\* The last step is before the end.
LEMMA StepsBefore ==
  ASSUME NEW d \in Int, NEW n \in Int, NEW p \in Nat \ {0}, NEW k \in Nat, k + 1 = StepsTo(d, n, p)
  PROVE  d + k * p < n /\ StepsTo(d, n, p) * p = k * p + p
  <1>0. PICK c : c = StepsTo(d, n, p)
    OBVIOUS
  <1>1. c \in Nat /\ \A j \in Nat : j < c <=> d + j * p < n
    BY <1>0, StepsCount
  <1>2. d + k * p < n
    <2>1. k < c
      BY <1>0
    <2> QED
      BY <1>1, <2>1
  <1>3. PICK x \in Int : x = k * p
    OBVIOUS
  <1>4. (k + 1) * p = x + p
    BY <1>3
  <1> QED
    BY <1>2, <1>3, <1>4

\* A delay is never longer than it was or than the period.
LEMMA LeftIsSmall ==
  ASSUME NEW d \in Int, NEW n \in Int, 0 <= n, NEW p \in Nat \ {0}, d <= 428, p <= 428
  PROVE  Left(d, n, p) <= 428
  <1>0. StepsTo(d, n, p) \in Nat
    BY LeftIsNat
  <1>1. PICK c \in Nat : c = StepsTo(d, n, p)
    BY <1>0
  <1>2. CASE c = 0
    <2>1. c * p = 0
      BY <1>2
    <2>2. Left(d, n, p) = d + c * p - n
      BY <1>1 DEF Left
    <2> QED
      BY <2>1, <2>2
  <1>3. CASE c # 0
    <2>1. PICK k \in Nat : k + 1 = c
      BY <1>3
    <2>2. k + 1 = StepsTo(d, n, p)
      BY <1>1, <2>1
    <2>3. d + k * p < n /\ StepsTo(d, n, p) * p = k * p + p
      BY <2>2, StepsBefore
    <2>4. PICK x \in Int : x = k * p
      OBVIOUS
    <2>5. Left(d, n, p) = d + (x + p) - n
      BY <2>3, <2>4 DEF Left
    <2> QED
      BY <2>3, <2>4, <2>5
  <1> QED
    BY <1>2, <1>3

\* A run leaves the sample and the delay within their bounds.
LEMMA RunUntilSmall ==
  ASSUME NEW s, Ready(s), Small(s), NEW end \in Int, s.last_time <= end, end <= Horizon,
         NEW x, x = RunUntil(s, end)
  PROVE  Small(x)
  <1>1. PICK d : d = RunDmcUntil(s, end)
    OBVIOUS
  <1>2. OnlyDmc(s, d) /\ Runs(d) /\ d.last_time = s.last_time /\ x = Loop(d, end)
    BY <1>1, RunUntilIs
  <1>3. Idle(d, x)
    BY <1>2, LoopIdles
  <1>4. Small(d)
    <2>1. CASE ~(s.last_dmc_time < end)
      <3>1. d = s
        BY <1>1, <2>1 DEF RunDmcUntil
      <3> QED
        BY <3>1
    <2>2. CASE s.last_dmc_time < end
      <3>1. Drives(s) /\ Formed(s)
        BY DEF Ready, Drives
      <3>2. \E k, n, e : Drove(s, d, end, k, n, e)
        BY <1>1, <2>2, <3>1, RunDmcUntilIs
      <3>3. PICK k, n, e : Drove(s, d, end, k, n, e)
        BY <3>2
      <3>4. d.dmc.period = s.dmc.period
        BY <1>1, <1>2, <2>2, <3>1, RunDmcDrives DEF OnlyDmc
      <3>5. PICK y : y = Stamped(s, end)
        OBVIOUS
      <3>6. PICK z : z = Muted(y)
        OBVIOUS
      <3>7. Formed(z) /\ Short(z)
        <4>1. Notes(s, y) /\ Formed(y)
          BY <3>1, <3>5, StampedNotes DEF Notes, OnlyDmc
        <4>2. Played(y, z)
          BY <3>6, <4>1, MutedPlays
        <4>3. z.len = y.len
          BY <3>6, <4>1 DEF Muted, Formed, Shaped, Fields
        <4> QED
          BY <4>1, <4>2, <4>3 DEF Small, Short, Notes, Played, OnlyDmc
      <3>8. e \in Nat /\ Notes(ByteEndsOf(z, e), d)
        BY <3>3, <3>5, <3>6, Zenon DEF Drove
      <3>9. Short(d)
        <4>1. Short(ByteEndsOf(z, e))
          BY <3>7, <3>8, ByteEndsShort
        <4> QED
          BY <3>8, <4>1 DEF Notes, Short
      <3>10. PICK last \in Int : last = s.last_dmc_time
        BY <3>1 DEF Drives, DmcOk
      <3>11. PICK p \in Nat \ {0} : p = s.dmc.period
        BY <3>1 DEF Drives, DmcOk, DmcNumbers
      <3>12. PICK dl \in Nat : dl = s.delay[4]
        BY <3>1 DEF Formed, Shaped
      <3>13. PICK j \in Nat : j = Elapsed(last, end)
        BY <2>2, <3>10 DEF Elapsed
      <3>14. d.delay[4] = Left(dl, j, p)
        BY <3>3, <3>10, <3>11, <3>12, <3>13, Zenon DEF Drove
      <3>15. dl <= 428 /\ p <= 428
        BY <3>11, <3>12 DEF Small
      <3>16. Left(dl, j, p) <= 428
        <4>1. dl \in Int /\ j \in Int /\ 0 <= j
          OBVIOUS
        <4> QED
          BY <3>15, <4>1, LeftIsSmall
      <3> QED
        BY <3>4, <3>9, <3>14, <3>16 DEF Small
    <2> QED
      BY <2>1, <2>2
  <1> QED
    BY <1>3, <1>4 DEF Small, Short, Idle

\* The DMCs are at the same place in the same byte.
Spot(c, w, b) ==
  /\ c.dmc.bits_remain = w.dmc.bits_remain /\ c.delay[4] = w.delay[4]
  /\ c.last_dmc_time \in Int /\ w.last_dmc_time \in Int
  /\ IsSum(w.last_dmc_time, c.last_dmc_time, b) /\ w.last_dmc_time <= Horizon
  /\ w.dmc.bits_remain \in 1 .. 8 /\ w.dmc.period \in Nat /\ Small(w)
All(c, w, b, t) == Rest(c, w, b) /\ Bytes(c, w, b, t) /\ Spot(c, w, b)

\* The DMC's fields are set, and the earliest IRQ is worked out.
LEMMA SettlesAll ==
  ASSUME NEW c, NEW w, NEW b \in Nat, NEW t \in Int, b <= t, All(c, w, b, t), NEW p, NEW q, NEW on,
         p.address = q.address, p.period = q.period, p.buf_full = q.buf_full,
         p.silence = q.silence, p.irq_enabled = q.irq_enabled, p.irq_flag = q.irq_flag,
         p.reads = q.reads, SameIrq(p.next_irq, q.next_irq, b), p.bits_remain = q.bits_remain,
         q.silence = w.dmc.silence, q.bits_remain \in 1 .. 8, q.period \in Nat, q.period <= 428,
         NEW d, Settles(c, d, p, on), NEW v, Settles(w, v, q, on)
  PROVE  All(d, v, b, t)
  <1>1. SameWait(c, w, b, t)
    BY DEF All, Bytes
  <1>2. SameWait(d, v, b, t)
    BY <1>1, SettlesAlike
  <1>3. /\ Played(c, d) /\ d.enables = on /\ d.len = c.len /\ d.dmc = p
        /\ Played(w, v) /\ v.enables = on /\ v.len = w.len /\ v.dmc = q
    BY DEF Settles
  <1>4. Rest(d, v, b)
    BY <1>3, RestOnlyDmc DEF All, Played
  <1>5. Formed(d) /\ Formed(v) /\ d.regs = c.regs /\ v.regs = w.regs /\ d.outputs = c.outputs
         /\ v.outputs = w.outputs /\ d.pal = c.pal /\ v.pal = w.pal
    BY <1>3 DEF Played, OnlyDmc
  <1>6. Bytes(d, v, b, t)
    BY <1>2, <1>3, <1>5 DEF Bytes, All
  <1>7. d.delay = c.delay /\ v.delay = w.delay /\ d.last_dmc_time = c.last_dmc_time
        /\ v.last_dmc_time = w.last_dmc_time
    BY <1>3 DEF Played
  <1>8. Spot(d, v, b)
    BY <1>3, <1>7 DEF Spot, All, Small, Short
  <1> QED
    BY <1>4, <1>6, <1>8 DEF All

\* The same, when the fields alone are set.
LEMMA DmcSetAll ==
  ASSUME NEW c, NEW w, NEW b \in Nat, NEW t \in Int, b <= t, All(c, w, b, t), NEW p, NEW q,
         DOMAIN p = DmcFields, DOMAIN q = DmcFields,
         p.address = q.address, p.period = q.period, p.buf_full = q.buf_full,
         p.silence = q.silence, p.irq_enabled = q.irq_enabled, p.irq_flag = q.irq_flag,
         p.reads = q.reads, SameIrq(p.next_irq, q.next_irq, b), p.bits_remain = q.bits_remain,
         q.silence = w.dmc.silence, q.bits_remain \in 1 .. 8, q.period \in Nat, q.period <= 428,
         NEW d, d = [c EXCEPT !.dmc = p], NEW v, v = [w EXCEPT !.dmc = q]
  PROVE  All(d, v, b, t)
  <1>1. Bytes(c, w, b, t) /\ Formed(c) /\ Formed(w) /\ q.silence \in BOOLEAN
        /\ (4 \notin w.outputs => q.silence = TRUE)
    BY DEF All, Bytes
  <1>2. Both(c, w, b, t, d, v)
    BY <1>1, DmcSetAlike
  <1>3. Rest(d, v, b)
    BY <1>2, RestOnlyDmc DEF All, Both, Played
  <1>4. d.dmc = p /\ v.dmc = q /\ d.len = c.len /\ v.len = w.len
    BY <1>1, DmcSet
  <1>5. d.delay = c.delay /\ v.delay = w.delay /\ d.last_dmc_time = c.last_dmc_time
        /\ v.last_dmc_time = w.last_dmc_time
    BY <1>2 DEF Both, Played
  <1>6. Spot(d, v, b)
    BY <1>4, <1>5 DEF Spot, All, Small, Short
  <1> QED
    BY <1>2, <1>3, <1>6 DEF All, Both

\* How far ahead the DMC's IRQ is.
Reach(d, l, r, p) == d + ((l - 1) * 8 + r - 1) * p + 1
Ahead(s) == Reach(s.delay[4], s.len[4], s.dmc.bits_remain, s.dmc.period)
IrqOf(s) == IF s.dmc.irq_enabled /\ s.len[4] > 0 THEN s.last_dmc_time + Ahead(s) ELSE NoIrq

\* Nes_Dmc::recalc_irq() tells the chip only of an IRQ that changed.
LEMMA RecalcIrqIs ==
  ASSUME NEW s, Formed(s), s.last_dmc_time \in Int, s.dmc.bits_remain \in 1 .. 8,
         s.dmc.period \in Nat, NEW irq, irq = IrqOf(s)
  PROVE  RecalcIrq(s) = IF irq = s.dmc.next_irq THEN s
                        ELSE IrqChanged([s EXCEPT !.dmc.next_irq = irq])
  <1>1. PICK l \in Nat : l = s.len[4]
    BY DEF Formed, Shaped, Oscs
  <1>2. PICK d \in Nat : d = s.delay[4]
    BY DEF Formed, Shaped
  <1>3. PICK r \in 1 .. 8 : r = s.dmc.bits_remain
    OBVIOUS
  <1>4. PICK p \in Nat : p = s.dmc.period
    OBVIOUS
  <1>5. PICK t \in Int : t = s.last_dmc_time
    OBVIOUS
  <1>6. PICK x \in Int : x = ((l - 1) * 8 + r - 1) * p
    OBVIOUS
  <1>7. t + d + x + 1 = t + (d + x + 1)
    OBVIOUS
  <1>8. irq = IF s.dmc.irq_enabled /\ s.len[4] > 0
              THEN s.last_dmc_time + s.delay[4]
                   + ((s.len[4] - 1) * 8 + s.dmc.bits_remain - 1) * s.dmc.period + 1
              ELSE NoIrq
    BY <1>1, <1>2, <1>3, <1>4, <1>5, <1>6, <1>7, Zenon DEF IrqOf, Ahead, Reach
  <1> QED
    BY <1>8, Zenon DEF RecalcIrq

NearBy(d, l, r, p) ==
  /\ d \in Nat /\ l \in Nat /\ r \in 1 .. 8 /\ p \in Nat
  /\ 0 < l /\ l <= 4081 /\ d <= 428 /\ p <= 428
IsNear(o) == o \in Nat /\ o <= Farthest

\* The end of the longest sample at the slowest rate is within reach.
LEMMA NearByIsNear ==
  ASSUME NEW d, NEW l, NEW r, NEW p, NearBy(d, l, r, p) PROVE IsNear(Reach(d, l, r, p))
  <1>0. /\ d \in Nat /\ l \in Nat /\ r \in 1 .. 8 /\ p \in Nat
        /\ 0 < l /\ l <= 4081 /\ d <= 428 /\ p <= 428
    BY DEF NearBy
  <1>1. (l - 1) * 8 + r - 1 \in Nat /\ (l - 1) * 8 + r - 1 <= 32647
    BY <1>0
  <1>2. PICK k \in Nat : k = (l - 1) * 8 + r - 1
    BY <1>1
  <1>3. k <= 32647
    BY <1>1, <1>2
  <1>4. k * p <= 32647 * p
    BY <1>0, <1>3, Scaling
  <1>5. k * p \in Nat
    BY <1>0
  <1>6. PICK x \in Nat : x = k * p
    BY <1>5
  <1>7. x <= 32647 * 428
    BY <1>0, <1>4, <1>6
  <1>8. d + x + 1 \in Nat /\ d + x + 1 <= Farthest
    BY <1>0, <1>7 DEF Farthest
  <1>9. Reach(d, l, r, p) = d + x + 1
    BY <1>2, <1>6, Zenon DEF Reach
  <1> QED
    BY <1>8, <1>9 DEF IsNear

\* The time recalc_irq() works out.
LEMMA IrqOfAlike ==
  ASSUME NEW c, NEW w, NEW b \in Nat, NEW t, All(c, w, b, t)
  PROVE  SameIrq(IrqOf(c), IrqOf(w), b)
  <1>0. Bytes(c, w, b, t) /\ Spot(c, w, b) /\ Formed(c) /\ Formed(w) /\ Small(w)
    BY DEF All, Bytes, Spot
  <1>1. w.len[4] \in Nat /\ c.len[4] = w.len[4] /\ w.len[4] <= 4081
    <2>1. c.len[4] = w.len[4]
      BY <1>0 DEF Bytes
    <2>2. w.len[4] \in Nat
      BY <1>0 DEF Formed, Shaped, Oscs
    <2>3. w.len[4] <= 4081
      BY <1>0 DEF Small, Short
    <2> QED
      BY <2>1, <2>2, <2>3
  <1>2. w.delay[4] \in Nat /\ c.delay[4] = w.delay[4] /\ w.delay[4] <= 428
    BY <1>0 DEF Formed, Shaped, Spot, Small
  <1>3. w.dmc.bits_remain \in 1 .. 8 /\ c.dmc.bits_remain = w.dmc.bits_remain
    BY <1>0 DEF Spot
  <1>4. w.dmc.period \in Nat /\ c.dmc.period = w.dmc.period /\ w.dmc.period <= 428
    BY <1>0 DEF Spot, Bytes, Small
  <1>5. c.last_dmc_time \in Int /\ w.last_dmc_time \in Int /\ w.last_dmc_time <= Horizon
        /\ IsSum(w.last_dmc_time, c.last_dmc_time, b)
    BY <1>0 DEF Spot
  <1>7. c.dmc.irq_enabled = w.dmc.irq_enabled
    BY <1>0 DEF Bytes
  <1>8. CASE w.dmc.irq_enabled /\ w.len[4] > 0
    <2>1. Ahead(c) = Ahead(w)
      <3>1. c.len[4] = w.len[4]
        BY <1>1
      <3>2. c.delay[4] = w.delay[4]
        BY <1>2
      <3>3. c.dmc.bits_remain = w.dmc.bits_remain
        BY <1>3
      <3>4. c.dmc.period = w.dmc.period
        BY <1>4
      <3> QED
        BY <3>1, <3>2, <3>3, <3>4, Zenon DEF Ahead
    <2>2. Ahead(w) \in Nat /\ Ahead(w) <= Farthest
      <3>1. Reach(w.delay[4], w.len[4], w.dmc.bits_remain, w.dmc.period) \in Nat
            /\ Reach(w.delay[4], w.len[4], w.dmc.bits_remain, w.dmc.period) <= Farthest
        <4>1. NearBy(w.delay[4], w.len[4], w.dmc.bits_remain, w.dmc.period)
          BY <1>1, <1>2, <1>3, <1>4, <1>8 DEF NearBy
        <4>2. IsNear(Reach(w.delay[4], w.len[4], w.dmc.bits_remain, w.dmc.period))
          BY <4>1, NearByIsNear, Zenon
        <4> QED
          BY <4>2 DEF IsNear
      <3> QED
        BY <3>1, Zenon DEF Ahead
    <2>3. IrqOf(c) = c.last_dmc_time + Ahead(w) /\ IrqOf(w) = w.last_dmc_time + Ahead(w)
      <3>1. c.len[4] > 0
        BY <1>1, <1>8
      <3> QED
        BY <3>1, <1>7, <1>8, <2>1, Zenon DEF IrqOf
    <2>4. PICK o \in Nat : o = Ahead(w)
      BY <2>2
    <2>5. PICK x \in Int : x = c.last_dmc_time
      BY <1>5
    <2>6. PICK y \in Int : y = w.last_dmc_time
      BY <1>5
    <2>7. x + o \in Int /\ y + o \in Int /\ IsSum(x + o, x, o) /\ IsSum(y + o, y, o)
      BY DEF IsSum
    <2>8. IsSum(y, x, b) /\ y <= Horizon /\ o <= Farthest
      BY <1>5, <2>2, <2>4, <2>5, <2>6
    <2>9. PICK q \in Int : q = x + o
      BY <2>7
    <2>10. PICK z \in Int : z = y + o
      BY <2>7
    <2>11. IsSum(q, x, o) /\ IsSum(z, y, o)
      BY <2>9, <2>10 DEF IsSum
    <2>12. SameIrq(q, z, b)
      BY <2>8, <2>11, AheadAlike
    <2>13. IrqOf(c) = q /\ IrqOf(w) = z
      BY <2>3, <2>4, <2>5, <2>6, <2>9, <2>10, Zenon
    <2> QED
      BY <2>12, <2>13, Zenon
  <1>9. CASE ~(w.dmc.irq_enabled /\ w.len[4] > 0)
    <2>0. ~(c.dmc.irq_enabled /\ c.len[4] > 0)
      <3>1. c.len[4] = w.len[4]
        BY <1>1
      <3> QED
        BY <3>1, <1>7, <1>9, Zenon
    <2>1. IrqOf(c) = NoIrq /\ IrqOf(w) = NoIrq
      BY <2>0, <1>9, Zenon DEF IrqOf
    <2>2. SameIrq(NoIrq, NoIrq, b)
      BY NoIrqAlike
    <2> QED
      BY <2>1, <2>2, Zenon
  <1> QED
    BY <1>8, <1>9

\* An IRQ changes in both chips or in neither.
LEMMA SameIrqOnce ==
  ASSUME NEW a, NEW x, NEW v, NEW y, NEW b \in Int, SameIrq(a, v, b), SameIrq(x, y, b)
  PROVE  a = x <=> v = y
  <1>1. CASE v = NoIrq
    BY <1>1 DEF SameIrq
  <1>2. CASE y = NoIrq
    BY <1>2 DEF SameIrq
  <1>3. CASE v # NoIrq /\ y # NoIrq
    <2>1. a \in Int /\ x \in Int /\ v = a + b /\ y = x + b
      BY <1>3 DEF SameIrq, IsSum
    <2>2. PICK m \in Int : m = a
      BY <2>1
    <2>3. PICK n \in Int : n = x
      BY <2>1
    <2> QED
      BY <2>1, <2>2, <2>3
  <1> QED
    BY <1>1, <1>2, <1>3

\* recalc_irq() works out the same.
LEMMA RecalcIrqAll ==
  ASSUME NEW c, NEW w, NEW b \in Nat, NEW t \in Int, b <= t, All(c, w, b, t),
         NEW d, d = RecalcIrq(c), NEW v, v = RecalcIrq(w)
  PROVE  All(d, v, b, t)
  <1>1. PICK x, y : x = IrqOf(c) /\ y = IrqOf(w)
    OBVIOUS
  <1>2. SameIrq(x, y, b)
    BY <1>1, IrqOfAlike
  <1>3. /\ Formed(c) /\ Formed(w) /\ c.last_dmc_time \in Int /\ w.last_dmc_time \in Int
        /\ c.dmc.bits_remain \in 1 .. 8 /\ w.dmc.bits_remain \in 1 .. 8
        /\ c.dmc.period \in Nat /\ w.dmc.period \in Nat
        /\ SameIrq(c.dmc.next_irq, w.dmc.next_irq, b)
    BY DEF All, Bytes, Spot
  <1>4. d = IF x = c.dmc.next_irq THEN c ELSE IrqChanged([c EXCEPT !.dmc.next_irq = x])
    BY <1>1, <1>3, RecalcIrqIs
  <1>5. v = IF y = w.dmc.next_irq THEN w ELSE IrqChanged([w EXCEPT !.dmc.next_irq = y])
    BY <1>1, <1>3, RecalcIrqIs
  <1>6. x = c.dmc.next_irq <=> y = w.dmc.next_irq
    BY <1>2, <1>3, SameIrqOnce
  <1>7. CASE x = c.dmc.next_irq
    BY <1>4, <1>5, <1>6, <1>7
  <1>8. CASE x # c.dmc.next_irq
    <2>1. PICK p : p = [c.dmc EXCEPT !.next_irq = x]
      OBVIOUS
    <2>2. PICK q : q = [w.dmc EXCEPT !.next_irq = y]
      OBVIOUS
    <2>3. PICK on : on = c.enables /\ on = w.enables
      BY DEF All, Bytes
    <2>4. d = IrqChanged([c EXCEPT !.enables = on, !.dmc = p])
      <3>1. [c EXCEPT !.dmc.next_irq = x] = [c EXCEPT !.enables = on, !.dmc = p]
        BY <2>1, <2>3, <1>3 DEF Formed, Shaped, Fields
      <3> QED
        BY <1>4, <1>8, <3>1
    <2>5. v = IrqChanged([w EXCEPT !.enables = on, !.dmc = q])
      <3>1. [w EXCEPT !.dmc.next_irq = y] = [w EXCEPT !.enables = on, !.dmc = q]
        BY <2>2, <2>3, <1>3 DEF Formed, Shaped, Fields
      <3> QED
        BY <1>5, <1>6, <1>8, <3>1
    <2>6. /\ DOMAIN p = DmcFields /\ p.next_irq = x
          /\ p.address = c.dmc.address /\ p.period = c.dmc.period /\ p.buf_full = c.dmc.buf_full
          /\ p.silence = c.dmc.silence /\ p.irq_enabled = c.dmc.irq_enabled
          /\ p.irq_flag = c.dmc.irq_flag
          /\ p.reads = c.dmc.reads /\ p.bits_remain = c.dmc.bits_remain
      BY <1>3, <2>1 DEF Formed, Shaped, DmcFields
    <2>7. /\ DOMAIN q = DmcFields /\ q.next_irq = y
          /\ q.address = w.dmc.address /\ q.period = w.dmc.period /\ q.buf_full = w.dmc.buf_full
          /\ q.silence = w.dmc.silence /\ q.irq_enabled = w.dmc.irq_enabled
          /\ q.irq_flag = w.dmc.irq_flag
          /\ q.reads = w.dmc.reads /\ q.bits_remain = w.dmc.bits_remain
      BY <1>3, <2>2 DEF Formed, Shaped, DmcFields
    <2>8. Settles(c, d, p, on) /\ Settles(w, v, q, on)
      BY <1>3, <2>4, <2>5, <2>6, <2>7, IrqChangedSettles
    <2>9. /\ p.address = q.address /\ p.period = q.period /\ p.buf_full = q.buf_full
          /\ p.silence = q.silence /\ p.irq_enabled = q.irq_enabled /\ p.irq_flag = q.irq_flag
          /\ p.reads = q.reads /\ SameIrq(p.next_irq, q.next_irq, b)
          /\ p.bits_remain = q.bits_remain
          /\ q.silence = w.dmc.silence /\ q.bits_remain \in 1 .. 8 /\ q.period \in Nat
          /\ q.period <= 428
      BY <1>2, <1>3, <2>6, <2>7 DEF All, Bytes, Spot, Small
    <2> QED
      BY <2>8, <2>9, SettlesAll
  <1> QED
    BY <1>7, <1>8

\* A sample that starts over.
LEMMA ReloadSampleAll ==
  ASSUME NEW c, NEW w, NEW b \in Nat, NEW t \in Int, b <= t, All(c, w, b, t),
         NEW d, d = ReloadSample(c), NEW v, v = ReloadSample(w)
  PROVE  All(d, v, b, t)
  <1>1. Bytes(c, w, b, t) /\ Formed(c) /\ Formed(w)
    BY DEF All, Bytes
  <1>2. Both(c, w, b, t, d, v)
    BY <1>1, ReloadSampleAlike
  <1>3. Rest(d, v, b)
    BY <1>2, RestOnlyDmc DEF All, Both, Played
  <1>4. d.dmc.bits_remain = c.dmc.bits_remain /\ v.dmc.bits_remain = w.dmc.bits_remain
        /\ v.dmc.period = w.dmc.period
    <2>1. d.dmc.bits_remain = c.dmc.bits_remain
      BY <1>1, ReloadSamplePlays
    <2>2. v.dmc.bits_remain = w.dmc.bits_remain /\ v.dmc.period = w.dmc.period
      BY <1>1, ReloadSamplePlays
    <2> QED
      BY <2>1, <2>2
  <1>5. d.delay = c.delay /\ v.delay = w.delay /\ d.last_dmc_time = c.last_dmc_time
        /\ v.last_dmc_time = w.last_dmc_time
    BY <1>2 DEF Both, Played
  <1>6. Short(v)
    BY <1>1, ReloadSampleShort
  <1>7. Spot(d, v, b)
    BY <1>4, <1>5, <1>6 DEF Spot, All, Small
  <1> QED
    BY <1>2, <1>3, <1>7 DEF All, Both

\* Reading ahead leaves the place in the byte under way.
LEMMA FillBufferKeepsPlace ==
  ASSUME NEW s, Formed(s), NEW u, u = FillBuffer(s)
  PROVE  u.dmc.bits_remain = s.dmc.bits_remain /\ u.dmc.period = s.dmc.period
  <1>1. CASE s.dmc.buf_full \/ s.len[4] = 0
    BY <1>1 DEF FillBuffer
  <1>2. CASE ~(s.dmc.buf_full \/ s.len[4] = 0)
    <2>1. s.len[4] > 0 /\ ~s.dmc.buf_full /\ Shaped(s)
      BY <1>2 DEF Formed, Shaped, Oscs
    <2>2. Clocked(s, u)
      BY <2>1, FillBufferReads
    <2> QED
      BY <2>2 DEF Clocked
  <1> QED
    BY <1>1, <1>2

\* A byte that is read ahead.
LEMMA FillBufferAll ==
  ASSUME NEW c, NEW w, NEW b \in Nat, NEW t \in Int, b <= t, All(c, w, b, t),
         NEW d, d = FillBuffer(c), NEW v, v = FillBuffer(w)
  PROVE  All(d, v, b, t)
  <1>1. Bytes(c, w, b, t) /\ Formed(c) /\ Formed(w)
    BY DEF All, Bytes
  <1>2. Both(c, w, b, t, d, v)
    BY <1>1, FillBufferAlike
  <1>3. Rest(d, v, b)
    BY <1>2, RestOnlyDmc DEF All, Both, Played
  <1>4. d.dmc.bits_remain = c.dmc.bits_remain /\ v.dmc.bits_remain = w.dmc.bits_remain
        /\ v.dmc.period = w.dmc.period
    BY <1>1, FillBufferKeepsPlace
  <1>5. d.delay = c.delay /\ v.delay = w.delay /\ d.last_dmc_time = c.last_dmc_time
        /\ v.last_dmc_time = w.last_dmc_time
    BY <1>2 DEF Both, Played
  <1>6. Short(v)
    BY <1>1, FillBufferShort DEF All, Spot, Small
  <1>7. Spot(d, v, b)
    BY <1>4, <1>5, <1>6 DEF Spot, All, Small
  <1> QED
    BY <1>2, <1>3, <1>7 DEF All, Both

\* Nes_Dmc::start().
LEMMA DmcStartAll ==
  ASSUME NEW c, NEW w, NEW b \in Nat, NEW t \in Int, b <= t, All(c, w, b, t),
         NEW d, d = DmcStart(c), NEW v, v = DmcStart(w)
  PROVE  All(d, v, b, t)
  <1>1. All(ReloadSample(c), ReloadSample(w), b, t)
    BY ReloadSampleAll
  <1>2. All(FillBuffer(ReloadSample(c)), FillBuffer(ReloadSample(w)), b, t)
    BY <1>1, FillBufferAll
  <1>3. All(RecalcIrq(FillBuffer(ReloadSample(c))), RecalcIrq(FillBuffer(ReloadSample(w))), b, t)
    BY <1>2, RecalcIrqAll
  <1> QED
    BY <1>3 DEF DmcStart

\* What two chips have in common while the earliest IRQ is being worked out.
BytesBut(c, w, b) ==
  /\ Formed(c) /\ Formed(w)
  /\ c.dmc.address = w.dmc.address /\ c.dmc.period = w.dmc.period
  /\ c.dmc.buf_full = w.dmc.buf_full /\ c.dmc.silence = w.dmc.silence
  /\ c.dmc.irq_enabled = w.dmc.irq_enabled /\ c.dmc.irq_flag = w.dmc.irq_flag
  /\ c.dmc.reads = w.dmc.reads /\ SameIrq(c.dmc.next_irq, w.dmc.next_irq, b)
  /\ c.len[4] = w.len[4] /\ c.regs[4] = w.regs[4] /\ c.enables = w.enables
  /\ c.outputs = w.outputs /\ c.pal = w.pal
  /\ w.dmc.silence \in BOOLEAN /\ (4 \notin w.outputs => w.dmc.silence = TRUE)
AllBut(c, w, b) == Rest(c, w, b) /\ BytesBut(c, w, b) /\ Spot(c, w, b)

\* Two chips alike: all but the earliest IRQ, and that one.
LEMMA AllSplits ==
  ASSUME NEW c, NEW w, NEW b, NEW t
  PROVE  All(c, w, b, t) <=> AllBut(c, w, b) /\ SameWait(c, w, b, t)
  <1>1. Bytes(c, w, b, t) <=> BytesBut(c, w, b) /\ SameWait(c, w, b, t)
    BY Zenon DEF Bytes, BytesBut
  <1> QED
    BY <1>1, Zenon DEF All, AllBut

\* irq_changed() works out the same.
LEMMA IrqChangedAll ==
  ASSUME NEW c, NEW w, NEW b \in Nat, NEW t \in Int, b <= t, AllBut(c, w, b),
         NEW d, d = IrqChanged(c), NEW v, v = IrqChanged(w)
  PROVE  All(d, v, b, t)
  <1>1. BytesBut(c, w, b) /\ Rest(c, w, b) /\ Spot(c, w, b) /\ Formed(c) /\ Formed(w)
    BY DEF AllBut, BytesBut
  <1>2. Settles(c, d, c.dmc, c.enables)
    <2>0. PICK x : x = [c EXCEPT !.enables = c.enables, !.dmc = c.dmc]
      OBVIOUS
    <2>1. x.earliest = c.earliest /\ x.dmc = c.dmc /\ x.irq_flag = c.irq_flag
          /\ x.next_irq = c.next_irq
      BY <1>1, <2>0 DEF Formed, Shaped, Fields
    <2>2. DOMAIN c.dmc = DmcFields
      BY <1>1 DEF Formed, Shaped
    <2>3. d = IrqChanged([c EXCEPT !.enables = c.enables, !.dmc = c.dmc])
      <3>0. PICK e : e = IF c.dmc.irq_flag \/ c.irq_flag THEN 0
                            ELSE Earlier(c.dmc.next_irq, c.next_irq)
        OBVIOUS
      <3>1. d = IrqChanged(x)
        <4>1. d = [c EXCEPT !.earliest = e]
          BY <3>0, Zenon DEF IrqChanged
        <4>2. IrqChanged(x) = [x EXCEPT !.earliest = e]
          BY <2>1, <3>0, Zenon DEF IrqChanged
        <4>3. [x EXCEPT !.earliest = e] = [c EXCEPT !.earliest = e]
          BY <1>1, <2>0 DEF Formed, Shaped, Fields
        <4> QED
          BY <4>1, <4>2, <4>3, Zenon
      <3> QED
        BY <2>0, <3>1
    <2> QED
      BY <1>1, <2>2, <2>3, IrqChangedSettles
  <1>3. Settles(w, v, w.dmc, w.enables)
    <2>0. PICK x : x = [w EXCEPT !.enables = w.enables, !.dmc = w.dmc]
      OBVIOUS
    <2>1. x.earliest = w.earliest /\ x.dmc = w.dmc /\ x.irq_flag = w.irq_flag
          /\ x.next_irq = w.next_irq
      BY <1>1, <2>0 DEF Formed, Shaped, Fields
    <2>2. DOMAIN w.dmc = DmcFields
      BY <1>1 DEF Formed, Shaped
    <2>3. v = IrqChanged([w EXCEPT !.enables = w.enables, !.dmc = w.dmc])
      <3>0. PICK e : e = IF w.dmc.irq_flag \/ w.irq_flag THEN 0
                            ELSE Earlier(w.dmc.next_irq, w.next_irq)
        OBVIOUS
      <3>1. v = IrqChanged(x)
        <4>1. v = [w EXCEPT !.earliest = e]
          BY <3>0, Zenon DEF IrqChanged
        <4>2. IrqChanged(x) = [x EXCEPT !.earliest = e]
          BY <2>1, <3>0, Zenon DEF IrqChanged
        <4>3. [x EXCEPT !.earliest = e] = [w EXCEPT !.earliest = e]
          BY <1>1, <2>0 DEF Formed, Shaped, Fields
        <4> QED
          BY <4>1, <4>2, <4>3, Zenon
      <3> QED
        BY <2>0, <3>1
    <2> QED
      BY <1>1, <2>2, <2>3, IrqChangedSettles
  <1>4. /\ Played(c, d) /\ d.enables = c.enables /\ d.len = c.len /\ d.dmc = c.dmc
        /\ d.earliest = EarliestOf(c.dmc.irq_flag, c.irq_flag, c.dmc.next_irq, c.next_irq)
    BY <1>2 DEF Settles
  <1>5. /\ Played(w, v) /\ v.enables = w.enables /\ v.len = w.len /\ v.dmc = w.dmc
        /\ v.earliest = EarliestOf(w.dmc.irq_flag, w.irq_flag, w.dmc.next_irq, w.next_irq)
    BY <1>3 DEF Settles
  <1>6. Rest(d, v, b)
    BY <1>1, <1>4, <1>5, RestOnlyDmc DEF Played
  <1>7. Formed(d) /\ Formed(v) /\ d.regs = c.regs /\ v.regs = w.regs /\ d.outputs = c.outputs
         /\ v.outputs = w.outputs /\ d.pal = c.pal /\ v.pal = w.pal
         /\ d.irq_flag = c.irq_flag /\ v.irq_flag = w.irq_flag
         /\ d.next_irq = c.next_irq /\ v.next_irq = w.next_irq
    BY <1>4, <1>5 DEF Played, OnlyDmc
  <1>8. BytesBut(d, v, b)
    BY <1>1, <1>4, <1>5, <1>7 DEF BytesBut
  <1>9. d.delay = c.delay /\ v.delay = w.delay /\ d.last_dmc_time = c.last_dmc_time
        /\ v.last_dmc_time = w.last_dmc_time
    BY <1>4, <1>5 DEF Played
  <1>10. Spot(d, v, b)
    BY <1>1, <1>4, <1>5, <1>9 DEF Spot, Small, Short
  <1>11. SameWait(d, v, b, t)
    <2>1. c.irq_flag = w.irq_flag /\ SameIrq(c.next_irq, w.next_irq, b)
      BY <1>1 DEF Rest, SameClock
    <2>2. c.dmc.irq_flag = w.dmc.irq_flag /\ SameIrq(c.dmc.next_irq, w.dmc.next_irq, b)
      BY <1>1 DEF BytesBut
    <2>3. Due(EarliestOf(c.dmc.irq_flag, c.irq_flag, c.dmc.next_irq, c.next_irq),
              EarliestOf(c.dmc.irq_flag, c.irq_flag, w.dmc.next_irq, w.next_irq), b, t)
      BY <2>1, <2>2, EarliestAlike
    <2>4. Due(d.earliest, v.earliest, b, t)
      BY <2>1, <2>2, <2>3, <1>4, <1>5, Zenon
    <2> QED
      BY <2>1, <2>4, <1>7, Zenon DEF SameWait
  <1> QED
    BY <1>6, <1>8, <1>10, <1>11, AllSplits DEF AllBut

\* The rates of the DMC.
LEMMA DmcRates ==
  ASSUME NEW k \in 1 .. 16, NEW kind \in {"ntsc", "pal"}
  PROVE  dmc_period_table[kind][k] \in Nat /\ dmc_period_table[kind][k] <= 428
  <1>1. k \in {1, 2, 3, 4, 5, 6, 7, 8, 9, 10, 11, 12, 13, 14, 15, 16}
    OBVIOUS
  <1> QED
    BY <1>1 DEF dmc_period_table

\* The DMC's first register: its rate, its loop and its IRQ.
LEMMA DmcWriteAll ==
  ASSUME NEW c, NEW w, NEW b \in Nat, NEW t \in Int, b <= t, All(c, w, b, t), NEW reg, NEW data \in 0 .. 255,
         NEW d, d = DmcWrite(c, reg, data), NEW v, v = DmcWrite(w, reg, data)
  PROVE  All(d, v, b, t)
  <1>1. CASE reg # 0
    BY <1>1 DEF DmcWrite
  <1>2. CASE reg = 0
    <2>1. Formed(c) /\ Formed(w) /\ c.pal = w.pal /\ Bytes(c, w, b, t) /\ Spot(c, w, b)
      BY DEF All, Bytes
    <2>2. PICK rate : rate = dmc_period_table[IF w.pal THEN "pal" ELSE "ntsc"][(data % 16) + 1]
      OBVIOUS
    <2>3. PICK irq : irq = (data \div 64 = 2)
      OBVIOUS
    <2>4. rate \in Nat /\ rate <= 428
      <3>1. (data % 16) + 1 \in 1 .. 16
        OBVIOUS
      <3>2. PICK k \in 1 .. 16 : k = (data % 16) + 1
        BY <3>1
      <3>3. PICK kind \in {"ntsc", "pal"} : kind = IF w.pal THEN "pal" ELSE "ntsc"
        OBVIOUS
      <3> QED
        BY <2>2, <3>2, <3>3, DmcRates
    <2>5. PICK p : p = [c.dmc EXCEPT !.period = rate, !.irq_enabled = irq, !.irq_flag = @ /\ irq]
      OBVIOUS
    <2>6. PICK q : q = [w.dmc EXCEPT !.period = rate, !.irq_enabled = irq, !.irq_flag = @ /\ irq]
      OBVIOUS
    <2>7. d = RecalcIrq([c EXCEPT !.dmc = p])
      <3>1. d = RecalcIrq([c EXCEPT !.dmc.period = rate, !.dmc.irq_enabled = irq, !.dmc.irq_flag = @ /\ irq])
        BY <1>2, <2>1, <2>2, <2>3, Zenon DEF DmcWrite
      <3>2. [c EXCEPT !.dmc.period = rate, !.dmc.irq_enabled = irq, !.dmc.irq_flag = @ /\ irq] = [c EXCEPT !.dmc = p]
        BY <2>1, <2>5 DEF Formed, Shaped, Fields, DmcFields
      <3> QED
        BY <3>1, <3>2, Zenon
    <2>8. v = RecalcIrq([w EXCEPT !.dmc = q])
      <3>1. v = RecalcIrq([w EXCEPT !.dmc.period = rate, !.dmc.irq_enabled = irq, !.dmc.irq_flag = @ /\ irq])
        BY <1>2, <2>1, <2>2, <2>3, Zenon DEF DmcWrite
      <3>2. [w EXCEPT !.dmc.period = rate, !.dmc.irq_enabled = irq, !.dmc.irq_flag = @ /\ irq] = [w EXCEPT !.dmc = q]
        BY <2>1, <2>6 DEF Formed, Shaped, Fields, DmcFields
      <3> QED
        BY <3>1, <3>2, Zenon
    <2>9. DOMAIN c.dmc = DmcFields /\ DOMAIN w.dmc = DmcFields
      BY <2>1 DEF Formed, Shaped
    <2>10. /\ DOMAIN p = DmcFields /\ p.period = rate /\ p.irq_enabled = irq
           /\ p.irq_flag = (c.dmc.irq_flag /\ irq)
           /\ p.address = c.dmc.address /\ p.buf_full = c.dmc.buf_full /\ p.silence = c.dmc.silence
           /\ p.reads = c.dmc.reads /\ p.next_irq = c.dmc.next_irq /\ p.bits_remain = c.dmc.bits_remain
      BY <2>9, <2>5 DEF DmcFields
    <2>11. /\ DOMAIN q = DmcFields /\ q.period = rate /\ q.irq_enabled = irq
           /\ q.irq_flag = (w.dmc.irq_flag /\ irq)
           /\ q.address = w.dmc.address /\ q.buf_full = w.dmc.buf_full /\ q.silence = w.dmc.silence
           /\ q.reads = w.dmc.reads /\ q.next_irq = w.dmc.next_irq /\ q.bits_remain = w.dmc.bits_remain
      BY <2>9, <2>6 DEF DmcFields
    <2>12. /\ p.address = q.address /\ p.period = q.period /\ p.buf_full = q.buf_full
           /\ p.silence = q.silence /\ p.irq_enabled = q.irq_enabled /\ p.irq_flag = q.irq_flag
           /\ p.reads = q.reads /\ SameIrq(p.next_irq, q.next_irq, b)
           /\ p.bits_remain = q.bits_remain
           /\ q.silence = w.dmc.silence /\ q.bits_remain \in 1 .. 8 /\ q.period \in Nat
           /\ q.period <= 428
      BY <2>1, <2>4, <2>10, <2>11 DEF Bytes, Spot
    <2>13. PICK x : x = [c EXCEPT !.dmc = p]
      OBVIOUS
    <2>14. PICK y : y = [w EXCEPT !.dmc = q]
      OBVIOUS
    <2>15. All(x, y, b, t)
      BY <2>10, <2>11, <2>12, <2>13, <2>14, DmcSetAll
    <2>16. d = RecalcIrq(x) /\ v = RecalcIrq(y)
      BY <2>7, <2>8, <2>13, <2>14, Zenon
    <2> QED
      BY <2>15, <2>16, RecalcIrqAll
  <1> QED
    BY <1>1, <1>2

-----------------------------------------------------------------------------
(* Writes to the registers. *)

\* u is s but for what a write to a channel or to $4015 sets.
Else(s, u) ==
  /\ u.env = s.env /\ u.env_delay = s.env_delay /\ u.sweep_delay = s.sweep_delay
  /\ u.linear = s.linear /\ u.delay = s.delay /\ u.last_time = s.last_time
  /\ u.last_dmc_time = s.last_dmc_time /\ u.frame_delay = s.frame_delay
  /\ u.frame_period = s.frame_period /\ u.frame = s.frame /\ u.mode = s.mode
  /\ u.irq_flag = s.irq_flag /\ u.next_irq = s.next_irq /\ u.earliest = s.earliest
  /\ u.outputs = s.outputs /\ u.pal = s.pal

\* What is written is the same in both chips.
SameWrites(d, v) ==
  /\ d.regs = v.regs /\ d.written = v.written /\ \A i \in Oscs : d.len[i] = v.len[i]
  /\ d.phase[0] = v.phase[0] /\ d.phase[1] = v.phase[1]
  /\ 2 \in v.outputs => d.phase[2] = v.phase[2]
  /\ d.enables = v.enables /\ Short(v)
SameDmc(d, v, b) ==
  /\ d.dmc.address = v.dmc.address /\ d.dmc.period = v.dmc.period
  /\ d.dmc.buf_full = v.dmc.buf_full /\ d.dmc.silence = v.dmc.silence
  /\ d.dmc.irq_enabled = v.dmc.irq_enabled /\ d.dmc.irq_flag = v.dmc.irq_flag
  /\ d.dmc.reads = v.dmc.reads /\ SameIrq(d.dmc.next_irq, v.dmc.next_irq, b)
  /\ d.dmc.bits_remain = v.dmc.bits_remain
KeepsDmc(w, v) ==
  /\ v.dmc.silence = w.dmc.silence /\ v.dmc.bits_remain = w.dmc.bits_remain
  /\ v.dmc.period = w.dmc.period

\* What is written to both leaves them alike, if the DMCs are.
LEMMA WrittenAll ==
  ASSUME NEW c, NEW w, NEW b, NEW t, All(c, w, b, t), NEW d, NEW v, Formed(d), Formed(v),
         Else(c, d), Else(w, v), SameWrites(d, v), SameDmc(d, v, b), KeepsDmc(w, v)
  PROVE  All(d, v, b, t)
  <1>1. Bytes(c, w, b, t) /\ Rest(c, w, b) /\ Spot(c, w, b)
    BY DEF All
  <1>2. SameUnits(d, v)
    <2>1. SameUnits(c, w)
      BY <1>1 DEF Rest, Units
    <2> QED
      BY <2>1 DEF SameUnits, Else, SameWrites, Oscs
  <1>3. SameTimers(d, v)
    <2>1. SameTimers(c, w) /\ d.delay = c.delay /\ v.delay = w.delay /\ v.outputs = w.outputs
      BY <1>1 DEF Rest, Units, Else
    <2> QED
      BY <2>1 DEF SameTimers, SameWrites
  <1>4. SameClock(d, v, b)
    BY <1>1 DEF Rest, SameClock, Else
  <1>5. Rest(d, v, b)
    BY <1>2, <1>3, <1>4 DEF Rest, Units
  <1>6. SameWait(d, v, b, t)
    BY <1>1 DEF Bytes, SameWait, Else
  <1>7. Bytes(d, v, b, t)
    BY <1>1, <1>6 DEF Bytes, Else, SameWrites, SameDmc, KeepsDmc, Oscs
  <1>8. Spot(d, v, b)
    BY <1>1 DEF Spot, Small, Else, SameWrites, SameDmc, KeepsDmc
  <1> QED
    BY <1>5, <1>7, <1>8 DEF All

\* What the DMCs have in common when nothing is done to them.
LEMMA DmcAsItWas ==
  ASSUME NEW c, NEW w, NEW b, NEW t, All(c, w, b, t), NEW d, d.dmc = c.dmc, NEW v, v.dmc = w.dmc
  PROVE  SameDmc(d, v, b) /\ KeepsDmc(w, v)
  BY DEF All, Bytes, Spot, SameDmc, KeepsDmc

\* A register is set.
Registered(s, i, reg, data) == [s EXCEPT !.regs[i][reg] = data, !.written[i][reg] = TRUE]
RegisterSet(s, u, i, reg, data) ==
  /\ Formed(u) /\ Else(s, u) /\ u.dmc = s.dmc /\ u.len = s.len /\ u.phase = s.phase
  /\ u.enables = s.enables
  /\ u.regs = [s.regs EXCEPT ![i][reg] = data] /\ u.written = [s.written EXCEPT ![i][reg] = TRUE]

\* What setting a register sets.
LEMMA RegisterSets ==
  ASSUME NEW s, Formed(s), NEW i \in Oscs, NEW reg \in 0 .. 3, NEW data \in 0 .. 255,
         NEW u, u = Registered(s, i, reg, data)
  PROVE  RegisterSet(s, u, i, reg, data)
  <1>1. /\ DOMAIN s = Fields /\ s.regs \in [Oscs -> [0 .. 3 -> 0 .. 255]]
        /\ DOMAIN u = Fields
    BY DEF Formed, Shaped, Registered
  <1>2. /\ u.regs = [s.regs EXCEPT ![i][reg] = data] /\ u.written = [s.written EXCEPT ![i][reg] = TRUE]
        /\ u.dmc = s.dmc /\ u.len = s.len /\ u.phase = s.phase /\ u.enables = s.enables
        /\ u.delay = s.delay
    BY <1>1 DEF Registered, Fields
  <1>3. Else(s, u)
    BY <1>1 DEF Registered, Else, Fields
  <1>4. u.regs \in [Oscs -> [0 .. 3 -> 0 .. 255]]
    BY <1>1, <1>2
  <1>5. u.regs[4] \in [0 .. 3 -> 0 .. 255] /\ DOMAIN u.regs = Oscs
    BY <1>4 DEF Oscs
  <1>6. Formed(u)
    BY <1>1, <1>2, <1>4, <1>5 DEF Formed, Shaped
  <1> QED
    BY <1>2, <1>3, <1>6, Zenon DEF RegisterSet

\* The same register of both.
LEMMA RegisteredAll ==
  ASSUME NEW c, NEW w, NEW b, NEW t, All(c, w, b, t),
         NEW i \in Oscs, NEW reg \in 0 .. 3, NEW data \in 0 .. 255,
         NEW d, d = Registered(c, i, reg, data), NEW v, v = Registered(w, i, reg, data)
  PROVE  All(d, v, b, t)
  <1>1. Formed(c) /\ Formed(w)
    BY DEF All, Bytes
  <1>0. RegisterSet(c, d, i, reg, data) /\ RegisterSet(w, v, i, reg, data)
    BY <1>1, RegisterSets
  <1>2. /\ Formed(d) /\ Else(c, d) /\ d.dmc = c.dmc /\ d.len = c.len /\ d.phase = c.phase
        /\ d.enables = c.enables
        /\ d.regs = [c.regs EXCEPT ![i][reg] = data] /\ d.written = [c.written EXCEPT ![i][reg] = TRUE]
    BY <1>0, Zenon DEF RegisterSet
  <1>3. /\ Formed(v) /\ Else(w, v) /\ v.dmc = w.dmc /\ v.len = w.len /\ v.phase = w.phase
        /\ v.enables = w.enables
        /\ v.regs = [w.regs EXCEPT ![i][reg] = data] /\ v.written = [w.written EXCEPT ![i][reg] = TRUE]
    BY <1>0, Zenon DEF RegisterSet
  <1>4. /\ c.regs = w.regs /\ c.written = w.written /\ c.enables = w.enables
        /\ \A j \in 0 .. 3 : c.len[j] = w.len[j]
        /\ c.len[4] = w.len[4] /\ v.outputs = w.outputs
        /\ c.phase[0] = w.phase[0] /\ c.phase[1] = w.phase[1]
        /\ 2 \in w.outputs => c.phase[2] = w.phase[2]
        /\ Short(w)
    BY <1>3 DEF All, Rest, Units, SameUnits, SameTimers, Bytes, Spot, Small, Else
  <1>5. SameWrites(d, v)
    <2>1. d.regs = v.regs
      BY <1>2, <1>3, <1>4, Zenon
    <2>2. d.written = v.written
      BY <1>2, <1>3, <1>4, Zenon
    <2>3. \A j \in Oscs : d.len[j] = v.len[j]
      BY <1>2, <1>3, <1>4 DEF Oscs
    <2>4. Short(v)
      BY <1>3, <1>4 DEF Short
    <2> QED
      BY <1>2, <1>3, <1>4, <2>1, <2>2, <2>3, <2>4, Zenon DEF SameWrites
  <1>6. SameDmc(d, v, b) /\ KeepsDmc(w, v)
    BY <1>2, <1>3, DmcAsItWas
  <1> QED
    BY <1>2, <1>3, <1>5, <1>6, WrittenAll

\* A length and a phase are loaded.
Loaded(s, i, n) ==
  [s EXCEPT !.len[i] = IF i \in s.enables THEN n ELSE @,
            !.phase = IF i < 2 THEN [@ EXCEPT ![i] = 7] ELSE @]
LoadSet(s, u, i, n) ==
  /\ Formed(u) /\ Else(s, u) /\ u.dmc = s.dmc /\ u.regs = s.regs /\ u.written = s.written
  /\ u.enables = s.enables
  /\ \A j \in Oscs : u.len[j] = IF j = i /\ i \in s.enables THEN n ELSE s.len[j]
  /\ \A j \in 0 .. 2 : u.phase[j] = IF j = i /\ i < 2 THEN 7 ELSE s.phase[j]

\* What loading a length sets.
LEMMA LoadSets ==
  ASSUME NEW s, Formed(s), NEW i \in 0 .. 3, NEW n \in Nat, NEW u, u = Loaded(s, i, n)
  PROVE  LoadSet(s, u, i, n)
  <1>1. /\ DOMAIN s = Fields /\ s.len \in [Oscs -> Nat] /\ s.phase \in [0 .. 2 -> Int]
        /\ DOMAIN u = Fields
    BY DEF Formed, Shaped, Loaded
  <1>2. /\ u.regs = s.regs /\ u.written = s.written /\ u.dmc = s.dmc /\ u.enables = s.enables
        /\ u.delay = s.delay
        /\ u.len = [s.len EXCEPT ![i] = IF i \in s.enables THEN n ELSE @]
        /\ u.phase = IF i < 2 THEN [s.phase EXCEPT ![i] = 7] ELSE s.phase
    BY <1>1 DEF Loaded, Fields
  <1>3. Else(s, u)
    BY <1>1 DEF Loaded, Else, Fields
  <1>4. \A j \in Oscs : u.len[j] = IF j = i /\ i \in s.enables THEN n ELSE s.len[j]
    BY <1>1, <1>2 DEF Oscs
  <1>5. \A j \in 0 .. 2 : u.phase[j] = IF j = i /\ i < 2 THEN 7 ELSE s.phase[j]
    BY <1>1, <1>2
  <1>6. u.len \in [Oscs -> Nat]
    BY <1>1, <1>2 DEF Oscs
  <1>7. u.phase \in [0 .. 2 -> Int]
    BY <1>1, <1>2
  <1>8. Formed(u)
    BY <1>1, <1>2, <1>6, <1>7 DEF Formed, Shaped
  <1> QED
    BY <1>2, <1>3, <1>4, <1>5, <1>8, Zenon DEF LoadSet

\* The same length in both.
LEMMA LoadedAll ==
  ASSUME NEW c, NEW w, NEW b, NEW t, All(c, w, b, t), NEW i \in 0 .. 3, NEW n \in Nat,
         NEW d, d = Loaded(c, i, n), NEW v, v = Loaded(w, i, n)
  PROVE  All(d, v, b, t)
  <1>1. Formed(c) /\ Formed(w)
    BY DEF All, Bytes
  <1>0. LoadSet(c, d, i, n) /\ LoadSet(w, v, i, n)
    BY <1>1, LoadSets
  <1>2. /\ Formed(d) /\ Else(c, d) /\ d.dmc = c.dmc /\ d.regs = c.regs /\ d.written = c.written
        /\ d.enables = c.enables
        /\ \A j \in Oscs : d.len[j] = IF j = i /\ i \in c.enables THEN n ELSE c.len[j]
        /\ \A j \in 0 .. 2 : d.phase[j] = IF j = i /\ i < 2 THEN 7 ELSE c.phase[j]
    BY <1>0, Zenon DEF LoadSet
  <1>3. /\ Formed(v) /\ Else(w, v) /\ v.dmc = w.dmc /\ v.regs = w.regs /\ v.written = w.written
        /\ v.enables = w.enables
        /\ \A j \in Oscs : v.len[j] = IF j = i /\ i \in w.enables THEN n ELSE w.len[j]
        /\ \A j \in 0 .. 2 : v.phase[j] = IF j = i /\ i < 2 THEN 7 ELSE w.phase[j]
    BY <1>0, Zenon DEF LoadSet
  <1>4. /\ c.regs = w.regs /\ c.written = w.written /\ c.enables = w.enables
        /\ \A j \in 0 .. 3 : c.len[j] = w.len[j]
        /\ c.len[4] = w.len[4] /\ v.outputs = w.outputs
        /\ c.phase[0] = w.phase[0] /\ c.phase[1] = w.phase[1]
        /\ 2 \in w.outputs => c.phase[2] = w.phase[2]
        /\ Short(w)
    BY <1>3 DEF All, Rest, Units, SameUnits, SameTimers, Bytes, Spot, Small, Else
  <1>5. SameWrites(d, v)
    <2>1. \A j \in Oscs : d.len[j] = v.len[j]
      BY <1>2, <1>3, <1>4 DEF Oscs
    <2>2. /\ d.phase[0] = v.phase[0] /\ d.phase[1] = v.phase[1]
          /\ 2 \in v.outputs => d.phase[2] = v.phase[2]
      BY <1>2, <1>3, <1>4
    <2>3. Short(v)
      BY <1>3, <1>4 DEF Short, Oscs
    <2> QED
      BY <1>2, <1>3, <1>4, <2>1, <2>2, <2>3, Zenon DEF SameWrites
  <1>6. SameDmc(d, v, b) /\ KeepsDmc(w, v)
    BY <1>2, <1>3, DmcAsItWas
  <1> QED
    BY <1>2, <1>3, <1>5, <1>6, WrittenAll

\* A write to a channel: a register, then what the channel makes of it.
LEMMA WriteChannelIs ==
  ASSUME NEW s, NEW addr, NEW data, NEW i, i = (addr - 16384) \div 4, NEW reg, reg = addr % 4,
         NEW x, x = Registered(s, i, reg, data)
  PROVE  WriteChannel(s, addr, data)
           = IF i = 4 THEN DmcWrite(x, reg, data) ELSE IF reg # 3 THEN x
             ELSE Loaded(x, i, length_table[data \div 8 + 1])
  BY DEF WriteChannel, Registered, Loaded

\* What the register that was set sets going.
Going(x, i, reg, data) ==
  IF i = 4 THEN DmcWrite(x, reg, data)
  ELSE IF reg # 3 THEN x ELSE Loaded(x, i, length_table[data \div 8 + 1])

\* The fields of the DMC that the write sets at once.
LEMMA GoingAll ==
  ASSUME NEW c, NEW w, NEW b \in Nat, NEW t \in Int, b <= t, All(c, w, b, t),
         NEW i \in Oscs, NEW reg \in 0 .. 3, NEW data \in 0 .. 255
  PROVE  All(Going(Registered(c, i, reg, data), i, reg, data),
             Going(Registered(w, i, reg, data), i, reg, data), b, t)
  <1>1. PICK x : x = Registered(c, i, reg, data)
    OBVIOUS
  <1>2. PICK y : y = Registered(w, i, reg, data)
    OBVIOUS
  <1>5. All(x, y, b, t)
    BY <1>1, <1>2, RegisteredAll
  <1>6. All(Going(x, i, reg, data), Going(y, i, reg, data), b, t)
    <2>1. CASE i = 4
      <3>1. All(DmcWrite(x, reg, data), DmcWrite(y, reg, data), b, t)
        BY <1>5, DmcWriteAll
      <3> QED
        BY <2>1, <3>1, Zenon DEF Going
    <2>2. CASE i # 4 /\ reg # 3
      BY <1>5, <2>2 DEF Going
    <2>3. CASE i # 4 /\ reg = 3
      <3>1. i \in 0 .. 3
        BY <2>3 DEF Oscs
      <3>2. data \div 8 + 1 \in 1 .. 32
        OBVIOUS
      <3>3. length_table[data \div 8 + 1] \in Nat
        BY <3>2, LengthOfIndex
      <3>4. PICK n : n = length_table[data \div 8 + 1]
        OBVIOUS
      <3>5. n \in Nat
        BY <3>3, <3>4
      <3>6. All(Loaded(x, i, n), Loaded(y, i, n), b, t)
        BY <1>5, <3>1, <3>5, LoadedAll
      <3> QED
        BY <2>3, <3>4, <3>6 DEF Going
    <2> QED
      BY <2>1, <2>2, <2>3
  <1> QED
    BY <1>1, <1>2, <1>6

\* The registers of the channels.
OfChannel(addr) == addr \in 16384 .. 16403

\* A write to a channel's register.
LEMMA WriteChannelAll ==
  ASSUME NEW c, NEW w, NEW b \in Nat, NEW t \in Int, b <= t, All(c, w, b, t),
         NEW addr, OfChannel(addr), NEW data \in 0 .. 255
  PROVE  All(WriteChannel(c, addr, data), WriteChannel(w, addr, data), b, t)
  <1>1. (addr - 16384) \div 4 \in Oscs /\ addr % 4 \in 0 .. 3
    BY DEF Oscs, OfChannel
  <1>2. PICK i : i = (addr - 16384) \div 4
    OBVIOUS
  <1>3. PICK reg : reg = addr % 4
    OBVIOUS
  <1>4. i \in Oscs /\ reg \in 0 .. 3
    BY <1>1, <1>2, <1>3
  <1>5. WriteChannel(c, addr, data) = Going(Registered(c, i, reg, data), i, reg, data)
    BY <1>2, <1>3, WriteChannelIs DEF Going
  <1>6. WriteChannel(w, addr, data) = Going(Registered(w, i, reg, data), i, reg, data)
    BY <1>2, <1>3, WriteChannelIs DEF Going
  <1>7. All(Going(Registered(c, i, reg, data), i, reg, data),
            Going(Registered(w, i, reg, data), i, reg, data), b, t)
    BY <1>4, GoingAll
  <1> QED
    BY <1>5, <1>6, <1>7

\* The channels that are on, and the rest of what a write to $4015 sets at once.
Enabled(s, on) ==
  [s EXCEPT !.len = [i \in Oscs |-> IF i \in on THEN s.len[i] ELSE 0],
            !.dmc.irq_flag = FALSE, !.enables = on,
            !.dmc.next_irq = IF 4 \in on THEN @ ELSE NoIrq]
EnabledSet(s, u, on) ==
  /\ Formed(u) /\ Else(s, u) /\ u.regs = s.regs /\ u.written = s.written /\ u.phase = s.phase
  /\ u.enables = on /\ \A j \in Oscs : u.len[j] = IF j \in on THEN s.len[j] ELSE 0
  /\ u.dmc.address = s.dmc.address /\ u.dmc.period = s.dmc.period
  /\ u.dmc.buf_full = s.dmc.buf_full /\ u.dmc.silence = s.dmc.silence
  /\ u.dmc.irq_enabled = s.dmc.irq_enabled /\ u.dmc.irq_flag = FALSE
  /\ u.dmc.reads = s.dmc.reads /\ u.dmc.bits_remain = s.dmc.bits_remain
  /\ u.dmc.next_irq = IF 4 \in on THEN s.dmc.next_irq ELSE NoIrq

\* What switching channels sets.
LEMMA EnabledSets ==
  ASSUME NEW s, Formed(s), NEW on, NEW u, u = Enabled(s, on)
  PROVE  EnabledSet(s, u, on)
  <1>1. /\ DOMAIN s = Fields /\ s.len \in [Oscs -> Nat] /\ DOMAIN s.dmc = DmcFields
        /\ DOMAIN u = Fields
    BY DEF Formed, Shaped, Enabled
  <1>2. /\ u.regs = s.regs /\ u.written = s.written /\ u.enables = on
        /\ u.delay = s.delay /\ u.phase = s.phase
        /\ u.len = [i \in Oscs |-> IF i \in on THEN s.len[i] ELSE 0]
    BY <1>1 DEF Enabled, Fields
  <1>3. Else(s, u)
    BY <1>1 DEF Enabled, Else, Fields
  <1>4. \A j \in Oscs : u.len[j] = IF j \in on THEN s.len[j] ELSE 0
    BY <1>2
  <1>5. u.len \in [Oscs -> Nat]
    BY <1>1, <1>2 DEF Oscs
  <1>6. /\ u.dmc.address = s.dmc.address /\ u.dmc.period = s.dmc.period
        /\ u.dmc.buf_full = s.dmc.buf_full /\ u.dmc.silence = s.dmc.silence
        /\ u.dmc.irq_enabled = s.dmc.irq_enabled /\ u.dmc.irq_flag = FALSE
        /\ u.dmc.reads = s.dmc.reads /\ u.dmc.bits_remain = s.dmc.bits_remain
        /\ u.dmc.next_irq = IF 4 \in on THEN s.dmc.next_irq ELSE NoIrq
        /\ DOMAIN u.dmc = DmcFields
    BY <1>1 DEF Enabled, Fields, DmcFields
  <1>7. Formed(u)
    BY <1>1, <1>2, <1>5, <1>6 DEF Formed, Shaped
  <1> QED
    BY <1>2, <1>3, <1>4, <1>6, <1>7, Zenon DEF EnabledSet

\* The same channels of both.
LEMMA EnabledAll ==
  ASSUME NEW c, NEW w, NEW b, NEW t, All(c, w, b, t), NEW on
  PROVE  All(Enabled(c, on), Enabled(w, on), b, t)
  <1>1. Formed(c) /\ Formed(w)
    BY DEF All, Bytes
  <1>2. PICK d : d = Enabled(c, on)
    OBVIOUS
  <1>3. PICK v : v = Enabled(w, on)
    OBVIOUS
  <1>4. EnabledSet(c, d, on)
    BY <1>1, <1>2, EnabledSets
  <1>5. EnabledSet(w, v, on)
    BY <1>1, <1>3, EnabledSets
  <1>6. /\ c.regs = w.regs /\ c.written = w.written
        /\ \A j \in 0 .. 3 : c.len[j] = w.len[j]
        /\ c.len[4] = w.len[4] /\ v.outputs = w.outputs
        /\ c.phase[0] = w.phase[0] /\ c.phase[1] = w.phase[1]
        /\ 2 \in w.outputs => c.phase[2] = w.phase[2]
        /\ Short(w)
    BY <1>5 DEF All, Rest, Units, SameUnits, SameTimers, Bytes, Spot, Small, Else, EnabledSet
  <1>7. SameWrites(d, v)
    <2>1. \A j \in Oscs : c.len[j] = w.len[j]
      BY <1>6 DEF Oscs
    <2>2. \A j \in Oscs : d.len[j] = v.len[j]
      BY <1>4, <1>5, <2>1, Zenon DEF EnabledSet
    <2>3. Short(v)
      BY <1>5, <1>6 DEF Short, Oscs, EnabledSet
    <2> QED
      BY <1>4, <1>5, <1>6, <2>2, <2>3, Zenon DEF SameWrites, EnabledSet
  <1>8. SameDmc(c, w, b)
    BY DmcAsItWas
  <1>9. SameIrq(d.dmc.next_irq, v.dmc.next_irq, b)
    <2>1. CASE 4 \in on
      BY <1>4, <1>5, <1>8, <2>1 DEF EnabledSet, SameDmc
    <2>2. CASE 4 \notin on
      BY <1>4, <1>5, <2>2, NoIrqAlike DEF EnabledSet
    <2> QED
      BY <2>1, <2>2
  <1>10. SameDmc(d, v, b) /\ KeepsDmc(w, v)
    BY <1>4, <1>5, <1>8, <1>9 DEF SameDmc, KeepsDmc, EnabledSet
  <1>11. Formed(d) /\ Formed(v) /\ Else(c, d) /\ Else(w, v)
    BY <1>4, <1>5 DEF EnabledSet
  <1> QED
    BY <1>2, <1>3, <1>7, <1>10, <1>11, WrittenAll

\* The DMC starts when its bit appears.
Switched(s, on) ==
  IF 4 \in on \ s.enables THEN DmcStart(Enabled(s, on)) ELSE Enabled(s, on)

\* The channels are switched, and a DMC that was off is started.
LEMMA SwitchedAll ==
  ASSUME NEW c, NEW w, NEW b \in Nat, NEW t \in Int, b <= t, All(c, w, b, t), NEW on
  PROVE  All(Switched(c, on), Switched(w, on), b, t)
  <1>1. c.enables = w.enables
    BY DEF All, Bytes
  <1>2. All(Enabled(c, on), Enabled(w, on), b, t)
    BY EnabledAll
  <1>3. All(DmcStart(Enabled(c, on)), DmcStart(Enabled(w, on)), b, t)
    BY <1>2, DmcStartAll
  <1> QED
    BY <1>1, <1>2, <1>3 DEF Switched

On(data) == {i \in Oscs : BitOf(data, i) = 1}

\* Nes_Apu::write_register() at $4015, in these terms.
LEMMA WriteEnablesIs ==
  ASSUME NEW s, NEW data, NEW on, on = On(data)
  PROVE  WriteEnables(s, data) = IF s.dmc.irq_flag \/ 4 \notin on THEN IrqChanged(Switched(s, on))
                                 ELSE Switched(s, on)
  BY DEF WriteEnables, Switched, Enabled, On

\* A write to $4015.
LEMMA WriteEnablesAll ==
  ASSUME NEW c, NEW w, NEW b \in Nat, NEW t \in Int, b <= t, All(c, w, b, t), NEW data
  PROVE  All(WriteEnables(c, data), WriteEnables(w, data), b, t)
  <1>1. PICK on : on = On(data)
    OBVIOUS
  <1>2. c.dmc.irq_flag = w.dmc.irq_flag
    BY DEF All, Bytes
  <1>3. All(Switched(c, on), Switched(w, on), b, t)
    BY SwitchedAll
  <1>4. All(IrqChanged(Switched(c, on)), IrqChanged(Switched(w, on)), b, t)
    <2>1. AllBut(Switched(c, on), Switched(w, on), b)
      BY <1>3, AllSplits
    <2> QED
      BY <2>1, IrqChangedAll
  <1>5. WriteEnables(c, data) = IF w.dmc.irq_flag \/ 4 \notin on THEN IrqChanged(Switched(c, on))
                                ELSE Switched(c, on)
    BY <1>1, <1>2, WriteEnablesIs
  <1>6. WriteEnables(w, data) = IF w.dmc.irq_flag \/ 4 \notin on THEN IrqChanged(Switched(w, on))
                                ELSE Switched(w, on)
    BY <1>1, WriteEnablesIs
  <1> QED
    BY <1>3, <1>4, <1>5, <1>6, Zenon

\* What a write to $4017 and a read of $4015 set, before the earliest IRQ is worked out.
Sequencer(s, mode, flag, delay, frame, next) ==
  [s EXCEPT !.mode = mode, !.irq_flag = flag, !.frame_delay = delay, !.frame = frame,
            !.next_irq = next]
SequencerSet(s, u, mode, flag, delay, frame, next) ==
  /\ Formed(u) /\ u.regs = s.regs /\ u.written = s.written /\ u.len = s.len /\ u.env = s.env
  /\ u.env_delay = s.env_delay /\ u.sweep_delay = s.sweep_delay /\ u.linear = s.linear
  /\ u.delay = s.delay /\ u.phase = s.phase /\ u.dmc = s.dmc
  /\ u.last_time = s.last_time /\ u.last_dmc_time = s.last_dmc_time
  /\ u.frame_period = s.frame_period /\ u.enables = s.enables
  /\ u.outputs = s.outputs /\ u.pal = s.pal
  /\ u.mode = mode /\ u.irq_flag = flag /\ u.frame_delay = delay /\ u.frame = frame
  /\ u.next_irq = next

\* What a write to $4017 sets.
LEMMA SequencerSets ==
  ASSUME NEW s, Formed(s), NEW mode, NEW flag, NEW delay, NEW frame, NEW next,
         NEW u, u = Sequencer(s, mode, flag, delay, frame, next)
  PROVE  SequencerSet(s, u, mode, flag, delay, frame, next)
  <1>1. DOMAIN s = Fields /\ DOMAIN u = Fields
    BY DEF Formed, Shaped, Sequencer
  <1>2. /\ u.regs = s.regs /\ u.written = s.written /\ u.len = s.len /\ u.env = s.env
        /\ u.env_delay = s.env_delay /\ u.sweep_delay = s.sweep_delay /\ u.linear = s.linear
        /\ u.delay = s.delay /\ u.phase = s.phase /\ u.dmc = s.dmc
        /\ u.last_time = s.last_time /\ u.last_dmc_time = s.last_dmc_time
        /\ u.frame_period = s.frame_period /\ u.enables = s.enables
        /\ u.outputs = s.outputs /\ u.pal = s.pal
    BY <1>1 DEF Sequencer, Fields
  <1>3. /\ u.mode = mode /\ u.irq_flag = flag /\ u.frame_delay = delay /\ u.frame = frame
        /\ u.next_irq = next
    BY <1>1 DEF Sequencer, Fields
  <1>4. Formed(u)
    BY <1>1, <1>2 DEF Formed, Shaped
  <1> QED
    BY <1>2, <1>3, <1>4, Zenon DEF SequencerSet

\* The same in both, the IRQ b apart.
LEMMA SequencerAll ==
  ASSUME NEW c, NEW w, NEW b, AllBut(c, w, b), NEW mode, NEW flag, NEW delay, NEW frame,
         NEW q, NEW r, SameIrq(q, r, b)
  PROVE  AllBut(Sequencer(c, mode, flag, delay, frame, q), Sequencer(w, mode, flag, delay, frame, r), b)
  <1>1. Formed(c) /\ Formed(w) /\ BytesBut(c, w, b) /\ Rest(c, w, b) /\ Spot(c, w, b)
    BY DEF AllBut, BytesBut
  <1>2. PICK d : d = Sequencer(c, mode, flag, delay, frame, q)
    OBVIOUS
  <1>3. PICK v : v = Sequencer(w, mode, flag, delay, frame, r)
    OBVIOUS
  <1>4. SequencerSet(c, d, mode, flag, delay, frame, q)
    BY <1>1, <1>2, SequencerSets
  <1>5. SequencerSet(w, v, mode, flag, delay, frame, r)
    BY <1>1, <1>3, SequencerSets
  <1>6. SameUnits(d, v)
    BY <1>1, <1>4, <1>5 DEF Rest, Units, SameUnits, SequencerSet
  <1>7. SameTimers(d, v)
    BY <1>1, <1>4, <1>5 DEF Rest, Units, SameTimers, SequencerSet
  <1>8. SameClock(d, v, b)
    BY <1>1, <1>4, <1>5 DEF Rest, SameClock, SequencerSet
  <1>9. Rest(d, v, b)
    BY <1>4, <1>5, <1>6, <1>7, <1>8 DEF Rest, Units, SequencerSet
  <1>10. BytesBut(d, v, b)
    BY <1>1, <1>4, <1>5 DEF BytesBut, SequencerSet
  <1>11. Spot(d, v, b)
    BY <1>1, <1>4, <1>5 DEF Spot, Small, Short, SequencerSet
  <1> QED
    BY <1>2, <1>3, <1>9, <1>10, <1>11, Zenon DEF AllBut

\* When the IRQ of the sequencer comes after a write to $4017.
ModeIrq(time, delay, period, on) == IF on THEN time + delay + period * 3 + 1 ELSE NoIrq

\* Nes_Apu::write_register() at $4017, in these terms.
LEMMA WriteModeIs ==
  ASSUME NEW s, NEW time, NEW data,
         NEW irq, irq = (BitOf(data, 6) = 0),
         NEW delay, delay = (s.frame_delay % 2) + (IF data < 128 THEN s.frame_period ELSE 0)
  PROVE  WriteMode(s, time, data)
           = IrqChanged(Sequencer(s, data, s.irq_flag /\ irq, delay, IF data < 128 THEN 1 ELSE 0,
                                  ModeIrq(time, delay, s.frame_period, data < 128 /\ irq)))
  BY DEF WriteMode, Sequencer, ModeIrq

\* It is b apart.
LEMMA ModeIrqAlike ==
  ASSUME NEW e \in Int, NEW end \in Int, NEW b \in Nat, IsSum(end, e, b), end <= Horizon,
         NEW delay \in Nat, NEW period \in Nat, delay <= period + 1, period <= Longest, NEW on
  PROVE  SameIrq(ModeIrq(e, delay, period, on), ModeIrq(end, delay, period, on), b)
  <1>1. CASE on
    <2>1. PICK o \in Nat : o = delay + period * 3 + 1
      OBVIOUS
    <2>2. o <= Farthest
      BY <2>1 DEF Farthest, Longest
    <2>3. e + delay + period * 3 + 1 = e + o /\ end + delay + period * 3 + 1 = end + o
      BY <2>1
    <2>4. PICK q \in Int : q = e + o
      OBVIOUS
    <2>5. PICK z \in Int : z = end + o
      OBVIOUS
    <2>6. IsSum(q, e, o) /\ IsSum(z, end, o)
      BY <2>4, <2>5 DEF IsSum
    <2>7. SameIrq(q, z, b)
      BY <2>2, <2>6, AheadAlike
    <2>8. ModeIrq(e, delay, period, on) = q /\ ModeIrq(end, delay, period, on) = z
      BY <1>1, <2>3, <2>4, <2>5, Zenon DEF ModeIrq
    <2> QED
      BY <2>7, <2>8, Zenon
  <1>2. CASE ~on
    <2>1. ModeIrq(e, delay, period, on) = NoIrq /\ ModeIrq(end, delay, period, on) = NoIrq
      BY <1>2, Zenon DEF ModeIrq
    <2>2. SameIrq(NoIrq, NoIrq, b)
      BY NoIrqAlike
    <2> QED
      BY <2>1, <2>2, Zenon
  <1> QED
    BY <1>1, <1>2

\* A write to $4017.
LEMMA WriteModeAll ==
  ASSUME NEW c, NEW w, NEW b \in Nat, NEW t \in Int, b <= t, All(c, w, b, t), NEW data,
         NEW e \in Int, NEW end \in Int, IsSum(end, e, b), end <= Horizon,
         w.frame_delay \in Nat, w.frame_period \in Nat, w.frame_period <= Longest
  PROVE  All(WriteMode(c, e, data), WriteMode(w, end, data), b, t)
  <1>1. AllBut(c, w, b)
    BY AllSplits
  <1>2. c.irq_flag = w.irq_flag /\ c.frame_delay = w.frame_delay /\ c.frame_period = w.frame_period
    BY DEF All, Rest, SameClock
  <1>3. PICK irq : irq = (BitOf(data, 6) = 0)
    OBVIOUS
  <1>4. PICK delay : delay = (w.frame_delay % 2) + (IF data < 128 THEN w.frame_period ELSE 0)
    OBVIOUS
  <1>5. PICK period : period = w.frame_period
    OBVIOUS
  <1>6. PICK frame : frame = IF data < 128 THEN 1 ELSE 0
    OBVIOUS
  <1>7. PICK on : on = (data < 128 /\ irq)
    OBVIOUS
  <1>8. PICK flag : flag = (w.irq_flag /\ irq)
    OBVIOUS
  <1>9. delay \in Nat /\ delay <= period + 1 /\ period \in Nat /\ period <= Longest
    <2>1. w.frame_delay % 2 \in Nat /\ w.frame_delay % 2 <= 1
      OBVIOUS
    <2> QED
      BY <1>4, <1>5, <2>1
  <1>10. SameIrq(ModeIrq(e, delay, period, on), ModeIrq(end, delay, period, on), b)
    BY <1>9, ModeIrqAlike
  <1>11. WriteMode(c, e, data) = IrqChanged(Sequencer(c, data, flag, delay, frame, ModeIrq(e, delay, period, on)))
    <2>1. delay = (c.frame_delay % 2) + (IF data < 128 THEN c.frame_period ELSE 0)
      BY <1>2, <1>4, Zenon
    <2>2. WriteMode(c, e, data)
            = IrqChanged(Sequencer(c, data, c.irq_flag /\ irq, delay, IF data < 128 THEN 1 ELSE 0,
                                   ModeIrq(e, delay, c.frame_period, data < 128 /\ irq)))
      BY <1>3, <2>1, WriteModeIs, Zenon
    <2> QED
      BY <1>2, <1>5, <1>6, <1>7, <1>8, <2>2, Zenon
  <1>12. WriteMode(w, end, data) = IrqChanged(Sequencer(w, data, flag, delay, frame, ModeIrq(end, delay, period, on)))
    <2>2. WriteMode(w, end, data)
            = IrqChanged(Sequencer(w, data, w.irq_flag /\ irq, delay, IF data < 128 THEN 1 ELSE 0,
                                   ModeIrq(end, delay, w.frame_period, data < 128 /\ irq)))
      BY <1>3, <1>4, WriteModeIs, Zenon
    <2> QED
      BY <1>5, <1>6, <1>7, <1>8, <2>2, Zenon
  <1>13. AllBut(Sequencer(c, data, flag, delay, frame, ModeIrq(e, delay, period, on)),
                Sequencer(w, data, flag, delay, frame, ModeIrq(end, delay, period, on)), b)
    BY <1>1, <1>10, SequencerAll
  <1>14. All(IrqChanged(Sequencer(c, data, flag, delay, frame, ModeIrq(e, delay, period, on))),
             IrqChanged(Sequencer(w, data, flag, delay, frame, ModeIrq(end, delay, period, on))), b, t)
    BY <1>13, IrqChangedAll
  <1> QED
    BY <1>11, <1>12, <1>14, Zenon

\* The IRQ of the sequencer is acknowledged.
Acknowledged(s) == [s EXCEPT !.irq_flag = FALSE]

\* The IRQ is acknowledged in both.
LEMMA AcknowledgedAll ==
  ASSUME NEW c, NEW w, NEW b \in Nat, NEW t \in Int, b <= t, All(c, w, b, t)
  PROVE  All(IrqChanged(Acknowledged(c)), IrqChanged(Acknowledged(w)), b, t)
  <1>1. AllBut(c, w, b)
    BY AllSplits
  <1>2. /\ c.mode = w.mode /\ c.frame_delay = w.frame_delay /\ c.frame = w.frame
        /\ SameIrq(c.next_irq, w.next_irq, b) /\ Formed(c) /\ Formed(w)
    BY DEF All, Bytes, Rest, SameClock
  <1>3. Acknowledged(c) = Sequencer(c, c.mode, FALSE, c.frame_delay, c.frame, c.next_irq)
    BY <1>2 DEF Acknowledged, Sequencer, Formed, Shaped, Fields
  <1>4. Acknowledged(w) = Sequencer(w, w.mode, FALSE, w.frame_delay, w.frame, w.next_irq)
    BY <1>2 DEF Acknowledged, Sequencer, Formed, Shaped, Fields
  <1>5. AllBut(Sequencer(c, w.mode, FALSE, w.frame_delay, w.frame, c.next_irq),
               Sequencer(w, w.mode, FALSE, w.frame_delay, w.frame, w.next_irq), b)
    BY <1>1, <1>2, SequencerAll
  <1>6. AllBut(Acknowledged(c), Acknowledged(w), b)
    BY <1>2, <1>3, <1>4, <1>5
  <1> QED
    BY <1>6, IrqChangedAll

-----------------------------------------------------------------------------
(* The end of a frame, and the tempo. *)

\* Times are counted from the end of a frame.
Moved0(t, end) == IF t = NoIrq THEN t ELSE t - end
Past0(t, end) == IF t = NoIrq THEN t ELSE IF t < end THEN 0 ELSE t - end
Shifted(s, end) ==
  [s EXCEPT !.last_time = @ - end, !.last_dmc_time = @ - end,
            !.next_irq = IF @ = NoIrq THEN @ ELSE @ - end,
            !.dmc.next_irq = IF @ = NoIrq THEN @ ELSE @ - end,
            !.earliest = IF @ = NoIrq THEN @ ELSE IF @ < end THEN 0 ELSE @ - end]
ShiftSet(s, u, end) ==
  /\ Formed(u) /\ u.regs = s.regs /\ u.written = s.written /\ u.len = s.len /\ u.env = s.env
  /\ u.env_delay = s.env_delay /\ u.sweep_delay = s.sweep_delay /\ u.linear = s.linear
  /\ u.delay = s.delay /\ u.phase = s.phase
  /\ u.frame_delay = s.frame_delay /\ u.frame_period = s.frame_period /\ u.frame = s.frame
  /\ u.mode = s.mode /\ u.irq_flag = s.irq_flag
  /\ u.enables = s.enables /\ u.outputs = s.outputs /\ u.pal = s.pal
  /\ u.last_time = s.last_time - end /\ u.last_dmc_time = s.last_dmc_time - end
  /\ u.next_irq = Moved0(s.next_irq, end) /\ u.earliest = Past0(s.earliest, end)
  /\ u.dmc.address = s.dmc.address /\ u.dmc.period = s.dmc.period
  /\ u.dmc.buf_full = s.dmc.buf_full /\ u.dmc.silence = s.dmc.silence
  /\ u.dmc.irq_enabled = s.dmc.irq_enabled /\ u.dmc.irq_flag = s.dmc.irq_flag
  /\ u.dmc.reads = s.dmc.reads /\ u.dmc.bits_remain = s.dmc.bits_remain
  /\ u.dmc.next_irq = Moved0(s.dmc.next_irq, end)

\* What the end of a frame sets.
LEMMA ShiftSets ==
  ASSUME NEW s, Formed(s), NEW end, NEW u, u = Shifted(s, end)
  PROVE  ShiftSet(s, u, end)
  <1>1. DOMAIN s = Fields /\ DOMAIN s.dmc = DmcFields /\ DOMAIN u = Fields
    BY DEF Formed, Shaped, Shifted
  <1>2. /\ u.regs = s.regs /\ u.written = s.written /\ u.len = s.len /\ u.env = s.env
        /\ u.env_delay = s.env_delay /\ u.sweep_delay = s.sweep_delay /\ u.linear = s.linear
        /\ u.delay = s.delay /\ u.phase = s.phase
        /\ u.frame_delay = s.frame_delay /\ u.frame_period = s.frame_period /\ u.frame = s.frame
        /\ u.mode = s.mode /\ u.irq_flag = s.irq_flag
        /\ u.enables = s.enables /\ u.outputs = s.outputs /\ u.pal = s.pal
    BY <1>1 DEF Shifted, Fields
  <1>3. /\ u.last_time = s.last_time - end /\ u.last_dmc_time = s.last_dmc_time - end
        /\ u.next_irq = Moved0(s.next_irq, end) /\ u.earliest = Past0(s.earliest, end)
    BY <1>1 DEF Shifted, Fields, Moved0, Past0
  <1>4. /\ u.dmc.address = s.dmc.address /\ u.dmc.period = s.dmc.period
        /\ u.dmc.buf_full = s.dmc.buf_full /\ u.dmc.silence = s.dmc.silence
        /\ u.dmc.irq_enabled = s.dmc.irq_enabled /\ u.dmc.irq_flag = s.dmc.irq_flag
        /\ u.dmc.reads = s.dmc.reads /\ u.dmc.bits_remain = s.dmc.bits_remain
        /\ u.dmc.next_irq = Moved0(s.dmc.next_irq, end) /\ DOMAIN u.dmc = DmcFields
    BY <1>1 DEF Shifted, Fields, DmcFields, Moved0
  <1>5. Formed(u)
    BY <1>1, <1>2, <1>4 DEF Formed, Shaped
  <1> QED
    BY <1>2, <1>3, <1>4, <1>5, Zenon DEF ShiftSet

\* An IRQ counted from the end of a frame of the first chip.
LEMMA MovedAlike ==
  ASSUME NEW q, NEW r, NEW b \in Nat, SameIrq(q, r, b), NEW end \in Nat,
         NEW z \in Nat, IsSum(z, b, end)
  PROVE  SameIrq(Moved0(q, end), r, z)
  <1>1. CASE r = NoIrq
    BY <1>1 DEF SameIrq, Moved0
  <1>2. CASE r # NoIrq
    <2>1. q \in Int /\ q # NoIrq /\ IsSum(r, q, b) /\ r < NoIrq
      BY <1>2 DEF SameIrq
    <2>2. PICK x \in Int : x = q
      BY <2>1
    <2>3. r = x + b /\ z = b + end
      BY <2>1, <2>2 DEF IsSum
    <2>4. PICK n \in Int : n = NoIrq
      BY DEF NoIrq
    <2>5. x - end < n
      BY <2>1, <2>2, <2>3, <2>4
    <2>6. x - end # NoIrq /\ x - end \in Int /\ r = (x - end) + z
      BY <2>3, <2>4, <2>5
    <2>7. Moved0(q, end) = x - end
      BY <2>1, <2>2 DEF Moved0
    <2> QED
      BY <1>2, <2>1, <2>6, <2>7 DEF SameIrq, IsSum
  <1> QED
    BY <1>1, <1>2

\* The earliest IRQ is not counted below zero.
LEMMA PastAlike ==
  ASSUME NEW q, NEW r, NEW b \in Nat, NEW t \in Nat, t <= Horizon, Due(q, r, b, t), NEW end \in Nat,
         IsSum(t, b, end)
  PROVE  Due(Past0(q, end), r, t, t)
  <1>0. t = b + end
    BY DEF IsSum
  <1>1. PICK n \in Int : n = NoIrq /\ t < n
    BY DEF NoIrq, Horizon
  <1>2. CASE q \in Int /\ r \in Int /\ q + b <= t /\ r <= t
    <2>1. PICK x \in Int : x = q
      BY <1>2
    <2>2. x <= end /\ x # n
      BY <1>0, <1>1, <1>2, <2>1
    <2>3. Past0(q, end) = 0
      BY <1>1, <2>1, <2>2 DEF Past0
    <2> QED
      BY <1>2, <2>3 DEF Due
  <1>3. CASE SameIrq(q, r, b) /\ r # NoIrq
    <2>1. q \in Int /\ q # NoIrq /\ IsSum(r, q, b) /\ r < NoIrq
      BY <1>3 DEF SameIrq
    <2>2. PICK x \in Int : x = q
      BY <2>1
    <2>3. r = x + b
      BY <2>1, <2>2 DEF IsSum
    <2>4. CASE x < end
      <3>1. Past0(q, end) = 0
        BY <2>1, <2>2, <2>4 DEF Past0
      <3>2. r \in Int /\ r <= t
        BY <1>0, <2>3, <2>4
      <3> QED
        BY <3>1, <3>2 DEF Due
    <2>5. CASE ~(x < end)
      <3>1. Past0(q, end) = x - end
        BY <2>1, <2>2, <2>5 DEF Past0
      <3>2. x - end \in Int /\ r = (x - end) + t
        BY <1>0, <2>3
      <3>3. x - end # NoIrq
        BY <1>1, <2>1, <2>3, <1>0
      <3>4. SameIrq(Past0(q, end), r, t)
        BY <1>3, <2>1, <3>1, <3>2, <3>3 DEF SameIrq, IsSum
      <3> QED
        BY <3>4 DEF Due
    <2> QED
      BY <2>4, <2>5
  <1>4. CASE SameIrq(q, r, b) /\ r = NoIrq
    <2>1. q = NoIrq
      BY <1>4 DEF SameIrq
    <2>2. Past0(q, end) = NoIrq
      BY <2>1 DEF Past0
    <2>3. SameIrq(Past0(q, end), r, t)
      BY <1>4, <2>2, NoIrqAlike
    <2> QED
      BY <2>3 DEF Due
  <1> QED
    BY <1>2, <1>3, <1>4 DEF Due

\* The end of a frame of the first chip.
LEMMA ShiftedAll ==
  ASSUME NEW c, NEW w, NEW b \in Nat, NEW t \in Nat, t <= Horizon, All(c, w, b, t),
         w.last_time = t, c.last_time \in Int,
         NEW end \in Nat, IsSum(t, b, end)
  PROVE  All(Shifted(c, end), w, t, t)
  <1>1. Formed(c) /\ Formed(w) /\ Bytes(c, w, b, t) /\ Rest(c, w, b) /\ Spot(c, w, b)
    BY DEF All, Bytes
  <1>2. PICK d : d = Shifted(c, end)
    OBVIOUS
  <1>3. ShiftSet(c, d, end)
    BY <1>1, <1>2, ShiftSets
  <1>4. SameUnits(d, w)
    BY <1>1, <1>3 DEF Rest, Units, SameUnits, ShiftSet
  <1>5. SameTimers(d, w)
    BY <1>1, <1>3 DEF Rest, Units, SameTimers, ShiftSet
  <1>6. SameIrq(d.next_irq, w.next_irq, t)
    <2>1. SameIrq(c.next_irq, w.next_irq, b)
      BY <1>1 DEF Rest, SameClock
    <2>2. SameIrq(Moved0(c.next_irq, end), w.next_irq, t)
      BY <2>1, MovedAlike
    <2> QED
      BY <1>3, <2>2 DEF ShiftSet
  <1>7. SameClock(d, w, t)
    <2>1. IsSum(w.last_time, d.last_time, t)
      <3>1. IsSum(w.last_time, c.last_time, b)
        BY <1>1 DEF Rest, SameClock
      <3>2. d.last_time = c.last_time - end
        BY <1>3 DEF ShiftSet
      <3> QED
        BY <3>1, <3>2 DEF IsSum
    <2> QED
      BY <1>1, <1>3, <1>6, <2>1 DEF Rest, SameClock, ShiftSet
  <1>8. Rest(d, w, t)
    BY <1>1, <1>3, <1>4, <1>5, <1>7 DEF Rest, Units, ShiftSet
  <1>9. SameIrq(d.dmc.next_irq, w.dmc.next_irq, t)
    <2>1. SameIrq(c.dmc.next_irq, w.dmc.next_irq, b)
      BY <1>1 DEF Bytes
    <2>2. SameIrq(Moved0(c.dmc.next_irq, end), w.dmc.next_irq, t)
      BY <2>1, MovedAlike
    <2> QED
      BY <1>3, <2>2 DEF ShiftSet
  <1>10. SameWait(d, w, t, t)
    <2>1. CASE c.irq_flag
      BY <1>3, <2>1 DEF SameWait, ShiftSet
    <2>2. CASE ~c.irq_flag
      <3>1. ~w.irq_flag /\ Due(c.earliest, w.earliest, b, t)
        BY <1>1, <2>2 DEF Bytes, SameWait
      <3>2. Due(Past0(c.earliest, end), w.earliest, t, t)
        BY <3>1, PastAlike
      <3>3. d.earliest = Past0(c.earliest, end)
        BY <1>3 DEF ShiftSet
      <3> QED
        BY <1>6, <3>1, <3>2, <3>3 DEF SameWait
    <2> QED
      BY <2>1, <2>2
  <1>11. Bytes(d, w, t, t)
    BY <1>1, <1>3, <1>9, <1>10 DEF Bytes, ShiftSet
  <1>12. Spot(d, w, t)
    <2>1. d.last_dmc_time \in Int /\ IsSum(w.last_dmc_time, d.last_dmc_time, t)
      <3>1. c.last_dmc_time \in Int /\ IsSum(w.last_dmc_time, c.last_dmc_time, b)
        BY <1>1 DEF Spot
      <3>2. d.last_dmc_time = c.last_dmc_time - end
        BY <1>3 DEF ShiftSet
      <3> QED
        BY <3>1, <3>2 DEF IsSum
    <2> QED
      BY <1>1, <1>3, <2>1 DEF Spot, ShiftSet
  <1> QED
    BY <1>2, <1>8, <1>11, <1>12, Zenon DEF All

\* A change of tempo.
LEMMA RetimedAll ==
  ASSUME NEW c, NEW w, NEW b, NEW t, All(c, w, b, t), NEW p,
         NEW d, HasPeriod(c, d, p), NEW v, HasPeriod(w, v, p)
  PROVE  All(d, v, b, t)
  <1>1. Formed(c) /\ Formed(w) /\ Bytes(c, w, b, t) /\ Rest(c, w, b) /\ Spot(c, w, b)
    BY DEF All, Bytes
  <1>2. /\ DOMAIN d = Fields /\ d.frame_period = p /\ \A x \in Fields \ {"frame_period"} : d[x] = c[x]
        /\ DOMAIN v = Fields /\ v.frame_period = p /\ \A x \in Fields \ {"frame_period"} : v[x] = w[x]
    BY <1>1 DEF Formed, Shaped, HasPeriod, Fields
  <1>3. /\ d.regs = c.regs /\ d.written = c.written /\ d.len = c.len /\ d.env = c.env
        /\ d.env_delay = c.env_delay /\ d.sweep_delay = c.sweep_delay /\ d.linear = c.linear
        /\ d.delay = c.delay /\ d.phase = c.phase /\ d.dmc = c.dmc
        /\ d.last_time = c.last_time /\ d.last_dmc_time = c.last_dmc_time
        /\ d.frame_delay = c.frame_delay /\ d.frame = c.frame
        /\ d.mode = c.mode /\ d.enables = c.enables /\ d.irq_flag = c.irq_flag
        /\ d.next_irq = c.next_irq /\ d.earliest = c.earliest
        /\ d.outputs = c.outputs /\ d.pal = c.pal
    BY <1>2 DEF Fields
  <1>4. /\ v.regs = w.regs /\ v.written = w.written /\ v.len = w.len /\ v.env = w.env
        /\ v.env_delay = w.env_delay /\ v.sweep_delay = w.sweep_delay /\ v.linear = w.linear
        /\ v.delay = w.delay /\ v.phase = w.phase /\ v.dmc = w.dmc
        /\ v.last_time = w.last_time /\ v.last_dmc_time = w.last_dmc_time
        /\ v.frame_delay = w.frame_delay /\ v.frame = w.frame
        /\ v.mode = w.mode /\ v.enables = w.enables /\ v.irq_flag = w.irq_flag
        /\ v.next_irq = w.next_irq /\ v.earliest = w.earliest
        /\ v.outputs = w.outputs /\ v.pal = w.pal
    BY <1>2 DEF Fields
  <1>5. Formed(d) /\ Formed(v)
    BY <1>1, <1>2, <1>3, <1>4 DEF Formed, Shaped
  <1>6. SameUnits(d, v) /\ SameTimers(d, v)
    BY <1>1, <1>3, <1>4 DEF Rest, Units, SameUnits, SameTimers
  <1>7. SameClock(d, v, b)
    BY <1>1, <1>2, <1>3, <1>4 DEF Rest, SameClock
  <1>8. Bytes(d, v, b, t)
    BY <1>1, <1>3, <1>4, <1>5 DEF Bytes, SameWait
  <1>9. Spot(d, v, b)
    BY <1>1, <1>3, <1>4 DEF Spot, Small, Short
  <1> QED
    BY <1>5, <1>6, <1>7, <1>8, <1>9 DEF All, Rest, Units

-----------------------------------------------------------------------------
(* The operations of Nes_Apu, each done to both chips. *)

\* Two chips that are the same, and in order.
Fine(c, w, b) == Same(c, w, b) /\ Chip(c) /\ Chip(w) /\ Small(w) /\ b \in Nat
Bounded(w) == w.last_time \in Nat /\ w.last_time <= Horizon /\ w.frame_period \in Nat
              /\ w.frame_period <= Longest /\ w.frame_delay \in Nat

\* What there is to two chips that are alike and in order.
LEMMA FineIsAll ==
  ASSUME NEW c, NEW w, NEW b, Fine(c, w, b)
  PROVE  /\ All(c, w, b, w.last_time) /\ Bounded(w) /\ b \in Nat /\ b <= w.last_time
         /\ IsSum(w.last_time, c.last_time, b) /\ c.last_time \in Int
         /\ Chip(c) /\ Chip(w) /\ Formed(c) /\ Formed(w)
  <1>1. Same(c, w, b) /\ Chip(c) /\ Chip(w) /\ Small(w) /\ b \in Nat
    BY DEF Fine
  <1>2. Rest(c, w, b) /\ DmcPair(c, w, b, w.last_time) /\ Ready(c) /\ Ready(w)
        /\ 0 <= w.last_time /\ b <= w.last_time
    BY <1>1 DEF Same
  <1>3. Bytes(c, w, b, w.last_time) /\ DmcOk(w) /\ c.dmc.bits_remain = w.dmc.bits_remain
        /\ c.delay[4] = w.delay[4] /\ IsSum(w.last_dmc_time, c.last_dmc_time, b)
    BY <1>2 DEF DmcPair
  <1>4. Runs(c) /\ Runs(w) /\ c.last_dmc_time = c.last_time /\ w.last_dmc_time = w.last_time
    BY <1>2 DEF Ready
  <1>5. Timed(c) /\ Timed(w) /\ w.last_time <= Horizon /\ w.frame_period <= Longest
    BY <1>4, RunsIsShaped
  <1>6. c.last_time \in Int /\ w.last_time \in Int /\ w.frame_period \in Nat /\ w.frame_delay \in Nat
    BY <1>5 DEF Timed
  <1>7. w.dmc.bits_remain \in 1 .. 8 /\ w.dmc.period \in Nat
    BY <1>3 DEF DmcOk, DmcNumbers
  <1>8. Spot(c, w, b)
    BY <1>1, <1>3, <1>4, <1>5, <1>6, <1>7 DEF Spot
  <1>9. IsSum(w.last_time, c.last_time, b)
    BY <1>2 DEF Rest, SameClock
  <1>10. Bounded(w)
    BY <1>2, <1>5, <1>6 DEF Bounded
  <1>11. Formed(c) /\ Formed(w)
    BY <1>3 DEF Bytes
  <1> QED
    BY <1>1, <1>2, <1>3, <1>6, <1>8, <1>9, <1>10, <1>11 DEF All

\* What it takes to be run.
LEMMA RunsItself ==
  ASSUME NEW s, Formed(s), Timed(s), SameIrq(s.next_irq, s.next_irq, 0), s.last_time <= Horizon,
         s.frame_period <= Longest
  PROVE  Runs(s)
  <1>1. Rest(s, s, 0)
    BY RestItself
  <1> QED
    BY <1>1 DEF Runs, Pair

\* An IRQ that is like another is like itself.
LEMMA SameIrqItself ==
  ASSUME NEW q, NEW r, NEW b \in Nat, SameIrq(q, r, b)
  PROVE  SameIrq(q, q, 0) /\ SameIrq(r, r, 0)
  <1>1. CASE r = NoIrq
    BY <1>1, NoIrqAlike DEF SameIrq
  <1>2. CASE r # NoIrq
    <2>1. q \in Int /\ q # NoIrq /\ IsSum(r, q, b) /\ r < NoIrq
      BY <1>2 DEF SameIrq
    <2>2. PICK x \in Int : x = q
      BY <2>1
    <2>3. r = x + b
      BY <2>1, <2>2 DEF IsSum
    <2>4. PICK n \in Int : n = NoIrq
      BY DEF NoIrq
    <2>5. x < n /\ x = x + 0 /\ r = r + 0 /\ r \in Int
      BY <2>1, <2>3, <2>4
    <2>6. SameIrq(q, q, 0)
      BY <2>1, <2>2, <2>4, <2>5 DEF SameIrq, IsSum
    <2>7. SameIrq(r, r, 0)
      BY <1>2, <2>1, <2>5 DEF SameIrq, IsSum
    <2> QED
      BY <2>6, <2>7
  <1> QED
    BY <1>1, <1>2

\* What it takes to be alike and in order.
LEMMA AllIsFine ==
  ASSUME NEW x, NEW y, NEW b \in Nat, All(x, y, b, y.last_time), Chip(x), Chip(y),
         b <= y.last_time, 0 <= y.last_time, y.last_time <= Horizon, y.frame_period <= Longest
  PROVE  Fine(x, y, b)
  <1>1. Rest(x, y, b) /\ Bytes(x, y, b, y.last_time) /\ Spot(x, y, b)
    BY DEF All
  <1>2. Formed(x) /\ Formed(y) /\ x.dmc.silence \in BOOLEAN /\ y.dmc.silence \in BOOLEAN
    BY <1>1 DEF Bytes
  <1>3. DmcOk(x) /\ DmcOk(y) /\ Timed(x) /\ Timed(y) /\ x.last_dmc_time = x.last_time
        /\ y.last_dmc_time = y.last_time
    BY DEF Chip
  <1>4. DmcPair(x, y, b, y.last_time)
    BY <1>1, <1>3 DEF DmcPair, Spot
  <1>5. SameIrq(x.next_irq, y.next_irq, b) /\ IsSum(y.last_time, x.last_time, b)
        /\ x.frame_period = y.frame_period
    BY <1>1 DEF Rest, SameClock
  <1>6. SameIrq(x.next_irq, x.next_irq, 0) /\ SameIrq(y.next_irq, y.next_irq, 0)
    BY <1>5, SameIrqItself
  <1>7. x.last_time <= Horizon
    <2>1. PICK h \in Int : h = Horizon
      BY DEF Horizon
    <2>2. x.last_time \in Int /\ y.last_time \in Int
      BY <1>3 DEF Timed
    <2> QED
      BY <1>5, <2>1, <2>2 DEF IsSum
  <1>8. Runs(x) /\ Runs(y)
    BY <1>2, <1>3, <1>5, <1>6, <1>7, RunsItself
  <1>9. Ready(x) /\ Ready(y)
    BY <1>2, <1>3, <1>8 DEF Ready, Drives
  <1>10. Same(x, y, b)
    BY <1>1, <1>4, <1>9 DEF Same
  <1> QED
    BY <1>1, <1>10 DEF Fine, Spot

\* Both are run.
LEMMA FineRuns ==
  ASSUME NEW c, NEW w, NEW b, Fine(c, w, b), NEW e \in Int, NEW end \in Int,
         IsSum(end, e, b), w.last_time <= end, end <= Horizon,
         NEW x, x = RunUntil(c, e), NEW y, y = RunUntil(w, end)
  PROVE  Fine(x, y, b) /\ x.last_time = e /\ y.last_time = end
  <1>1. /\ Same(c, w, b) /\ Chip(c) /\ Chip(w) /\ Small(w) /\ b \in Nat
        /\ IsSum(w.last_time, c.last_time, b) /\ c.last_time \in Int /\ w.last_time \in Int
    BY FineIsAll DEF Fine, Bounded
  <1>2. Same(x, y, b) /\ x.last_time = e /\ y.last_time = end
    BY <1>1, RunUntilSame
  <1>3. c.last_time <= e
    BY <1>1 DEF IsSum
  <1>4. Chip(x)
    <2>1. RunsTo(c, x, e)
      BY <1>1, <1>3, RunUntilRuns
    <2> QED
      BY <2>1 DEF RunsTo
  <1>5. Chip(y)
    <2>1. RunsTo(w, y, end)
      BY <1>1, RunUntilRuns
    <2> QED
      BY <2>1 DEF RunsTo
  <1>6. Small(y)
    <2>1. Ready(w)
      BY <1>1 DEF Same
    <2> QED
      BY <1>1, <2>1, RunUntilSmall
  <1> QED
    BY <1>1, <1>2, <1>4, <1>5, <1>6 DEF Fine

\* A chip that is like another is like itself.
LEMMA FineItself ==
  ASSUME NEW c, NEW w, NEW b, Fine(c, w, b) PROVE Fine(w, w, 0)
  <1>1. /\ All(c, w, b, w.last_time) /\ Bounded(w) /\ b \in Nat /\ Chip(w) /\ Formed(w)
        /\ b <= w.last_time
    BY FineIsAll
  <1>2. Rest(c, w, b) /\ Bytes(c, w, b, w.last_time) /\ Spot(c, w, b)
    BY <1>1 DEF All
  <1>3. Rest(w, w, 0)
    <2>1. Ready(w)
      BY DEF Fine, Same
    <2> QED
      BY <2>1, RunsIsShaped DEF Ready
  <1>4. SameIrq(w.dmc.next_irq, w.dmc.next_irq, 0)
    <2>1. SameIrq(c.dmc.next_irq, w.dmc.next_irq, b)
      BY <1>2 DEF Bytes
    <2> QED
      BY <1>1, <2>1, SameIrqItself
  <1>5. SameWait(w, w, 0, w.last_time)
    <2>1. CASE w.irq_flag
      BY <2>1 DEF SameWait
    <2>2. CASE ~w.irq_flag
      <3>1. c.irq_flag = w.irq_flag /\ SameIrq(c.next_irq, w.next_irq, b)
        BY <1>2 DEF Rest, SameClock
      <3>2. Due(c.earliest, w.earliest, b, w.last_time)
        BY <1>2, <2>2, <3>1 DEF Bytes, SameWait
      <3>3. SameIrq(w.next_irq, w.next_irq, 0)
        BY <1>1, <3>1, SameIrqItself
      <3>4. Due(w.earliest, w.earliest, 0, w.last_time)
        <4>1. CASE SameIrq(c.earliest, w.earliest, b)
          <5>1. SameIrq(w.earliest, w.earliest, 0)
            BY <1>1, <4>1, SameIrqItself
          <5> QED
            BY <5>1 DEF Due
        <4>2. CASE w.earliest \in Int /\ w.earliest <= w.last_time
          <5>1. w.earliest + 0 <= w.last_time
            BY <4>2
          <5> QED
            BY <4>2, <5>1 DEF Due
        <4> QED
          BY <3>2, <4>1, <4>2 DEF Due
      <3> QED
        BY <2>2, <3>3, <3>4 DEF SameWait
    <2> QED
      BY <2>1, <2>2
  <1>6. Bytes(w, w, 0, w.last_time)
    BY <1>2, <1>4, <1>5 DEF Bytes
  <1>7. Spot(w, w, 0)
    <2>1. IsSum(w.last_dmc_time, w.last_dmc_time, 0)
      BY <1>2 DEF Spot, IsSum
    <2> QED
      BY <1>2, <2>1 DEF Spot
  <1>8. All(w, w, 0, w.last_time)
    BY <1>3, <1>6, <1>7 DEF All
  <1>9. 0 <= w.last_time /\ w.last_time <= Horizon /\ w.frame_period <= Longest
    BY <1>1 DEF Bounded
  <1> QED
    BY <1>1, <1>8, <1>9, AllIsFine

\* What is done to both, at the same time, leaves them like each other.
LEMMA FineAfter ==
  ASSUME NEW c, NEW w, NEW b, Fine(c, w, b), NEW x, NEW y, All(x, y, b, w.last_time),
         Chip(x), Chip(y), y.last_time = w.last_time, y.frame_period = w.frame_period
  PROVE  Fine(x, y, b)
  <1>1. Bounded(w) /\ b \in Nat /\ b <= w.last_time
    BY FineIsAll
  <1>2. b <= y.last_time /\ 0 <= y.last_time /\ y.last_time <= Horizon /\ y.frame_period <= Longest
    BY <1>1 DEF Bounded
  <1>3. All(x, y, b, y.last_time)
    BY Zenon
  <1> QED
    BY <1>1, <1>2, <1>3, AllIsFine

\* A write to $4017 leaves the period of the tempo.
LEMMA WriteModeKeepsPeriod ==
  ASSUME NEW s, Formed(s), NEW time, NEW data, NEW u, u = WriteMode(s, time, data)
  PROVE  u.frame_period = s.frame_period
  BY DEF Formed, Shaped, Fields, WriteMode, IrqChanged

Written(s, time, addr, data) ==
  CASE addr \in 16384 .. 16403 -> WriteChannel(s, addr, data)
    [] addr = 16405 -> WriteEnables(s, data)
    [] addr = 16407 -> WriteMode(s, time, data)
    [] OTHER -> s

\* A write runs the chip to its time first.
LEMMA WriteRegisterIs ==
  ASSUME NEW s, NEW time, NEW addr, NEW data
  PROVE  WriteRegister(s, time, addr, data) = Written(RunUntil(s, time), time, addr, data)
  BY DEF WriteRegister, Written

\* The addresses a write is for.
LEMMA WrittenIs ==
  ASSUME NEW s, NEW time, NEW addr \in Int, NEW data
  PROVE  /\ addr \in 16384 .. 16403 => Written(s, time, addr, data) = WriteChannel(s, addr, data)
         /\ addr = 16405 => Written(s, time, addr, data) = WriteEnables(s, data)
         /\ addr = 16407 => Written(s, time, addr, data) = WriteMode(s, time, data)
         /\ addr \notin 16384 .. 16403 /\ addr # 16405 /\ addr # 16407
              => Written(s, time, addr, data) = s
  BY DEF Written

\* ...at those times.
FineAt(c, w, b, e, end) == Fine(c, w, b) /\ c.last_time = e /\ w.last_time = end

\* A write, to chips that are at its time.
LEMMA WrittenFine ==
  ASSUME NEW c, NEW w, NEW b, Fine(c, w, b), NEW addr \in Int, NEW data \in 0 .. 255,
         NEW e, e = c.last_time, NEW end, end = w.last_time,
         NEW x, x = Written(c, e, addr, data), NEW y, y = Written(w, end, addr, data)
  PROVE  FineAt(x, y, b, e, end)
  <1>1. /\ All(c, w, b, w.last_time) /\ Bounded(w) /\ b \in Nat /\ b <= w.last_time
        /\ IsSum(w.last_time, c.last_time, b) /\ c.last_time \in Int
        /\ Chip(c) /\ Chip(w) /\ Formed(c) /\ Formed(w)
    BY FineIsAll
  <1>2. w.last_time \in Int /\ w.last_time <= Horizon /\ w.frame_delay \in Nat
        /\ w.frame_period \in Nat /\ w.frame_period <= Longest
    BY <1>1 DEF Bounded
  <1>3. CASE addr \in 16384 .. 16403
    <2>1. x = WriteChannel(c, addr, data) /\ y = WriteChannel(w, addr, data)
      BY <1>3, WrittenIs
    <2>2. All(x, y, b, w.last_time)
      <3>1. All(WriteChannel(c, addr, data), WriteChannel(w, addr, data), b, w.last_time)
        <4>1. OfChannel(addr)
          BY <1>3 DEF OfChannel
        <4> QED
          BY <1>1, <1>2, <4>1, WriteChannelAll
      <3> QED
        BY <2>1, <3>1, Zenon
    <2>3. RunsTo(c, x, c.last_time)
      BY <1>1, <1>3, <2>1, WriteChannelRuns
    <2>4. RunsTo(w, y, w.last_time)
      BY <1>1, <1>3, <2>1, WriteChannelRuns
    <2>5. Chip(x) /\ Chip(y) /\ y.last_time = w.last_time /\ y.frame_period = w.frame_period
          /\ x.last_time = c.last_time
      BY <2>3, <2>4 DEF RunsTo
    <2>6. Fine(x, y, b)
      BY <2>2, <2>5, FineAfter
    <2> QED
      BY <2>5, <2>6 DEF FineAt
  <1>4. CASE addr = 16405
    <2>1. x = WriteEnables(c, data) /\ y = WriteEnables(w, data)
      BY <1>4, WrittenIs
    <2>2. All(x, y, b, w.last_time)
      <3>1. All(WriteEnables(c, data), WriteEnables(w, data), b, w.last_time)
        BY <1>1, <1>2, WriteEnablesAll
      <3> QED
        BY <2>1, <3>1, Zenon
    <2>3. RunsTo(c, x, c.last_time)
      BY <1>1, <2>1, WriteEnablesRuns
    <2>4. RunsTo(w, y, w.last_time)
      BY <1>1, <2>1, WriteEnablesRuns
    <2>5. Chip(x) /\ Chip(y) /\ y.last_time = w.last_time /\ y.frame_period = w.frame_period
          /\ x.last_time = c.last_time
      BY <2>3, <2>4 DEF RunsTo
    <2>6. Fine(x, y, b)
      BY <2>2, <2>5, FineAfter
    <2> QED
      BY <2>5, <2>6 DEF FineAt
  <1>5. CASE addr = 16407
    <2>1. x = WriteMode(c, e, data) /\ y = WriteMode(w, end, data)
      BY <1>5, WrittenIs
    <2>2. All(x, y, b, w.last_time)
      <3>1. All(WriteMode(c, c.last_time, data), WriteMode(w, w.last_time, data), b, w.last_time)
        BY <1>1, <1>2, WriteModeAll
      <3> QED
        BY <2>1, <3>1, Zenon
    <2>3. Restarts(c, x, e, data)
      BY <1>1, <2>1, WriteModeRestarts
    <2>4. Restarts(w, y, end, data)
      BY <1>1, <2>1, WriteModeRestarts
    <2>5. Chip(x) /\ Chip(y) /\ y.last_time = w.last_time /\ x.last_time = c.last_time
      BY <2>3, <2>4 DEF Restarts
    <2>6. y.frame_period = w.frame_period
      BY <1>1, <2>1, WriteModeKeepsPeriod
    <2>7. Fine(x, y, b)
      BY <2>2, <2>5, <2>6, FineAfter
    <2> QED
      BY <2>5, <2>7 DEF FineAt
  <1>6. CASE addr \notin 16384 .. 16403 /\ addr # 16405 /\ addr # 16407
    <2>1. x = c /\ y = w
      BY <1>6, WrittenIs
    <2> QED
      BY <2>1 DEF FineAt
  <1> QED
    BY <1>3, <1>4, <1>5, <1>6

\* The channels that play and the IRQs that are raised.
Answer(before, after) ==
  {i \in Oscs : before.len[i] > 0} \cup (IF before.dmc.irq_flag THEN {7} ELSE {})
    \cup (IF after.irq_flag THEN {6} ELSE {})
Answered(after) == IF after.irq_flag THEN IrqChanged(Acknowledged(after)) ELSE after

\* A read of $4015 runs the chip twice, and answers from between.
LEMMA StatusIs ==
  ASSUME NEW s, NEW time, NEW before, before = RunUntil(s, time - 1),
         NEW after, after = RunUntil(before, time)
  PROVE  Status(s, time).result = Answer(before, after) /\ Status(s, time).apu = Answered(after)
  BY DEF Status, Answer, Answered, Acknowledged

\* Chips that are alike before and at the time of a read answer alike.
LEMMA AnswersAlike ==
  ASSUME NEW p, NEW q, NEW b, Fine(p, q, b), NEW d, NEW v, Fine(d, v, b)
  PROVE  Answer(p, d) = Answer(q, v) /\ (d.irq_flag <=> v.irq_flag)
  <1>1. All(p, q, b, q.last_time) /\ All(d, v, b, v.last_time)
    BY FineIsAll
  <1>2. /\ \A i \in Oscs : p.len[i] = q.len[i]
        /\ p.dmc.irq_flag = q.dmc.irq_flag /\ d.irq_flag = v.irq_flag
    <2>1. \A i \in 0 .. 3 : p.len[i] = q.len[i]
      BY <1>1 DEF All, Rest, Units, SameUnits
    <2>2. p.len[4] = q.len[4] /\ p.dmc.irq_flag = q.dmc.irq_flag
      BY <1>1 DEF All, Bytes
    <2>3. d.irq_flag = v.irq_flag
      BY <1>1 DEF All, Rest, SameClock
    <2> QED
      BY <2>1, <2>2, <2>3 DEF Oscs
  <1>3. {i \in Oscs : p.len[i] > 0} = {i \in Oscs : q.len[i] > 0}
    BY <1>2
  <1> QED
    BY <1>2, <1>3, Zenon DEF Answer

\* Acknowledging the IRQ leaves the chip in order.
LEMMA AcknowledgedChip ==
  ASSUME NEW s, Chip(s), NEW u, u = IrqChanged(Acknowledged(s))
  PROVE  Chip(u) /\ u.last_time = s.last_time /\ u.frame_period = s.frame_period
  <1>1. PICK t : t = [s EXCEPT !.irq_flag = FALSE]
    OBVIOUS
  <1>2. u = IrqChanged(t)
    BY <1>1 DEF Acknowledged
  <1>3. /\ DOMAIN t = Fields /\ t.dmc = s.dmc /\ t.len = s.len /\ t.delay = s.delay
        /\ t.enables = s.enables /\ KeepsTime(s, t) /\ t.regs = s.regs
    BY <1>1 DEF Chip, Shaped, Fields, KeepsTime
  <1>4. Shaped(t) /\ DmcOk(t)
    BY <1>3 DEF Chip, Shaped, DmcOk, Whole, DmcNumbers, Loops, IrqTime, KeepsTime
  <1>5. Aside(t, u) /\ DmcOk(u)
    BY <1>2, <1>4, IrqChangedRuns
  <1>6. Shaped(u) /\ KeepsTime(s, u)
    BY <1>3, <1>5 DEF Aside, KeepsTime
  <1>7. \A i \in 0 .. 3 : i \notin u.enables => u.len[i] = 0
    BY <1>3, <1>5 DEF Aside, Chip
  <1>8. RunsTo(s, u, s.last_time)
    BY <1>5, <1>6, <1>7, TimeIsKept
  <1> QED
    BY <1>8 DEF RunsTo

\* What the answer leaves.
LEMMA AnsweredFine ==
  ASSUME NEW c, NEW w, NEW b, Fine(c, w, b)
  PROVE  Fine(Answered(c), Answered(w), b) /\ Answered(w).last_time = w.last_time
  <1>1. /\ All(c, w, b, w.last_time) /\ Bounded(w) /\ b \in Nat /\ b <= w.last_time
        /\ Chip(c) /\ Chip(w) /\ Formed(c) /\ Formed(w)
    BY FineIsAll
  <1>2. c.irq_flag = w.irq_flag
    BY <1>1 DEF All, Rest, SameClock
  <1>3. CASE ~w.irq_flag
    BY <1>2, <1>3 DEF Answered
  <1>4. CASE w.irq_flag
    <2>1. PICK x : x = IrqChanged(Acknowledged(c))
      OBVIOUS
    <2>2. PICK y : y = IrqChanged(Acknowledged(w))
      OBVIOUS
    <2>3. Answered(c) = x /\ Answered(w) = y
      BY <1>2, <1>4, <2>1, <2>2 DEF Answered
    <2>4. All(x, y, b, w.last_time)
      <3>1. w.last_time \in Int
        BY <1>1 DEF Bounded
      <3>2. All(IrqChanged(Acknowledged(c)), IrqChanged(Acknowledged(w)), b, w.last_time)
        BY <1>1, <3>1, AcknowledgedAll
      <3> QED
        BY <2>1, <2>2, <3>2, Zenon
    <2>5. Chip(x)
      BY <1>1, <2>1, AcknowledgedChip
    <2>6. Chip(y) /\ y.last_time = w.last_time /\ y.frame_period = w.frame_period
      BY <1>1, <2>2, AcknowledgedChip
    <2>7. Fine(x, y, b)
      BY <2>4, <2>5, <2>6, FineAfter
    <2> QED
      BY <2>3, <2>6, <2>7
  <1> QED
    BY <1>3, <1>4

\* The end of a frame, for the first chip alone.
LEMMA ShiftedFine ==
  ASSUME NEW c, NEW w, NEW b, Fine(c, w, b), NEW end \in Nat, end = w.last_time, NEW e \in Nat, e = c.last_time,
         NEW x, x = Shifted(c, e), Chip(x)
  PROVE  Fine(x, w, end)
  <1>1. /\ All(c, w, b, w.last_time) /\ Bounded(w) /\ b \in Nat /\ b <= w.last_time
        /\ IsSum(w.last_time, c.last_time, b) /\ c.last_time \in Int
        /\ Chip(w)
    BY FineIsAll
  <1>2. end <= Horizon /\ w.frame_period <= Longest
    BY <1>1 DEF Bounded
  <1>3. All(c, w, b, end)
    BY <1>1
  <1>4. IsSum(end, b, e)
    BY <1>1 DEF IsSum
  <1>5. All(Shifted(c, e), w, end, end)
    BY <1>1, <1>2, <1>3, <1>4, ShiftedAll
  <1>6. All(x, w, end, w.last_time)
    BY <1>5
  <1>7. end <= w.last_time /\ 0 <= w.last_time /\ w.last_time <= Horizon
    BY <1>2
  <1> QED
    BY <1>1, <1>2, <1>6, <1>7, AllIsFine

\* The end of a frame runs the chip to it, then counts from it.
LEMMA EndFrameIs ==
  ASSUME NEW s, NEW end \in Int, s.last_time < end
  PROVE  EndFrame(s, end) = Shifted(RunUntil(s, end), end)
  BY DEF EndFrame, Shifted

\* The period of a tempo.
PeriodAt(pal, num, den) ==
  IF num = den THEN (IF pal THEN 8314 ELSE 7458)
  ELSE 2 * (((IF pal THEN 8314 ELSE 7458) * den) \div (2 * num))

\* No tempo a caller may set makes a step longer than the longest.
LEMMA PeriodIsBounded ==
  ASSUME NEW num \in Nat \ {0}, NEW den \in Nat \ {0}, den <= 50 * num, NEW pal
  PROVE  PeriodAt(pal, num, den) <= Longest
  <1>1. PICK f \in Nat : f = (IF pal THEN 8314 ELSE 7458) /\ f <= 8314
    OBVIOUS
  <1>2. CASE num = den
    BY <1>1, <1>2 DEF PeriodAt, Longest
  <1>3. CASE num # den
    <2>1. PICK n \in Nat : n = f * den
      OBVIOUS
    <2>2. PICK d \in Nat \ {0} : d = 2 * num
      OBVIOUS
    <2>3. PICK k \in Int : k = n \div d /\ k * d <= n
      BY Division
    <2>4. f * den <= 8314 * den
      BY <1>1, Scaling
    <2>5. n <= 207850 * d
      BY <2>1, <2>2, <2>4
    <2>6. k <= 207850
      <3>1. SUFFICES ASSUME k >= 207851 PROVE FALSE
        BY <2>3
      <3>2. 207851 * d <= k * d
        BY <3>1, Scaling
      <3> QED
        BY <2>3, <2>5, <3>2
    <2>7. PeriodAt(pal, num, den) = 2 * k
      BY <1>1, <1>3, <2>1, <2>2, <2>3 DEF PeriodAt
    <2> QED
      BY <2>6, <2>7 DEF Longest
  <1> QED
    BY <1>2, <1>3

\* A tempo sets the period of the steps.
LEMMA SetTempoIs ==
  ASSUME NEW s, NEW num, NEW den
  PROVE  HasPeriod(s, SetTempo(s, num, den), PeriodAt(s.pal, num, den))
  BY DEF SetTempo, HasPeriod, PeriodAt, FramePeriod

\* The same tempo in both.
LEMMA SetTempoFine ==
  ASSUME NEW c, NEW w, NEW b, Fine(c, w, b), NEW num \in Nat \ {0}, NEW den \in Nat \ {0},
         den <= 50 * num, num <= 4 * den,
         NEW x, x = SetTempo(c, num, den), NEW y, y = SetTempo(w, num, den)
  PROVE  Fine(x, y, b) /\ y.last_time = w.last_time
  <1>1. /\ All(c, w, b, w.last_time) /\ Bounded(w) /\ b \in Nat /\ b <= w.last_time
        /\ Chip(c) /\ Chip(w) /\ Formed(w)
    BY FineIsAll
  <1>2. c.pal = w.pal
    BY <1>1 DEF All, Bytes
  <1>3. PICK p : p = PeriodAt(w.pal, num, den)
    OBVIOUS
  <1>4. HasPeriod(c, x, p)
    BY <1>2, <1>3, SetTempoIs
  <1>5. HasPeriod(w, y, p)
    BY <1>3, SetTempoIs
  <1>6. All(x, y, b, w.last_time)
    BY <1>1, <1>4, <1>5, RetimedAll
  <1>7. Chip(x)
    <2>1. Retimed(c, x)
      BY <1>1, SetTempoKeeps
    <2> QED
      BY <2>1 DEF Retimed
  <1>8. Chip(y) /\ y.last_time = w.last_time
    <2>1. Retimed(w, y)
      BY <1>1, SetTempoKeeps
    <2> QED
      BY <2>1 DEF Retimed
  <1>9. y.frame_period <= Longest
    <2>1. y.frame_period = p
      BY <1>1, <1>5 DEF HasPeriod, Formed, Shaped, Fields
    <2> QED
      BY <1>3, <2>1, PeriodIsBounded
  <1>10. b <= y.last_time /\ 0 <= y.last_time /\ y.last_time <= Horizon
    BY <1>1, <1>8 DEF Bounded
  <1>11. All(x, y, b, y.last_time)
    BY <1>6, <1>8
  <1> QED
    BY <1>1, <1>7, <1>8, <1>9, <1>10, <1>11, AllIsFine

-----------------------------------------------------------------------------
(* The caller's clock. *)

\* Some time has passed.
LEMMA LaterInHorizon ==
  ASSUME NEW n \in Nat, NEW c \in Nat, c < MaxCalls, MaxCalls * n <= c * Horizon,
         NEW wait \in Waits, NEW k, k = c + 1, NEW m, m = n + wait
  PROVE  /\ m \in Nat /\ n < m /\ m <= Horizon
         /\ k \in Nat /\ k <= MaxCalls /\ MaxCalls * m <= k * Horizon
  <1>1. MaxCalls \in Nat \ {0} /\ wait \in Nat \ {0}
    BY HorizonAssumption, WaitsAssumption
  <1>2. MaxCalls * wait <= Horizon
    <2>1. NoIrq \div 2 = Horizon
      BY DEF NoIrq, Horizon
    <2> QED
      BY <2>1, HorizonAssumption DEF InHorizon
  <1>3. PICK p \in Int, q \in Int, r \in Int, h \in Nat :
           p = MaxCalls * n /\ q = MaxCalls * wait /\ h = Horizon /\ r = c * Horizon
    BY <1>1 DEF Horizon
  <1>4. MaxCalls * m = p + q
    BY <1>1, <1>3
  <1>5. k * Horizon = r + h
    BY <1>3 DEF Horizon
  <1>6. MaxCalls * m <= k * Horizon
    BY <1>2, <1>3, <1>4, <1>5
  <1>7. k \in Nat /\ k <= MaxCalls /\ m \in Nat /\ n < m
    BY <1>1
  <1>8. k * Horizon <= MaxCalls * Horizon
    BY <1>1, <1>7 DEF Horizon
  <1>9. m <= Horizon
    <2> SUFFICES ASSUME Horizon + 1 <= m PROVE FALSE
      BY <1>7 DEF Horizon
    <2>1. MaxCalls * (h + 1) <= MaxCalls * m
      BY <1>1, <1>3, <1>7, Scaling
    <2>2. MaxCalls * (h + 1) = MaxCalls * h + MaxCalls
      BY <1>1
    <2>3. MaxCalls * h \in Int /\ MaxCalls * m \in Int /\ k * Horizon \in Int
      BY <1>1, <1>7 DEF Horizon
    <2> QED
      BY <1>1, <1>3, <1>6, <1>8, <2>1, <2>2, <2>3
  <1> QED
    BY <1>6, <1>7, <1>9

\* A chip in step with another that has yet to run to the time n.
InStep(c, w, b, n) == Fine(c, RunUntil(w, n), b) /\ Fine(w, w, 0) /\ w.last_time <= n

\* Both run on from there.
LEMMA BothRun ==
  ASSUME NEW c, NEW w, NEW b, NEW n \in Nat, InStep(c, w, b, n), NEW e \in Int, NEW end \in Int,
         IsSum(end, e, b), n <= end, end <= Horizon,
         NEW x, x = RunUntil(c, e), NEW y, y = RunUntil(w, end)
  PROVE  FineAt(x, y, b, e, end)
  <1>1. PICK v : v = RunUntil(w, n)
    OBVIOUS
  <1>2. PICK z : z = RunUntil(v, end)
    OBVIOUS
  <1>3. Fine(c, v, b) /\ Fine(w, w, 0) /\ w.last_time <= n /\ w.last_time \in Int
    BY <1>1, FineIsAll DEF InStep, Bounded
  <1>4. n <= Horizon /\ w.last_time <= end
    BY <1>3 DEF Horizon
  <1>5. IsSum(n, n, 0) /\ IsSum(end, end, 0)
    BY DEF IsSum
  <1>6. Fine(v, v, 0) /\ v.last_time = n
    BY <1>1, <1>3, <1>4, <1>5, FineRuns
  <1>7. Fine(x, z, b) /\ x.last_time = e /\ z.last_time = end
    BY <1>2, <1>3, <1>6, FineRuns
  <1>8. Fine(y, y, 0) /\ y.last_time = end
    BY <1>3, <1>4, <1>5, FineRuns
  <1>9. Same(z, y, 0)
    BY <1>1, <1>2, <1>3, RunUntilSplits DEF Fine
  <1>10. Same(x, y, b)
    BY <1>7, <1>9, SameChains DEF Fine
  <1> QED
    BY <1>7, <1>8, <1>10 DEF Fine, FineAt

\* A chip that is at a time is run to it.
LEMMA FineIsInStep ==
  ASSUME NEW c, NEW w, NEW b, NEW e, NEW n \in Nat, FineAt(c, w, b, e, n)
  PROVE  InStep(c, w, b, n) /\ c.last_time = e
  <1>1. RunUntil(w, n) = w
    BY DEF FineAt, RunUntil
  <1>2. Fine(w, w, 0)
    BY FineItself DEF FineAt
  <1> QED
    BY <1>1, <1>2 DEF InStep, FineAt

-----------------------------------------------------------------------------
(* The actions of the composition. *)

\* The caller's clock is one a chip without frames can count.
InTime == calls \in Nat /\ calls <= MaxCalls /\ MaxCalls * now <= calls * Horizon

\* The chip with frames and the one without are in step, and have answered alike.
Alike == InTime /\ InStep(cut, whole, base, now) /\ answers[1] = answers[2]

\* A call later, the caller's clock is still one the chips can count.
LEMMA LaterInTime ==
  ASSUME InOrder, InTime, NEW wait \in Waits, Later(wait)
  PROVE  now' \in Nat /\ now < now' /\ now' <= Horizon /\ InTime'
  <1>1. now \in Nat /\ calls \in Nat /\ calls < MaxCalls
        /\ now' = now + wait /\ calls' = calls + 1
    BY DEF InOrder, InTime, Later
  <1> QED
    BY <1>1, LaterInHorizon DEF InTime

\* The times of the two at a call, base clocks apart.
LEMMA TimesAreApart ==
  ASSUME NEW n \in Nat, NEW b \in Nat, NEW e, e = n - b
  PROVE  e \in Int /\ IsSum(n, e, b)
  BY DEF IsSum

\* Chips that are alike at a time are in step at it.
LEMMA FineNowInStep ==
  ASSUME NEW c, NEW w, NEW b, Fine(c, w, b), NEW n \in Nat, w.last_time = n
  PROVE  InStep(c, w, b, n)
  <1>1. FineAt(c, w, b, c.last_time, n)
    BY DEF FineAt
  <1> QED
    BY <1>1, FineIsInStep

\* A register is written.
LEMMA WriteAlike ==
  ASSUME InOrder, Alike, NEW wait \in Waits, NEW w \in Writes, Write(wait, w) PROVE Alike'
  <1>1. PICK addr \in Int, data \in 0 .. 255 : addr = w[1] /\ data = w[2]
    BY WritesAssumption DEF RegisterWrites
  <1>2. now' \in Nat /\ now < now' /\ now' <= Horizon /\ InTime'
    BY LaterInTime DEF Write, Alike
  <1>15. PICK end : end = now'
    OBVIOUS
  <1>3. PICK e : e = end - base
    OBVIOUS
  <1>4. e \in Int /\ end \in Nat /\ IsSum(end, e, base) /\ now <= end /\ end <= Horizon /\ now \in Nat
    <2>1. base \in Nat /\ now \in Nat /\ base <= now /\ cut.last_time = now - base
      BY DEF InOrder
    <2>2. e \in Int /\ IsSum(end, e, base)
      BY <1>2, <1>15, <1>3, <2>1, TimesAreApart
    <2>3. end \in Nat /\ now <= end /\ end <= Horizon
      BY <1>2, <1>15, <2>1
    <2> QED
      BY <2>1, <2>2, <2>3
  <1>5. PICK x, y : x = RunUntil(cut, e) /\ y = RunUntil(whole, end)
    OBVIOUS
  <1>6. FineAt(x, y, base, e, end)
    <2>1. InStep(cut, whole, base, now)
      BY DEF Alike
    <2> QED
      BY <1>4, <1>5, <2>1, BothRun
  <1>7. cut' = Written(x, e, addr, data) /\ whole' = Written(y, end, addr, data)
    BY <1>1, <1>3, <1>15, <1>5, WriteRegisterIs DEF Write
  <1>8. FineAt(cut', whole', base, e, end)
    <2>1. Fine(x, y, base) /\ x.last_time = e /\ y.last_time = end
      BY <1>6 DEF FineAt
    <2> QED
      BY <1>7, <2>1, WrittenFine
  <1>9. InStep(cut', whole', base, end)
    BY <1>4, <1>8, FineIsInStep
  <1>10. base' = base /\ answers' = answers
    BY DEF Write
  <1> QED
    BY <1>2, <1>3, <1>15, <1>9, <1>10 DEF Alike, InStep

\* $4015 is read.
LEMMA ReadStatusAlike ==
  ASSUME InOrder, Alike, NEW wait \in Waits, ReadStatus(wait) PROVE Alike'
  <1>2. now' \in Nat /\ now < now' /\ now' <= Horizon /\ InTime'
    BY LaterInTime DEF ReadStatus, Alike
  <1>15. PICK end : end = now'
    OBVIOUS
  <1>3. PICK e : e = end - base
    OBVIOUS
  <1>4. e \in Int /\ end \in Nat /\ IsSum(end, e, base) /\ now <= end - 1 /\ end <= Horizon
        /\ now \in Nat /\ end \in Int
    <2>1. base \in Nat /\ now \in Nat /\ base <= now /\ cut.last_time = now - base
      BY DEF InOrder
    <2>2. e \in Int /\ IsSum(end, e, base)
      BY <1>2, <1>15, <1>3, <2>1, TimesAreApart
    <2>4. end \in Nat /\ now < end /\ end <= Horizon /\ now \in Nat
      BY <1>2, <1>15, <2>1, Zenon
    <2>3. end \in Nat /\ end \in Int /\ now <= end - 1 /\ end <= Horizon
      BY <2>4
    <2> QED
      BY <2>1, <2>2, <2>3
  <1>5. PICK p, q : p = RunUntil(cut, e - 1) /\ q = RunUntil(whole, end - 1)
    OBVIOUS
  <1>6. PICK d, v : d = RunUntil(p, e) /\ v = RunUntil(q, end)
    OBVIOUS
  <1>7. FineAt(p, q, base, e - 1, end - 1)
    <2>1. InStep(cut, whole, base, now)
      BY DEF Alike
    <2>2. PICK f, g : f = e - 1 /\ g = end - 1
      OBVIOUS
    <2>3. f \in Int /\ g \in Int /\ IsSum(g, f, base) /\ now <= g /\ g <= Horizon
      <3>1. base \in Int
        BY DEF InOrder
      <3> QED
        BY <1>4, <2>2, <3>1 DEF IsSum, Horizon
    <2> QED
      BY <1>4, <1>5, <2>1, <2>2, <2>3, BothRun
  <1>8. Fine(d, v, base) /\ v.last_time = end
    <2>1. Fine(p, q, base) /\ q.last_time = end - 1
      BY <1>7 DEF FineAt
    <2>2. q.last_time <= end
      BY <1>4, <2>1
    <2> QED
      BY <1>4, <1>6, <2>1, <2>2, FineRuns
  <1>9. /\ cut' = Answered(d) /\ whole' = Answered(v)
        /\ answers' = <<Answer(p, d), Answer(q, v)>>
    <2>1. Status(cut, e).result = Answer(p, d) /\ Status(cut, e).apu = Answered(d)
      BY <1>5, <1>6, StatusIs
    <2>2. Status(whole, end).result = Answer(q, v) /\ Status(whole, end).apu = Answered(v)
      BY <1>5, <1>6, StatusIs
    <2> QED
      BY <1>3, <1>15, <2>1, <2>2 DEF ReadStatus
  <1>10. Answer(p, d) = Answer(q, v)
    BY <1>7, <1>8, AnswersAlike DEF FineAt
  <1>11. Fine(cut', whole', base) /\ whole'.last_time = end
    BY <1>8, <1>9, AnsweredFine
  <1>12. InStep(cut', whole', base, end)
    BY <1>4, <1>11, FineNowInStep
  <1>13. base' = base
    BY DEF ReadStatus
  <1>14. answers'[1] = answers'[2]
    BY <1>9, <1>10
  <1> QED
    BY <1>2, <1>3, <1>15, <1>12, <1>13, <1>14 DEF Alike, InStep

\* The chip with frames is told of the end of one; the other is not.
LEMMA EndAlike ==
  ASSUME InOrder, Alike, NEW wait \in Waits, End(wait) PROVE Alike'
  <1>2. now' \in Nat /\ now < now' /\ now' <= Horizon /\ InTime'
    BY LaterInTime DEF End, Alike
  <1>15. PICK end : end = now'
    OBVIOUS
  <1>3. PICK e : e = end - base
    OBVIOUS
  <1>4. e \in Nat /\ end \in Nat /\ IsSum(end, e, base) /\ now <= end /\ end <= Horizon
        /\ now \in Nat /\ cut.last_time < e
    <2>1. base \in Nat /\ now \in Nat /\ base <= now /\ cut.last_time = now - base
      BY DEF InOrder
    <2>2. e \in Int /\ IsSum(end, e, base)
      BY <1>2, <1>15, <1>3, <2>1, TimesAreApart
    <2>3. end \in Nat /\ now < end /\ now <= end /\ end <= Horizon
      BY <1>2, <1>15, <2>1
    <2>4. e \in Nat /\ cut.last_time < e
      BY <1>3, <2>1, <2>3
    <2> QED
      BY <2>1, <2>2, <2>3, <2>4
  <1>5. PICK x, y : x = RunUntil(cut, e) /\ y = RunUntil(whole, end)
    OBVIOUS
  <1>6. FineAt(x, y, base, e, end)
    <2>1. InStep(cut, whole, base, now)
      BY DEF Alike
    <2>2. e \in Int /\ end \in Int
      BY <1>4
    <2> QED
      BY <1>4, <1>5, <2>1, <2>2, BothRun
  <1>7. cut' = Shifted(x, e)
    <2>1. e \in Int
      BY <1>4
    <2> QED
      BY <1>3, <1>15, <1>4, <1>5, <2>1, EndFrameIs DEF End
  <1>8. Chip(cut')
    BY EndInOrder DEF InOrder
  <1>9. Fine(cut', y, end)
    <2>1. Fine(x, y, base) /\ e = x.last_time /\ end = y.last_time
      BY <1>6 DEF FineAt
    <2> QED
      BY <1>4, <1>7, <1>8, <2>1, ShiftedFine
  <1>10. base' = end /\ answers' = answers /\ whole' = whole
    BY <1>15 DEF End
  <1>11. Fine(whole, whole, 0) /\ whole.last_time <= end
    <2>1. whole.last_time \in Int /\ whole.last_time <= now
      BY DEF InOrder, Chip, Timed
    <2> QED
      BY <1>4, <2>1 DEF Alike, InStep
  <1>12. InStep(cut', whole, end, end)
    BY <1>5, <1>9, <1>11 DEF InStep
  <1> QED
    BY <1>2, <1>3, <1>15, <1>10, <1>12 DEF Alike, InStep

\* A tempo the caller may set, in both.
LEMMA TempoFine ==
  ASSUME NEW c, NEW w, NEW b, Fine(c, w, b), NEW t, IsTempo(t),
         NEW x, x = SetTempo(c, t[1], t[2]), NEW y, y = SetTempo(w, t[1], t[2])
  PROVE  Fine(x, y, b) /\ y.last_time = w.last_time
  <1>1. PICK num \in Nat \ {0}, den \in Nat \ {0} :
           num = t[1] /\ den = t[2] /\ den <= 50 * num /\ num <= 4 * den
    BY DEF IsTempo
  <1>2. x = SetTempo(c, num, den) /\ y = SetTempo(w, num, den) /\ den <= 50 * num /\ num <= 4 * den
    BY <1>1
  <1> QED
    BY <1>2, SetTempoFine

\* The tempo is changed.
LEMMA TempoAlike ==
  ASSUME InOrder, Alike, NEW t \in Tempos, Tempo(t) PROVE Alike'
  <1>1. IsTempo(t)
    BY TemposAssumption
  <1>2. PICK v : v = RunUntil(whole, now)
    OBVIOUS
  <1>3. Fine(cut, v, base)
    BY <1>2 DEF Alike, InStep
  <1>4. v.last_time = now
    <2>1. Chip(whole) /\ now \in Int /\ whole.last_time <= now
      BY DEF InOrder
    <2> QED
      BY <1>2, <2>1, RunUntilRuns DEF RunsTo
  <1>5. cut' = SetTempo(cut, t[1], t[2]) /\ whole' = SetTempo(v, t[1], t[2])
    BY <1>2 DEF Tempo
  <1>6. Fine(cut', whole', base) /\ whole'.last_time = now
    BY <1>1, <1>3, <1>4, <1>5, TempoFine
  <1>7. InStep(cut', whole', base, now)
    <2>1. now \in Nat
      BY DEF InOrder
    <2> QED
      BY <1>6, <2>1, FineNowInStep
  <1>8. base' = base /\ now' = now /\ answers' = answers /\ calls' = calls + 1 /\ calls < MaxCalls
    BY DEF Tempo
  <1>9. InTime'
    <2>1. PICK r \in Int, h \in Nat : r = calls * Horizon /\ h = Horizon
      BY DEF Alike, InTime, Horizon
    <2>2. (calls + 1) * Horizon = r + h
      BY <2>1 DEF Alike, InTime, Horizon
    <2>3. MaxCalls * now \in Int /\ MaxCalls \in Int
      BY HorizonAssumption DEF InOrder
    <2>4. MaxCalls * now <= r
      BY <2>1 DEF Alike, InTime
    <2>5. calls + 1 \in Nat /\ calls + 1 <= MaxCalls
      BY <1>8, <2>3 DEF Alike, InTime
    <2>6. MaxCalls * now <= r + h
      BY <2>1, <2>3, <2>4
    <2> QED
      BY <1>8, <2>2, <2>5, <2>6 DEF InTime
  <1> QED
    BY <1>7, <1>8, <1>9 DEF Alike, InStep

-----------------------------------------------------------------------------
(* The reset, and the initial states. *)

\* The writes of a list, one after the other.
OneByOne(s, writes, f) ==
  /\ f[0] = s
  /\ \A k \in Nat : k + 1 <= Len(writes) =>
       f[k + 1] = WriteRegister(f[k], 0, writes[k + 1][1], writes[k + 1][2])

\* The writes of a list are done one by one.
LEMMA WriteAllIs ==
  ASSUME NEW s, NEW writes \in Seq(RegisterWrites)
  PROVE  \E f : OneByOne(s, writes, f) /\ WriteAll(s, 0, writes) = f[Len(writes)]
  <1>1. PICK n \in Nat : n = Len(writes)
    OBVIOUS
  <1>2. WriteAll(s, 0, writes) = (CHOOSE f : WritesTo(s, writes, n, f))[n]
    BY <1>1, Zenon DEF WriteAll, WritesTo
  <1>3. PICK f : f = (CHOOSE g : WritesTo(s, writes, n, g)) /\ WritesTo(s, writes, n, f)
    BY WritesExist
  <1>4. \A j \in 0 .. n : f[j] = IF j = 0 THEN s
                                 ELSE WriteRegister(f[j - 1], 0, writes[j][1], writes[j][2])
    BY <1>3, Zenon DEF WritesTo
  <1>5. ASSUME NEW k \in Nat, k + 1 <= n
        PROVE  f[k + 1] = WriteRegister(f[k], 0, writes[k + 1][1], writes[k + 1][2])
    <2>1. k + 1 \in 0 .. n /\ k + 1 # 0 /\ k + 1 - 1 = k
      BY <1>5
    <2>2. f[k + 1] = IF k + 1 = 0 THEN s
                     ELSE WriteRegister(f[k + 1 - 1], 0, writes[k + 1][1], writes[k + 1][2])
      BY <1>4, <2>1
    <2> QED
      BY <2>1, <2>2, Zenon
  <1>6. f[0] = s
    BY <1>4
  <1>7. OneByOne(s, writes, f)
    BY <1>1, <1>5, <1>6 DEF OneByOne
  <1> QED
    BY <1>1, <1>2, <1>3, <1>7

\* A chip at time 0 that is like itself.
Still(s) == Fine(s, s, 0) /\ s.last_time = 0

\* A write at time 0 leaves a chip at time 0.
LEMMA WriteKeepsStill ==
  ASSUME NEW s, Still(s), NEW addr \in Int, NEW data \in 0 .. 255,
         NEW u, u = WriteRegister(s, 0, addr, data)
  PROVE  Still(u)
  <1>1. RunUntil(s, 0) = s
    BY DEF RunUntil, Still
  <1>2. u = Written(s, 0, addr, data)
    BY <1>1, WriteRegisterIs
  <1>3. Fine(s, s, 0) /\ 0 = s.last_time
    BY DEF Still
  <1>4. FineAt(u, u, 0, 0, 0)
    BY <1>2, <1>3, WrittenFine
  <1> QED
    BY <1>4 DEF FineAt, Still

\* So does a list of them.
LEMMA WriteAllKeepsStill ==
  ASSUME NEW s, Still(s), NEW writes \in Seq(RegisterWrites)
  PROVE  Still(WriteAll(s, 0, writes))
  <1>1. PICK f : OneByOne(s, writes, f) /\ WriteAll(s, 0, writes) = f[Len(writes)]
    BY WriteAllIs
  <1>2. PICK n \in Nat : n = Len(writes)
    OBVIOUS
  <1> DEFINE T == {k \in Nat : k <= n => Still(f[k])}
  <1>3. 0 \in T
    BY <1>1 DEF OneByOne
  <1>4. ASSUME NEW k \in Nat, k \in T PROVE k + 1 \in T
    <2> SUFFICES ASSUME k + 1 <= n PROVE Still(f[k + 1])
      OBVIOUS
    <2>1. Still(f[k])
      BY <1>4
    <2>2. f[k + 1] = WriteRegister(f[k], 0, writes[k + 1][1], writes[k + 1][2])
      BY <1>1, <1>2 DEF OneByOne
    <2>3. writes[k + 1] \in Int \X (0 .. 255)
      BY <1>2 DEF RegisterWrites
    <2>4. PICK addr \in Int, data \in 0 .. 255 : addr = writes[k + 1][1] /\ data = writes[k + 1][2]
      BY <2>3
    <2> QED
      BY <2>1, <2>2, <2>4, WriteKeepsStill
  <1> HIDE DEF T
  <1>5. n \in T
    BY <1>3, <1>4, Induction
  <1> QED
    BY <1>1, <1>2, <1>5 DEF T

\* The chip before reset() writes its registers.
LEMMA PowerUpStill ==
  ASSUME NEW pal, NEW outputs, NEW tempo, IsTempo(tempo),
         NEW s, s = PoweredOn(pal, outputs), NEW u, u = SetTempo(s, tempo[1], tempo[2])
  PROVE  Still(u)
  <1>1. PICK num \in Nat \ {0}, den \in Nat \ {0} :
           num = tempo[1] /\ den = tempo[2] /\ den <= 50 * num /\ num <= 4 * den
    BY DEF IsTempo
  <1>2. PICK p : p = PeriodAt(s.pal, num, den)
    OBVIOUS
  <1>3. HasPeriod(s, u, p) /\ p <= Longest
    BY <1>1, <1>2, SetTempoIs, PeriodIsBounded
  <1>4. Fresh(u)
    <2>1. u = SetTempo(s, num, den) /\ num <= 4 * den
      BY <1>1
    <2> QED
      BY <2>1, PowerUp
  <1>5. Chip(u) /\ u.last_time = 0 /\ u.last_dmc_time = 0
    BY <1>4 DEF Fresh, Chip
  <1>6. /\ DOMAIN s = Fields
        /\ s.regs = [i \in Oscs |-> [k \in 0 .. 3 |-> 0]]
        /\ s.len = [i \in Oscs |-> 0] /\ s.delay = [i \in Oscs |-> 0]
        /\ s.phase = [i \in 0 .. 2 |-> i \div 2]
        /\ s.irq_flag = FALSE /\ s.next_irq = NoIrq /\ s.earliest = NoIrq
    BY DEF PoweredOn, Fields
  <1>7. s.dmc = [address |-> 0, period |-> 428, bits_remain |-> 1, buf_full |-> FALSE,
                 silence |-> TRUE, next_irq |-> NoIrq, irq_enabled |-> FALSE,
                 irq_flag |-> FALSE, reads |-> 0]
    BY DEF PoweredOn
  <1>8. /\ u.dmc = s.dmc /\ u.len = s.len /\ u.delay = s.delay /\ u.regs = s.regs
        /\ u.phase = s.phase /\ u.irq_flag = s.irq_flag /\ u.next_irq = s.next_irq
        /\ u.earliest = s.earliest /\ u.frame_period = p
    BY <1>3, <1>6 DEF HasPeriod, Fields
  <1>9. Formed(u)
    <2>1. Shaped(u)
      BY <1>5 DEF Chip
    <2>2. u.regs \in [Oscs -> [0 .. 3 -> 0 .. 255]] /\ u.delay \in [Oscs -> Int]
      BY <1>6, <1>8
    <2>3. u.phase \in [0 .. 2 -> Int]
      BY <1>6, <1>8
    <2> QED
      BY <2>1, <2>2, <2>3 DEF Formed
  <1>10. SameIrq(NoIrq, NoIrq, 0) /\ IsSum(0, 0, 0)
    BY NoIrqAlike DEF IsSum
  <1>11. Rest(u, u, 0)
    <2>1. Units(u, u)
      BY <1>9, Zenon DEF Units, SameUnits, SameTimers
    <2>2. SameClock(u, u, 0)
      BY <1>5, <1>6, <1>8, <1>10, Zenon DEF SameClock
    <2> QED
      BY <2>1, <2>2 DEF Rest
  <1>12. /\ u.dmc.silence = TRUE /\ u.dmc.next_irq = NoIrq /\ u.dmc.bits_remain = 1
         /\ u.dmc.period = 428 /\ u.len[4] = 0 /\ u.delay[4] = 0
    BY <1>6, <1>7, <1>8 DEF Oscs
  <1>13. Bytes(u, u, 0, 0)
    <2>1. SameWait(u, u, 0, 0)
      BY <1>6, <1>8, <1>10, Zenon DEF SameWait, Due
    <2>2. SameIrq(u.dmc.next_irq, u.dmc.next_irq, 0)
      BY <1>10, <1>12, Zenon
    <2>3. u.dmc.silence \in BOOLEAN
      BY <1>12
    <2> QED
      BY <1>9, <1>12, <2>1, <2>2, <2>3, Zenon DEF Bytes
  <1>14. Spot(u, u, 0)
    <2>1. u.dmc.bits_remain \in 1 .. 8 /\ u.dmc.period \in Nat /\ Small(u)
      BY <1>12 DEF Small, Short
    <2>2. u.last_dmc_time \in Int /\ u.last_dmc_time <= Horizon
      BY <1>5 DEF Horizon
    <2> QED
      BY <1>5, <1>10, <2>1, <2>2 DEF Spot
  <1>15. All(u, u, 0, u.last_time)
    BY <1>5, <1>11, <1>13, <1>14, Zenon DEF All
  <1>16. 0 \in Nat /\ 0 <= u.last_time /\ u.last_time <= Horizon /\ u.frame_period <= Longest
    BY <1>3, <1>5, <1>8 DEF Horizon
  <1> QED
    BY <1>5, <1>15, <1>16, AllIsFine DEF Still

\* A chip that was reset and set up is at time 0.
LEMMA StartIsStill ==
  ASSUME NEW pal, NEW outputs, NEW tempo, IsTempo(tempo), NEW writes \in Seq(RegisterWrites)
  PROVE  Still(Start(pal, outputs, tempo, writes))
  <1>1. PICK s : s = SetTempo(PoweredOn(pal, outputs), tempo[1], tempo[2])
    OBVIOUS
  <1>2. Still(s)
    BY <1>1, PowerUpStill
  <1>3. Reset(pal, outputs, tempo) = WriteAll(s, 0, ResetWrites)
    BY <1>1, Zenon DEF Reset
  <1> DEFINE all == <<<<16405, 15>>>> \o writes
  <1>4. all \in Seq(RegisterWrites)
    <2>1. <<<<16405, 15>>>> \in Seq(RegisterWrites)
      BY DEF RegisterWrites
    <2> QED
      BY <2>1
  <1>5. Start(pal, outputs, tempo, writes) = WriteAll(Reset(pal, outputs, tempo), 0, all)
    BY DEF Start
  <1> HIDE DEF all
  <1> QED
    BY <1>2, <1>3, <1>4, <1>5, ResetWritesAreWrites, WriteAllKeepsStill

\* Two chips that start alike are in step.
LEMMA InitAlike == Init => Alike
  <1> SUFFICES ASSUME Init PROVE Alike
    OBVIOUS
  <1>1. PICK chip \in Chips, writes \in Setups :
           cut = Start(chip[1], chip[2], chip[3], writes) /\ whole = cut
    BY DEF Init
  <1>2. IsTempo(chip[3]) /\ writes \in Seq(RegisterWrites)
    BY TemposAssumption, WritesAssumption
  <1>3. Still(cut)
    BY <1>1, <1>2, StartIsStill
  <1>4. base = 0 /\ now = 0 /\ calls = 0 /\ answers = <<{}, {}>>
    BY DEF Init
  <1>5. InStep(cut, whole, base, now)
    <2>1. PICK z \in Nat : z = 0
      OBVIOUS
    <2>2. Fine(cut, whole, z) /\ whole.last_time = z
      BY <1>1, <1>3, <2>1 DEF Still
    <2>3. InStep(cut, whole, z, z)
      BY <2>2, FineNowInStep
    <2> QED
      BY <1>4, <2>1, <2>3
  <1>6. InTime
    BY <1>4, HorizonAssumption DEF InTime, Horizon
  <1> QED
    BY <1>4, <1>5, <1>6 DEF Alike

-----------------------------------------------------------------------------
(* What is seen of two chips that are in step. *)

\* What a view shows of the phases, the delays and the earliest IRQ.
SeenPhase(t) == [i \in (IF 2 \in t.outputs THEN 0 .. 2 ELSE 0 .. 1) |-> t.phase[i]]
SeenDelay(t) == [i \in (IF 3 \in t.outputs THEN Oscs ELSE Oscs \ {3}) |-> t.delay[i]]
SeenEarliest(t, from, time) ==
  IF t.irq_flag \/ Absolute(t.earliest, from) <= time THEN 0 ELSE Absolute(t.earliest, from)
Seen(t, from, time) ==
  [t EXCEPT !.last_time = @ + from, !.last_dmc_time = @ + from,
            !.next_irq = Absolute(@, from), !.dmc.next_irq = Absolute(@, from),
            !.earliest = SeenEarliest(t, from, time),
            !.phase = SeenPhase(t), !.shifts = 0, !.delay = SeenDelay(t)]

\* A view runs the chip to its time.
LEMMA ViewIs ==
  ASSUME NEW s, NEW from, NEW time, NEW t, t = RunUntil(s, time - from)
  PROVE  View(s, from, time) = Seen(t, from, time)
  BY DEF View, Seen, SeenPhase, SeenDelay, SeenEarliest

SeenSet(t, u, from, time) ==
  /\ u = [f \in Fields |-> u[f]] /\ u.regs = t.regs /\ u.written = t.written /\ u.len = t.len
  /\ u.env = t.env /\ u.env_delay = t.env_delay /\ u.sweep_delay = t.sweep_delay
  /\ u.linear = t.linear /\ u.frame_delay = t.frame_delay /\ u.frame_period = t.frame_period
  /\ u.frame = t.frame /\ u.mode = t.mode /\ u.irq_flag = t.irq_flag
  /\ u.enables = t.enables /\ u.outputs = t.outputs /\ u.pal = t.pal
  /\ u.last_time = t.last_time + from /\ u.last_dmc_time = t.last_dmc_time + from
  /\ u.next_irq = Absolute(t.next_irq, from)
  /\ u.dmc = [t.dmc EXCEPT !.next_irq = Absolute(@, from)]
  /\ u.earliest = SeenEarliest(t, from, time)
  /\ u.phase = SeenPhase(t) /\ u.shifts = 0 /\ u.delay = SeenDelay(t)

\* What a view shows, field by field.
LEMMA SeenSets ==
  ASSUME NEW t, Formed(t), NEW from, NEW time, NEW u, u = Seen(t, from, time)
  PROVE  SeenSet(t, u, from, time)
  <1>1. DOMAIN t = Fields /\ DOMAIN t.dmc = DmcFields
    BY DEF Formed, Shaped
  <1>2. PICK p, d, e : p = SeenPhase(t) /\ d = SeenDelay(t) /\ e = SeenEarliest(t, from, time)
    OBVIOUS
  <1>3. u = [t EXCEPT !.last_time = @ + from, !.last_dmc_time = @ + from,
                      !.next_irq = Absolute(@, from), !.dmc.next_irq = Absolute(@, from),
                      !.earliest = e, !.phase = p, !.shifts = 0, !.delay = d]
    BY <1>2 DEF Seen
  <1>4. u = [f \in Fields |-> u[f]]
    BY <1>1, <1>3
  <1>5. /\ u.regs = t.regs /\ u.written = t.written /\ u.len = t.len
        /\ u.env = t.env /\ u.env_delay = t.env_delay /\ u.sweep_delay = t.sweep_delay
        /\ u.linear = t.linear /\ u.frame_delay = t.frame_delay /\ u.frame_period = t.frame_period
        /\ u.frame = t.frame /\ u.mode = t.mode /\ u.irq_flag = t.irq_flag
        /\ u.enables = t.enables /\ u.outputs = t.outputs /\ u.pal = t.pal
    BY <1>1, <1>3 DEF Fields
  <1>6. /\ u.last_time = t.last_time + from /\ u.last_dmc_time = t.last_dmc_time + from
        /\ u.next_irq = Absolute(t.next_irq, from)
        /\ u.dmc = [t.dmc EXCEPT !.next_irq = Absolute(@, from)]
        /\ u.earliest = e /\ u.phase = p /\ u.shifts = 0 /\ u.delay = d
    BY <1>1, <1>3 DEF Fields
  <1> QED
    BY <1>2, <1>4, <1>5, <1>6, Zenon DEF SeenSet

\* A time that is the same in both is seen as the same.
LEMMA AbsoluteAlike ==
  ASSUME NEW q, NEW r, NEW b \in Nat, SameIrq(q, r, b)
  PROVE  Absolute(q, b) = Absolute(r, 0)
  <1>1. CASE r = NoIrq
    BY <1>1 DEF SameIrq, Absolute
  <1>2. CASE r # NoIrq
    <2>1. q \in Int /\ q # NoIrq /\ IsSum(r, q, b)
      BY <1>2 DEF SameIrq
    <2>2. PICK x \in Int : x = q
      BY <2>1
    <2>3. r = x + b /\ r + 0 = r /\ r \in Int
      BY <2>1, <2>2 DEF IsSum
    <2>4. Absolute(q, b) = x + b /\ Absolute(r, 0) = r + 0
      BY <1>2, <2>1, <2>2 DEF Absolute
    <2> QED
      BY <2>3, <2>4
  <1> QED
    BY <1>1, <1>2

\* A time that is past is seen as past.
LEMMA PastIsSeen ==
  ASSUME NEW q \in Int, NEW b \in Nat, NEW n \in Int, n <= Horizon, q + b <= n
  PROVE  Absolute(q, b) <= n
  <1>1. q # NoIrq
    BY DEF NoIrq, Horizon
  <1>2. Absolute(q, b) = q + b
    BY <1>1 DEF Absolute
  <1> QED
    BY <1>2

\* The earliest IRQ that is shown.
LEMMA EarliestSeen ==
  ASSUME NEW c, NEW w, NEW b \in Nat, NEW n \in Int, n <= Horizon, SameWait(c, w, b, n),
         c.irq_flag = w.irq_flag
  PROVE  SeenEarliest(c, b, n) = SeenEarliest(w, 0, n)
  <1>1. CASE c.irq_flag
    BY <1>1 DEF SeenEarliest
  <1>2. CASE ~c.irq_flag
    <2>1. Due(c.earliest, w.earliest, b, n)
      BY <1>2 DEF SameWait
    <2>2. CASE SameIrq(c.earliest, w.earliest, b)
      <3>1. Absolute(c.earliest, b) = Absolute(w.earliest, 0)
        BY <2>2, AbsoluteAlike
      <3> QED
        BY <3>1, Zenon DEF SeenEarliest
    <2>3. CASE c.earliest \in Int /\ w.earliest \in Int /\ c.earliest + b <= n /\ w.earliest <= n
      <3>1. PICK x \in Int, y \in Int : x = c.earliest /\ y = w.earliest
        BY <2>3
      <3>2. x + b <= n /\ y + 0 <= n
        BY <2>3, <3>1
      <3>3. Absolute(x, b) <= n /\ Absolute(y, 0) <= n
        BY <3>2, PastIsSeen
      <3> QED
        BY <3>1, <3>3, Zenon DEF SeenEarliest
    <2> QED
      BY <2>1, <2>2, <2>3 DEF Due
  <1> QED
    BY <1>1, <1>2

\* Two chips that are in step show the same.
LEMMA SeenAlike ==
  ASSUME NEW c, NEW w, NEW b, Fine(c, w, b), NEW n \in Nat, n = w.last_time, n <= Horizon,
         NEW u, u = Seen(c, b, n), NEW v, v = Seen(w, 0, n)
  PROVE  u = v
  <1>1. /\ All(c, w, b, n) /\ b \in Nat /\ IsSum(w.last_time, c.last_time, b)
        /\ c.last_time \in Int /\ Chip(c) /\ Chip(w) /\ Formed(c) /\ Formed(w)
    BY FineIsAll
  <1>2. Rest(c, w, b) /\ Bytes(c, w, b, n) /\ Spot(c, w, b)
    BY <1>1 DEF All
  <1>3. Units(c, w) /\ SameClock(c, w, b)
    BY <1>2 DEF Rest
  <1>4. SameUnits(c, w) /\ SameTimers(c, w)
    BY <1>3 DEF Units
  <1>5. SeenSet(c, u, b, n) /\ SeenSet(w, v, 0, n)
    BY <1>1, SeenSets
  <1>6. c.len = w.len
    <2>1. c.len \in [Oscs -> Nat] /\ w.len \in [Oscs -> Nat]
      BY <1>1 DEF Chip, Shaped
    <2>2. \A i \in Oscs : c.len[i] = w.len[i]
      BY <1>2, <1>4 DEF SameUnits, Bytes, Oscs
    <2> QED
      BY <2>1, <2>2
  <1>7. SeenPhase(c) = SeenPhase(w)
    <2>1. c.outputs = w.outputs
      BY <1>4 DEF SameUnits
    <2>2. \A i \in (IF 2 \in w.outputs THEN 0 .. 2 ELSE 0 .. 1) : c.phase[i] = w.phase[i]
      BY <1>4 DEF SameTimers
    <2> QED
      BY <2>1, <2>2 DEF SeenPhase
  <1>8. SeenDelay(c) = SeenDelay(w)
    <2>1. c.outputs = w.outputs
      BY <1>4 DEF SameUnits
    <2>2. c.delay[4] = w.delay[4]
      BY <1>2 DEF Spot
    <2>3. \A i \in (IF 3 \in w.outputs THEN Oscs ELSE Oscs \ {3}) : c.delay[i] = w.delay[i]
      BY <1>4, <2>2 DEF SameTimers, Oscs
    <2> QED
      BY <2>1, <2>3 DEF SeenDelay
  <1>9. SeenEarliest(c, b, n) = SeenEarliest(w, 0, n)
    <2>1. c.irq_flag = w.irq_flag /\ SameWait(c, w, b, n) /\ n \in Int
      BY <1>2, <1>3 DEF SameClock, Bytes
    <2> QED
      BY <1>1, <2>1, EarliestSeen
  <1>10. Absolute(c.next_irq, b) = Absolute(w.next_irq, 0)
    BY <1>1, <1>3, AbsoluteAlike DEF SameClock
  <1>11. Absolute(c.dmc.next_irq, b) = Absolute(w.dmc.next_irq, 0)
    BY <1>1, <1>2, AbsoluteAlike DEF Bytes
  <1>12. [c.dmc EXCEPT !.next_irq = Absolute(@, b)] = [w.dmc EXCEPT !.next_irq = Absolute(@, 0)]
    <2>1. DOMAIN c.dmc = DmcFields /\ DOMAIN w.dmc = DmcFields
      BY <1>1 DEF Chip, Shaped
    <2>2. PICK p, q : /\ p = [c.dmc EXCEPT !.next_irq = Absolute(@, b)]
                      /\ q = [w.dmc EXCEPT !.next_irq = Absolute(@, 0)]
      OBVIOUS
    <2>3. p = [f \in DmcFields |-> p[f]] /\ q = [f \in DmcFields |-> q[f]]
      BY <2>1, <2>2
    <2>4. /\ p.address = c.dmc.address /\ p.period = c.dmc.period
          /\ p.buf_full = c.dmc.buf_full /\ p.silence = c.dmc.silence
          /\ p.irq_enabled = c.dmc.irq_enabled /\ p.irq_flag = c.dmc.irq_flag
          /\ p.reads = c.dmc.reads /\ p.bits_remain = c.dmc.bits_remain
          /\ p.next_irq = Absolute(c.dmc.next_irq, b)
      BY <2>1, <2>2 DEF DmcFields
    <2>5. /\ q.address = w.dmc.address /\ q.period = w.dmc.period
          /\ q.buf_full = w.dmc.buf_full /\ q.silence = w.dmc.silence
          /\ q.irq_enabled = w.dmc.irq_enabled /\ q.irq_flag = w.dmc.irq_flag
          /\ q.reads = w.dmc.reads /\ q.bits_remain = w.dmc.bits_remain
          /\ q.next_irq = Absolute(w.dmc.next_irq, 0)
      BY <2>1, <2>2 DEF DmcFields
    <2>6. c.dmc.bits_remain = w.dmc.bits_remain
      BY <1>2 DEF Spot
    <2>7. \A f \in DmcFields : p[f] = q[f]
      BY <1>2, <1>11, <2>4, <2>5, <2>6 DEF Bytes, DmcFields
    <2> QED
      BY <2>2, <2>3, <2>7
  <1>13. /\ c.last_time + b = w.last_time + 0 /\ c.last_dmc_time + b = w.last_dmc_time + 0
    <2>1. PICK x \in Int, y \in Int : x = c.last_time /\ y = w.last_time
      BY <1>1
    <2>2. y = x + b
      BY <1>1, <2>1 DEF IsSum
    <2>3. c.last_dmc_time = x /\ w.last_dmc_time = y
      BY <1>1, <2>1 DEF Chip
    <2>4. x + b = y + 0
      BY <1>1, <2>2
    <2> QED
      BY <2>1, <2>3, <2>4, Zenon
  <1>14. /\ u.regs = v.regs /\ u.written = v.written /\ u.len = v.len
         /\ u.env = v.env /\ u.env_delay = v.env_delay /\ u.sweep_delay = v.sweep_delay
         /\ u.linear = v.linear /\ u.outputs = v.outputs /\ u.pal = v.pal
    BY <1>4, <1>5, <1>6, Zenon DEF SameUnits, SeenSet
  <1>15. /\ u.frame_delay = v.frame_delay /\ u.frame_period = v.frame_period
         /\ u.frame = v.frame /\ u.mode = v.mode /\ u.irq_flag = v.irq_flag
    BY <1>3, <1>5, Zenon DEF SameClock, SeenSet
  <1>16. u.enables = v.enables
    BY <1>2, <1>5, Zenon DEF Bytes, SeenSet
  <1>17. /\ u.last_time = v.last_time /\ u.last_dmc_time = v.last_dmc_time
         /\ u.next_irq = v.next_irq /\ u.dmc = v.dmc /\ u.earliest = v.earliest
         /\ u.phase = v.phase /\ u.shifts = v.shifts /\ u.delay = v.delay
    <2>1. /\ u.last_time = c.last_time + b /\ v.last_time = w.last_time + 0
          /\ u.last_dmc_time = c.last_dmc_time + b /\ v.last_dmc_time = w.last_dmc_time + 0
          /\ u.next_irq = Absolute(c.next_irq, b) /\ v.next_irq = Absolute(w.next_irq, 0)
      BY <1>5, Zenon DEF SeenSet
    <2>2. /\ u.dmc = [c.dmc EXCEPT !.next_irq = Absolute(@, b)]
          /\ v.dmc = [w.dmc EXCEPT !.next_irq = Absolute(@, 0)]
          /\ u.earliest = SeenEarliest(c, b, n) /\ v.earliest = SeenEarliest(w, 0, n)
      BY <1>5, Zenon DEF SeenSet
    <2>3. /\ u.phase = SeenPhase(c) /\ v.phase = SeenPhase(w) /\ u.shifts = 0 /\ v.shifts = 0
          /\ u.delay = SeenDelay(c) /\ v.delay = SeenDelay(w)
      BY <1>5, Zenon DEF SeenSet
    <2>4. u.last_time = v.last_time /\ u.last_dmc_time = v.last_dmc_time /\ u.next_irq = v.next_irq
      BY <1>10, <1>13, <2>1, Zenon
    <2>5. u.dmc = v.dmc /\ u.earliest = v.earliest
      BY <1>9, <1>12, <2>2, Zenon
    <2>6. u.phase = v.phase /\ u.shifts = v.shifts /\ u.delay = v.delay
      BY <1>7, <1>8, <2>3, Zenon
    <2> QED
      BY <2>4, <2>5, <2>6
  <1>18. \A f \in Fields : u[f] = v[f]
    BY <1>14, <1>15, <1>16, <1>17 DEF Fields
  <1>19. u = [f \in Fields |-> u[f]] /\ v = [f \in Fields |-> v[f]]
    BY <1>5 DEF SeenSet
  <1>20. PICK x, y : x = [f \in Fields |-> u[f]] /\ y = [f \in Fields |-> v[f]]
    OBVIOUS
  <1>21. x = y
    BY <1>18, <1>20
  <1>22. u = x /\ v = y
    BY <1>19, <1>20
  <1> QED
    BY <1>21, <1>22

\* Nes_Apu.h:42: time frames have no effect on emulation.
THEOREM FramesHaveNoEffectHolds == Spec => []FramesHaveNoEffect
  <1>1. InOrder /\ Alike => FramesHaveNoEffect
    <2> SUFFICES ASSUME InOrder, Alike PROVE FramesHaveNoEffect
      OBVIOUS
    <2>1. PICK w : w = RunUntil(whole, now)
      OBVIOUS
    <2>2. Fine(cut, w, base) /\ now \in Nat /\ base \in Nat /\ cut.last_time = now - base
      BY <2>1 DEF Alike, InStep, InOrder
    <2>3. w.last_time = now
      <3>1. Chip(whole) /\ now \in Int /\ whole.last_time <= now
        BY DEF InOrder
      <3> QED
        BY <2>1, <3>1, RunUntilRuns DEF RunsTo
    <2>4. now <= Horizon
      <3>1. Bounded(w)
        BY <2>2, FineIsAll
      <3> QED
        BY <2>3, <3>1 DEF Bounded
    <2>5. cut = RunUntil(cut, now - base) /\ now - 0 = now
      BY <2>2 DEF RunUntil
    <2>6. View(cut, base, now) = Seen(cut, base, now) /\ View(whole, 0, now) = Seen(w, 0, now)
      BY <2>1, <2>5, ViewIs
    <2>7. Seen(cut, base, now) = Seen(w, 0, now)
      BY <2>2, <2>3, <2>4, SeenAlike
    <2> QED
      BY <2>6, <2>7 DEF Alike, FramesHaveNoEffect
  <1>2. InOrder /\ Alike /\ [Next]_vars => Alike'
    <2> SUFFICES ASSUME InOrder, Alike, [Next]_vars PROVE Alike'
      OBVIOUS
    <2>1. CASE \E wait \in Waits, w \in Writes : Write(wait, w)
      BY <2>1, WriteAlike
    <2>2. CASE \E wait \in Waits : ReadStatus(wait)
      BY <2>2, ReadStatusAlike
    <2>3. CASE \E wait \in Waits : End(wait)
      BY <2>3, EndAlike
    <2>4. CASE \E t \in Tempos : Tempo(t)
      BY <2>4, TempoAlike
    <2>5. CASE UNCHANGED vars
      BY <2>5 DEF vars, Alike, InTime, InStep
    <2> QED
      BY <2>1, <2>2, <2>3, <2>4, <2>5 DEF Next
  <1> QED
    BY <1>1, <1>2, InitAlike, ChipsStayInOrder, PTL DEF Spec
===============================================================================
