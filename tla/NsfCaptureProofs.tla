-------------------------- MODULE NsfCaptureProofs --------------------------
(***************************************************************************)
(* The recorder's schedule of INIT and PLAY, for every play period, buffer *)
(* size and instruction length that CaptureAssumption allows, and for      *)
(* every INIT and PLAY routine: one that returns, one that never does.     *)
(* And the logger it records into, under any order of its calls.           *)
(***************************************************************************)
EXTENDS NsfCapture, TLAPS

CONSTANTS MaxEntries, MaxTime     \* what bounds the runs of MCApuLogger

AnyEntry == [event : {"WRITE"}, time : Int, frame : Nat, addr : Addrs, data : Data]
              \cup [event : {"INIT_START", "INIT_END", "PLAY_START", "PLAY_END"},
                    time : Int, frame : Nat]

\* The whole clocks of a period, and the fraction that is left over.
Whole == PlayPeriod \div Divisor
Part  == PlayPeriod % Divisor

\* The logger stays on, with no limit: nothing of the recording is lost.
LogTyped == /\ enabled = TRUE /\ max_entries = 0 /\ entries \in Seq(AnyEntry)
            /\ frame_start_time \in Nat

CpuTyped ==
  /\ running \in BOOLEAN
  /\ where \in {"init", "play", "badop"} /\ saved_state \in {"none", "init"}
  /\ slide \in 0..MaxSlide /\ (slide = MaxSlide => where = "badop")
  /\ current_frame \in Nat /\ periods \in Nat /\ current_frame <= periods
  /\ play_ready \in 0..4

\* Before the track and before the first PLAY; and when PLAY is armed, the last
\* one has returned.
Calls ==
  /\ ~Started => periods = 0 /\ base = 0 /\ ~running
  /\ current_frame = 0 => saved_state = "none" /\ where # "play"
  /\ current_frame = 0 /\ Started => 1 <= play_ready /\ play_ready <= 4 - periods
  /\ play_ready > 0 /\ current_frame > 0 => where # "play" /\ saved_state = "none"

ClockTyped ==
  /\ time \in Nat /\ next_play \in Nat /\ base \in Nat
  /\ play_extra \in {0, Part} \/ (play_extra = Part - Divisor /\ 2 * Part >= Divisor)
  /\ running => time < next_play + MaxCost

\* How far the next PLAY is ahead of its ideal clock, in clocks / Divisor.
Offset == (periods + 1) * PlayPeriod - (base + next_play) * Divisor

\* The two cases of NoDrift, with the fraction that is carried on.
Drift ==
  Started =>
    /\ Part = 0 => Offset = 0
    /\ 2 * Part = Divisor => \/ play_extra \in {0, -Part} /\ Offset = Part
                             \/ play_extra = Part /\ Offset = Divisor

IInv == LogTyped /\ CpuTyped /\ Calls /\ ClockTyped /\ Drift

-----------------------------------------------------------------------------
LEMMA Multiples == ASSUME NEW a \in Int, NEW d \in Nat \ {0}, a >= 1 PROVE a * d >= d
  OBVIOUS

\* The quotient is the one number whose multiple is the last not beyond n.
LEMMA DivMod ==
  ASSUME NEW n \in Int, NEW d \in Nat \ {0}
  PROVE  /\ n \div d \in Int /\ n % d \in Int
         /\ n = (n \div d) * d + (n % d) /\ 0 <= n % d /\ n % d < d
  OBVIOUS

LEMMA DivUnique ==
  ASSUME NEW n \in Int, NEW d \in Nat \ {0}, NEW k \in Int,
         k * d <= n, n < k * d + d
  PROVE  n \div d = k
  <1> DEFINE m == n \div d
  <1>1. m \in Int /\ m * d <= n /\ n < m * d + d
    BY DivMod
  <1>2. CASE m >= k + 1
    <2>1. (m - k) * d >= d
      BY <1>1, <1>2, Multiples
    <2>2. (m - k) * d = m * d - k * d
      BY <1>1
    <2> QED
      BY <2>1, <2>2, <1>1
  <1>3. CASE k >= m + 1
    <2>1. (k - m) * d >= d
      BY <1>1, <1>3, Multiples
    <2>2. (k - m) * d = k * d - m * d
      BY <1>1
    <2> QED
      BY <2>1, <2>2, <1>1
  <1> QED
    BY <1>1, <1>2, <1>3

LEMMA PeriodParts ==
  /\ Divisor \in Nat \ {0} /\ PlayPeriod \in Nat
  /\ Whole \in Int /\ Part \in Int /\ 0 <= Part /\ Part < Divisor
  /\ PlayPeriod = Whole * Divisor + Part
  /\ MaxCost \in Nat /\ MaxCost > 0 /\ Whole > MaxCost + 1
  BY CaptureAssumption, DivMod DEF Whole, Part

\* What a period does with the fraction: it takes the whole clocks, and one more
\* when the fraction carried on makes one up.
LEMMA PeriodLemma ==
  ASSUME play_extra \in {0, Part} \/ (play_extra = Part - Divisor /\ 2 * Part >= Divisor)
  PROVE  \/ Period = Whole /\ PlayPeriod - Period * Divisor = Part /\ play_extra = 0
         \/ Period = Whole /\ PlayPeriod - Period * Divisor = Part /\ play_extra = Part
              /\ 2 * Part < Divisor
         \/ Period = Whole + 1 /\ PlayPeriod - Period * Divisor = Part - Divisor
              /\ play_extra = Part /\ 2 * Part >= Divisor
         \/ Period = Whole /\ PlayPeriod - Period * Divisor = Part
              /\ play_extra = Part - Divisor /\ 2 * Part >= Divisor
  <1> USE PeriodParts
  <1>1. (Whole + 1) * Divisor = Whole * Divisor + Divisor
    OBVIOUS
  <1>2. CASE play_extra = 0
    <2>1. Period = Whole
      BY <1>2, DivUnique DEF Period
    <2> QED
      BY <2>1, <1>2
  <1>3. CASE play_extra = Part /\ 2 * Part < Divisor
    <2>1. Period = Whole
      BY <1>3, DivUnique DEF Period
    <2> QED
      BY <2>1, <1>3
  <1>4. CASE play_extra = Part /\ 2 * Part >= Divisor
    <2>1. Period = Whole + 1
      BY <1>1, <1>4, DivUnique DEF Period
    <2> QED
      BY <2>1, <1>1, <1>4
  <1>5. CASE play_extra = Part - Divisor /\ 2 * Part >= Divisor
    <2>1. Period = Whole
      BY <1>5, DivUnique DEF Period
    <2> QED
      BY <2>1, <1>5
  <1> QED
    BY <1>2, <1>3, <1>4, <1>5

-----------------------------------------------------------------------------
LEMMA InitIInv == Init => IInv
  <1> SUFFICES ASSUME Init PROVE IInv
    OBVIOUS
  <1>1. ~Started /\ LogTyped
    BY DEF Init, LogTyped, Started
  <1>2. CpuTyped /\ Calls
    <2>1. running \in BOOLEAN
      BY DEF Init
    <2>2. CpuTyped
      <3>1. current_frame = 0 /\ periods = 0 /\ play_ready = 0
            /\ where = "badop" /\ saved_state = "none"
        BY DEF Init
      <3>2. slide = 0 /\ 0 \in 0..MaxSlide
        BY CaptureAssumption DEF Init
      <3> QED
        BY <2>1, <3>1, <3>2 DEF CpuTyped
    <2>3. Calls
      BY <1>1 DEF Init, Calls
    <2> QED
      BY <2>2, <2>3
  <1>3. ClockTyped /\ Drift
    BY <1>1 DEF Init, ClockTyped, Drift
  <1> QED
    BY <1>1, <1>2, <1>3 DEF IInv

\* Markers and writes are entries, and what is logged stays logged.
LEMMA MarkerIsEntry ==
  ASSUME NEW kind \in {"INIT_START", "INIT_END", "PLAY_START", "PLAY_END"},
         NEW t \in Int, NEW f \in Nat
  PROVE  MarkerEntry(kind, t, f) \in AnyEntry
  BY DEF MarkerEntry, AnyEntry

LEMMA AppendKeeps ==
  ASSUME NEW S, NEW s \in Seq(S), NEW e \in S
  PROVE  Append(s, e) \in Seq(S) /\ Append(s, e) # << >> /\ Len(Append(s, e)) = Len(s) + 1
  <1>1. Append(s, e) \in Seq(S) /\ Len(Append(s, e)) = Len(s) + 1 /\ Len(s) \in Nat
    OBVIOUS
  <1>2. Len(<< >>) = 0
    OBVIOUS
  <1> QED
    BY <1>1, <1>2

LEMMA StartTrackKeeps == IInv /\ StartTrack => IInv'
  <1> SUFFICES ASSUME IInv, StartTrack PROVE IInv'
    OBVIOUS
  <1> USE CaptureAssumption, PeriodParts
  <1>1. LogTyped' /\ Started' /\ current_frame' = current_frame /\ current_frame = 0
    <2>1. MarkerEntry("INIT_START", 0, 0) \in AnyEntry
      BY MarkerIsEntry
    <2>2. entries' = Append(entries, MarkerEntry("INIT_START", 0, 0))
          /\ frame_start_time' = time /\ time \in Nat /\ current_frame' = 0
      BY DEF StartTrack, StartInit, IInv, LogTyped, ClockTyped
    <2>3. current_frame = 0
      BY DEF StartTrack, IInv, CpuTyped, Calls
    <2> QED
      BY <2>1, <2>2, <2>3, AppendKeeps DEF StartTrack, StartInit, IInv, LogTyped, Started
  <1>2. CpuTyped' /\ Calls'
    BY <1>1 DEF StartTrack, IInv, CpuTyped, Calls, ghost
  <1>3. ClockTyped'
    BY DEF StartTrack, IInv, ClockTyped, Calls, ghost, Whole
  <1>4. Drift'
    <2>1. base = 0 /\ periods = 0 /\ base' = 0 /\ periods' = 0 /\ next_play' = Whole
          /\ play_extra' = 0
      BY DEF StartTrack, IInv, Calls, ghost, Whole
    <2>2. Offset' = Part
      BY <2>1 DEF Offset
    <2> QED
      BY <2>1, <2>2 DEF Drift
  <1> QED
    BY <1>1, <1>2, <1>3, <1>4 DEF IInv

LEMMA StartBufferKeeps == IInv /\ StartBuffer => IInv'
  BY CaptureAssumption, PeriodParts
  DEF StartBuffer, ResetFrameStartTime, IInv, LogTyped, CpuTyped, Calls, ClockTyped, Drift, Offset, Started, cpu, ghost

\* A write or a marker leaves all but the entries alone.
LEMMA InstructionKeeps == IInv /\ Instruction => IInv'
  <1> SUFFICES ASSUME IInv, Instruction PROVE IInv'
    OBVIOUS
  <1> USE CaptureAssumption, PeriodParts
  <1>1. PICK c \in 1..MaxCost :
          /\ time' = time + c
          /\ \/ UNCHANGED <<logger, where>>
             \/ where' = "badop" /\ UNCHANGED logger
             \/ /\ \E a \in Addrs, d \in Data : LogWrite(time', a, d)
                /\ UNCHANGED where
    BY DEF Instruction
  <1>2. time' \in Nat /\ time < next_play
    BY <1>1 DEF Instruction, CanRun, End, IInv, ClockTyped
  <1>3. /\ LogTyped' /\ (Started => Started')
        /\ current_frame' = current_frame
    <2>1. CASE UNCHANGED logger
      BY <2>1 DEF logger, IInv, LogTyped, Started
    <2>2. CASE \E a \in Addrs, d \in Data : LogWrite(time', a, d)
      <3>1. PICK a \in Addrs, d \in Data : LogWrite(time', a, d)
        BY <2>2
      <3>2. WriteEntry(Since(time'), a, d) \in AnyEntry
        BY <1>2 DEF WriteEntry, Since, AnyEntry, IInv, LogTyped, CpuTyped
      <3>3. entries' = entries \/ entries' = Append(entries, WriteEntry(Since(time'), a, d))
        BY <3>1 DEF LogWrite, WithWrite
      <3>4. entries' \in Seq(AnyEntry) /\ (Started => Started')
        BY <3>2, <3>3, AppendKeeps DEF IInv, LogTyped, Started
      <3> QED
        BY <3>1, <3>4 DEF LogWrite, IInv, LogTyped
    <2> QED
      BY <1>1, <2>1, <2>2 DEF logger
  <1>4. Started
    BY DEF Instruction, CanRun, IInv, Calls
  <1>5. where' \in {where, "badop"}
    BY <1>1
  <1>6. CpuTyped' /\ Calls'
    BY <1>3, <1>4, <1>5 DEF Instruction, IInv, CpuTyped, Calls, ghost
  <1>7. ClockTyped'
    BY <1>1, <1>2 DEF Instruction, IInv, ClockTyped, ghost
  <1>8. Drift'
    BY <1>3, <1>4 DEF Instruction, IInv, Drift, Offset, ghost
  <1> QED
    BY <1>3, <1>6, <1>7, <1>8 DEF IInv

\* A step over an illegal opcode moves r.pc only.
LEMMA IllegalKeeps == IInv /\ Illegal => IInv'
  <1> SUFFICES ASSUME IInv, Illegal PROVE IInv'
    OBVIOUS
  <1> USE CaptureAssumption DEF Illegal, loggerVars, logger, clock, ghost, Started
  <1>1. LogTyped'
    BY DEF IInv, LogTyped
  <1>2. slide' \in 0..MaxSlide /\ where' \in {where, "badop"}
    BY DEF IInv, CpuTyped
  <1>3. CpuTyped' /\ Calls'
    BY <1>2 DEF IInv, CpuTyped, Calls, CanRun
  <1>4. ClockTyped' /\ Drift'
    BY DEF IInv, ClockTyped, Drift, Offset
  <1> QED
    BY <1>1, <1>3, <1>4 DEF IInv

LEMMA ResumeKeeps == IInv /\ Resume => IInv'
  <1> SUFFICES ASSUME IInv, Resume PROVE IInv'
    OBVIOUS
  <1>1. /\ LogTyped' /\ (Started => Started')
        /\ current_frame' = current_frame
    <2>1. PICK kind \in {"INIT_END", "PLAY_END"} :
            entries' = Append(entries, MarkerEntry(kind, time - frame_start_time, current_frame))
      BY DEF Resume, LogInitEnd, LogPlayEnd, IInv, LogTyped
    <2>2. MarkerEntry(kind, time - frame_start_time, current_frame) \in AnyEntry
      BY MarkerIsEntry DEF IInv, LogTyped, CpuTyped, ClockTyped
    <2>3. entries' \in Seq(AnyEntry) /\ Started'
      BY <2>1, <2>2, AppendKeeps DEF IInv, LogTyped, Started
    <2> QED
      BY <2>3 DEF Resume, LogInitEnd, LogPlayEnd, IInv, LogTyped
  <1>2. Started
    BY DEF Resume, CanRun, IInv, Calls
  <1>3. CpuTyped' /\ Calls'
    BY <1>1, <1>2, CaptureAssumption DEF Resume, IInv, CpuTyped, Calls, ghost
  <1>4. ClockTyped' /\ Drift'
    BY <1>1, <1>2 DEF Resume, IInv, ClockTyped, Drift, Offset, ghost
  <1> QED
    BY <1>1, <1>3, <1>4 DEF IInv

LEMMA IdleKeeps == IInv /\ Idle => IInv'
  <1> SUFFICES ASSUME IInv, Idle PROVE IInv'
    OBVIOUS
  <1> USE CaptureAssumption, PeriodParts DEF Idle, loggerVars, logger, cpu, ghost, Started
  <1>1. LogTyped'
    BY DEF IInv, LogTyped
  <1>2. CpuTyped' /\ Calls'
    BY DEF IInv, CpuTyped, Calls, CanRun
  <1>3. ClockTyped'
    BY DEF IInv, ClockTyped, End
  <1>4. Drift'
    BY DEF IInv, Drift, Offset
  <1> QED
    BY <1>1, <1>2, <1>3, <1>4 DEF IInv

LEMMA ConcatKeeps ==
  ASSUME NEW S, NEW s \in Seq(S), NEW t \in Seq(S)
  PROVE  s \o t \in Seq(S) /\ Len(s \o t) = Len(s) + Len(t)
         /\ Len(s) \in Nat /\ Len(t) \in Nat
  OBVIOUS

\* PlayMarkers is one or two entries.
LEMMA PlayMarkersTyped ==
  ASSUME LogTyped, CpuTyped, ClockTyped
  PROVE  /\ entries \o PlayMarkers \in Seq(AnyEntry)
         /\ Len(entries \o PlayMarkers) > Len(entries)
         /\ Len(entries) \in Nat
  <1> DEFINE first == MarkerEntry("INIT_END", time - frame_start_time, 0)
             start == MarkerEntry("PLAY_START", 0, current_frame + 1)
  <1>1. first \in AnyEntry /\ start \in AnyEntry /\ entries \in Seq(AnyEntry)
    BY MarkerIsEntry DEF LogTyped, CpuTyped, ClockTyped
  <1> HIDE DEF first, start
  <1>2. CASE current_frame = 0
    <2>1. PlayMarkers = <<first>> \o <<start>>
      BY <1>2 DEF PlayMarkers, first, start
    <2>2. PlayMarkers \in Seq(AnyEntry) /\ Len(PlayMarkers) = 2
      BY <1>1, <2>1
    <2>3. /\ entries \o PlayMarkers \in Seq(AnyEntry) /\ Len(entries) \in Nat
          /\ Len(entries \o PlayMarkers) = Len(entries) + Len(PlayMarkers)
      BY <1>1, <2>2, ConcatKeeps
    <2> QED
      BY <2>2, <2>3
  <1>3. CASE current_frame # 0
    <2>1. PlayMarkers = << >> \o <<start>>
      BY <1>3 DEF PlayMarkers, start
    <2>2. PlayMarkers \in Seq(AnyEntry) /\ Len(PlayMarkers) = 1
      BY <1>1, <2>1
    <2>3. /\ entries \o PlayMarkers \in Seq(AnyEntry) /\ Len(entries) \in Nat
          /\ Len(entries \o PlayMarkers) = Len(entries) + Len(PlayMarkers)
      BY <1>1, <2>2, ConcatKeeps
    <2> QED
      BY <2>2, <2>3
  <1> QED
    BY <1>2, <1>3

LEMMA PlayDueKeeps == IInv /\ PlayDue => IInv'
  <1> SUFFICES ASSUME IInv, PlayDue PROVE IInv'
    OBVIOUS
  <1> USE CaptureAssumption, PeriodParts
  <1> DEFINE called == play_ready > 0 /\ Countdown = 0
  <1>1. /\ Started /\ running /\ play_ready' = Countdown /\ periods' = periods + 1
        /\ Countdown = IF play_ready > 0 THEN play_ready - 1 ELSE 0
        /\ UNCHANGED <<running, time, base>>
    BY DEF PlayDue, IInv, Calls, Countdown
  <1>2. /\ called  => /\ saved_state' = IF where # "badop" THEN where ELSE saved_state
                      /\ where' = "play" /\ current_frame' = current_frame + 1
                      /\ entries' = entries \o PlayMarkers /\ frame_start_time' = time
        /\ ~called => UNCHANGED <<cpu, entries, current_frame, frame_start_time>>
    BY <1>1 DEF PlayDue
  <1>3. LogTyped' /\ Started'
    <2>1. CASE called
      <3>1. entries' \in Seq(AnyEntry) /\ Len(entries') > Len(entries) /\ Len(entries) \in Nat
        BY <2>1, <1>2, PlayMarkersTyped DEF IInv
      <3>2. Len(<< >>) = 0
        OBVIOUS
      <3>3. entries' # << >>
        BY <3>1, <3>2
      <3> QED
        BY <2>1, <1>2, <3>1, <3>3 DEF PlayDue, IInv, LogTyped, ClockTyped, Started
    <2>2. CASE ~called
      BY <2>2, <1>1, <1>2 DEF PlayDue, IInv, LogTyped, Started
    <2> QED
      BY <2>1, <2>2
  <1>4. CpuTyped' /\ Calls'
    <2>1. CASE called
      <3>1. where # "play" /\ (where # "badop" => where = "init")
        BY <2>1 DEF IInv, CpuTyped, Calls
      <3>2. saved_state' \in {"none", "init"} /\ current_frame' = current_frame + 1
            /\ play_ready' = 0 /\ where' = "play"
        BY <2>1, <1>1, <1>2, <3>1 DEF IInv, CpuTyped
      <3>3. slide' = 0 /\ MaxSlide \in Nat \ {0}
        BY <2>1, <1>1, CaptureAssumption DEF PlayDue
      <3> QED
        BY <1>1, <1>3, <3>2, <3>3 DEF IInv, CpuTyped, Calls
    <2>2. CASE ~called
      <3>1. UNCHANGED <<cpu, current_frame>>
        BY <2>2, <1>2
      <3>2. CpuTyped'
        BY <1>1, <3>1 DEF IInv, CpuTyped, cpu
      <3>3. Calls'
        BY <2>2, <1>1, <1>3, <3>1 DEF IInv, CpuTyped, Calls, cpu
      <3> QED
        BY <3>2, <3>3
    <2> QED
      BY <2>1, <2>2
  <1>5. play_extra' = PlayPeriod - Period * Divisor /\ next_play' = next_play + Period
    BY DEF PlayDue
  <1>6. Period \in {Whole, Whole + 1}
    BY PeriodLemma DEF IInv, ClockTyped
  <1>7. ClockTyped'
    BY <1>1, <1>5, <1>6, PeriodLemma DEF IInv, ClockTyped
  <1>8. Drift'
    <2>1. Offset' = Offset + play_extra'
      <3>1. (periods + 2) * PlayPeriod = (periods + 1) * PlayPeriod + PlayPeriod
        BY DEF IInv, CpuTyped
      <3>2. (base + next_play + Period) * Divisor
              = (base + next_play) * Divisor + Period * Divisor
        BY <1>6 DEF IInv, ClockTyped
      <3>3. Offset' = (periods + 2) * PlayPeriod - (base + next_play + Period) * Divisor
        <4>1. periods' + 1 = periods + 2 /\ base' + next_play' = base + next_play + Period
          BY <1>1, <1>5, <1>6 DEF IInv, CpuTyped, ClockTyped
        <4> QED
          BY <4>1 DEF Offset
      <3>4. /\ (periods + 1) * PlayPeriod \in Int /\ (base + next_play) * Divisor \in Int
            /\ Period * Divisor \in Int
        BY <1>6 DEF IInv, CpuTyped, ClockTyped
      <3> QED
        BY <3>1, <3>2, <3>3, <3>4, <1>5 DEF Offset
    <2>2. Offset \in Int
      BY DEF Offset, IInv, CpuTyped, ClockTyped
    <2>3. \/ play_extra' = Part /\ play_extra = 0
          \/ play_extra' = Part /\ play_extra = Part /\ 2 * Part < Divisor
          \/ play_extra' = Part - Divisor /\ play_extra = Part /\ 2 * Part >= Divisor
          \/ play_extra' = Part /\ play_extra = Part - Divisor /\ 2 * Part >= Divisor
      BY <1>5, PeriodLemma DEF IInv, ClockTyped
    <2> QED
      BY <1>1, <2>1, <2>2, <2>3 DEF IInv, Drift
  <1> QED
    BY <1>3, <1>4, <1>7, <1>8 DEF IInv

LEMMA EndBufferKeeps == IInv /\ EndBuffer => IInv'
  <1> SUFFICES ASSUME IInv, EndBuffer PROVE IInv'
    OBVIOUS
  <1> USE CaptureAssumption, PeriodParts
  <1>1. Started /\ UNCHANGED <<entries, current_frame, cpu, play_ready, play_extra, periods>>
    BY DEF EndBuffer, IInv, Calls, loggerVars, logger
  <1>2. next_play' = next_play - time /\ base' = base + time /\ time' = time /\ ~running'
    BY DEF EndBuffer, IInv, ClockTyped
  <1>3. LogTyped'
    BY DEF EndBuffer, IInv, LogTyped, loggerVars, logger
  <1>4. CpuTyped'
    BY <1>1 DEF EndBuffer, IInv, CpuTyped, cpu
  <1>5. Calls'
    BY <1>1, <1>2 DEF IInv, Calls, Started, cpu
  <1>6. ClockTyped'
    BY <1>1, <1>2 DEF EndBuffer, IInv, ClockTyped
  <1>7. Drift'
    <2>1. base' + next_play' = base + next_play
      BY <1>2 DEF IInv, ClockTyped
    <2>2. Offset' = Offset
      BY <1>1, <2>1 DEF Offset
    <2> QED
      BY <1>1, <2>2 DEF IInv, Drift, Started
  <1> QED
    BY <1>3, <1>4, <1>5, <1>6, <1>7 DEF IInv

LEMMA NextIInv == IInv /\ [Next]_vars => IInv'
  <1>1. IInv /\ UNCHANGED vars => IInv'
    BY DEF vars, loggerVars, logger, clock, cpu, ghost, IInv, LogTyped, CpuTyped, Calls,
       ClockTyped, Drift, Offset, Started
  <1> QED
    BY <1>1, StartTrackKeeps, StartBufferKeeps, InstructionKeeps, IllegalKeeps, ResumeKeeps, IdleKeeps,
       PlayDueKeeps, EndBufferKeeps DEF Next

\* The schedule's invariant holds of every recording.
THEOREM CaptureInvariant == Spec => []IInv
  BY InitIInv, NextIInv, PTL DEF Spec

-----------------------------------------------------------------------------
LEMMA IInvGivesTypeOK == IInv => TypeOK
  BY PeriodParts DEF IInv, LogTyped, CpuTyped, ClockTyped, TypeOK

LEMMA IInvGivesPreemption == IInv => PlayPreemptsOnlyInit
  BY DEF IInv, Calls, PlayPreemptsOnlyInit

LEMMA IInvGivesPunctual == IInv => PlayIsPunctual
  BY DEF IInv, ClockTyped, PlayIsPunctual

LEMMA IInvGivesInit == IInv => InitCannotBlockPlay
  BY DEF IInv, CpuTyped, Calls, InitCannotBlockPlay

LEMMA IInvGivesNoDrift == IInv => NoDrift
  <1> SUFFICES ASSUME IInv, Started, 2 * Part \in {0, Divisor}
               PROVE  0 <= Offset /\ Offset <= Divisor
    BY DEF NoDrift, Offset, Part
  <1> QED
    BY PeriodParts DEF IInv, Drift

\* Types, and the one saved routine is enough: PLAY never preempts another PLAY
\* (the check of Nsf_Emu.cpp:685).
THEOREM CaptureTypes == Spec => []TypeOK
  BY CaptureInvariant, IInvGivesTypeOK, PTL

THEOREM OneRoutineIsSaved == Spec => []PlayPreemptsOnlyInit
  BY CaptureInvariant, IInvGivesPreemption, PTL

\* PLAY is called less than an instruction late.
THEOREM Punctual == Spec => []PlayIsPunctual
  BY CaptureInvariant, IInvGivesPunctual, PTL

\* The fraction carried from period to period keeps PLAY within a clock of its
\* ideal time, however long the recording.
THEOREM RateIsExact == Spec => []NoDrift
  BY CaptureInvariant, IInvGivesNoDrift, PTL

\* An INIT that loops forever is preempted by the fourth period.
THEOREM InitIsPreempted == Spec => []InitCannotBlockPlay
  BY CaptureInvariant, IInvGivesInit, PTL

-----------------------------------------------------------------------------
\* The log as the converter sees it, without times and frames.
View(e)  == IF IsWrite(e) THEN [event |-> "WRITE", off |-> e.addr, val |-> e.data]
                          ELSE [event |-> e.event]
Shown(s) == [i \in 1..Len(s) |-> View(s[i])]

HasStart(s) == \E i \in 1..Len(s) : s[i].event = "PLAY_START"

\* A PLAY has started and not returned.
Open(s) == \E i \in 1..Len(s) : /\ s[i].event = "PLAY_START"
                                /\ \A j \in i..Len(s) : s[j].event # "PLAY_END"

\* The frame count and the saved routine say what the log holds.
History == /\ HasStart(entries) <=> current_frame > 0
           /\ saved_state = "init" => Open(entries)

LEMMA AppendParts ==
  ASSUME NEW S, NEW s \in Seq(S), NEW e \in S
  PROVE  /\ Append(s, e) \in Seq(S) /\ Len(Append(s, e)) = Len(s) + 1 /\ Len(s) \in Nat
         /\ \A i \in 1..Len(s) : Append(s, e)[i] = s[i]
         /\ Append(s, e)[Len(s) + 1] = e
  OBVIOUS

LEMMA HasStartAppend ==
  ASSUME NEW s \in Seq(AnyEntry), NEW e \in AnyEntry
  PROVE  HasStart(Append(s, e)) <=> HasStart(s) \/ e.event = "PLAY_START"
  <1> DEFINE t == Append(s, e)
  <1>1. /\ Len(t) = Len(s) + 1 /\ Len(s) \in Nat
        /\ \A i \in 1..Len(s) : t[i] = s[i]
        /\ t[Len(s) + 1] = e
    BY AppendParts
  <1>2. \A i \in 1..Len(t) : i \in 1..Len(s) \/ i = Len(s) + 1
    BY <1>1
  <1>3. 1..Len(s) \subseteq 1..Len(t) /\ Len(s) + 1 \in 1..Len(t)
    BY <1>1
  <1> HIDE DEF t
  <1> QED
    BY <1>1, <1>2, <1>3 DEF HasStart, t

LEMMA OpenAppend ==
  ASSUME NEW s \in Seq(AnyEntry), NEW e \in AnyEntry,
         e.event = "PLAY_START" \/ (Open(s) /\ e.event # "PLAY_END")
  PROVE  Open(Append(s, e))
  <1> DEFINE t == Append(s, e)
  <1>1. /\ Len(t) = Len(s) + 1 /\ Len(s) \in Nat
        /\ \A i \in 1..Len(s) : t[i] = s[i]
        /\ t[Len(s) + 1] = e
    BY AppendParts
  <1> HIDE DEF t
  <1>2. CASE e.event = "PLAY_START"
    <2>1. Len(s) + 1 \in 1..Len(t) /\ \A j \in (Len(s) + 1)..Len(t) : j = Len(s) + 1
      BY <1>1
    <2> QED
      BY <1>1, <1>2, <2>1 DEF Open, t
  <1>3. CASE Open(s) /\ e.event # "PLAY_END"
    <2>1. PICK i \in 1..Len(s) : /\ s[i].event = "PLAY_START"
                                 /\ \A j \in i..Len(s) : s[j].event # "PLAY_END"
      BY <1>3 DEF Open
    <2>2. i \in 1..Len(t) /\ t[i].event = "PLAY_START"
      BY <1>1, <2>1
    <2>3. ASSUME NEW j \in i..Len(t) PROVE t[j].event # "PLAY_END"
      <3>1. (j \in i..Len(s) /\ j \in 1..Len(s)) \/ j = Len(s) + 1
        BY <1>1
      <3> QED
        BY <1>1, <1>3, <2>1, <3>1
    <2> QED
      BY <2>2, <2>3 DEF Open, t
  <1> QED
    BY <1>2, <1>3

LEMMA ShownAppend ==
  ASSUME NEW s \in Seq(AnyEntry), NEW e \in AnyEntry
  PROVE  Shown(Append(s, e)) = Append(Shown(s), View(e))
  <1>1. /\ Len(Append(s, e)) = Len(s) + 1 /\ Len(s) \in Nat
        /\ \A i \in 1..Len(s) : Append(s, e)[i] = s[i]
        /\ Append(s, e)[Len(s) + 1] = e
    BY AppendParts
  <1> DEFINE V == {View(x) : x \in AnyEntry}
  <1>2. Shown(s) \in Seq(V) /\ Len(Shown(s)) = Len(s) /\ View(e) \in V
    <2>1. \A i \in 1..Len(s) : s[i] \in AnyEntry
      OBVIOUS
    <2>2. \A i \in 1..Len(s) : View(s[i]) \in V
      BY <2>1
    <2> HIDE DEF V
    <2>3. Shown(s) \in [1..Len(s) -> V]
      BY <2>2 DEF Shown
    <2>4. View(e) \in {View(x) : x \in AnyEntry}
      OBVIOUS
    <2> QED
      BY <1>1, <2>3, <2>4 DEF V
  <1> HIDE DEF V
  <1>3. /\ Append(Shown(s), View(e)) \in Seq(V)
        /\ Len(Append(Shown(s), View(e))) = Len(s) + 1
        /\ \A i \in 1..Len(s) : Append(Shown(s), View(e))[i] = Shown(s)[i]
        /\ Append(Shown(s), View(e))[Len(s) + 1] = View(e)
    <2>1. /\ Append(Shown(s), View(e)) \in Seq(V)
          /\ Len(Append(Shown(s), View(e))) = Len(Shown(s)) + 1
          /\ \A i \in 1..Len(Shown(s)) : Append(Shown(s), View(e))[i] = Shown(s)[i]
          /\ Append(Shown(s), View(e))[Len(Shown(s)) + 1] = View(e)
      BY <1>2, AppendParts
    <2> QED
      BY <1>2, <2>1
  <1>4. Append(Shown(s), View(e)) = [i \in 1..(Len(s) + 1) |-> Append(Shown(s), View(e))[i]]
    <2>1. ASSUME NEW t \in Seq(V) PROVE t \in [1..Len(t) -> V]
      OBVIOUS
    <2>2. Append(Shown(s), View(e)) \in [1..(Len(s) + 1) -> V]
      BY <1>3, <2>1
    <2> QED
      BY <2>2, Zenon
  <1>5. ASSUME NEW i \in 1..(Len(s) + 1)
        PROVE  View(Append(s, e)[i]) = Append(Shown(s), View(e))[i]
    <2>1. CASE i \in 1..Len(s)
      <3>1. Append(Shown(s), View(e))[i] = Shown(s)[i] /\ Append(s, e)[i] = s[i]
        BY <1>1, <1>3, <2>1
      <3>2. Shown(s)[i] = View(s[i])
        BY <2>1, Zenon DEF Shown
      <3> QED
        BY <3>1, <3>2
    <2>2. CASE i = Len(s) + 1
      <3>1. Append(Shown(s), View(e))[i] = View(e)
        BY <1>3, <2>2
      <3>2. Append(s, e)[i] = e
        BY <1>1, <2>2
      <3> QED
        BY <3>1, <3>2
    <2>3. i \in 1..Len(s) \/ i = Len(s) + 1
      BY <1>1
    <2> QED
      BY <2>1, <2>2, <2>3
  <1> QED
    BY <1>1, <1>4, <1>5 DEF Shown

-----------------------------------------------------------------------------
\* What a step can do to the log, with the frame count and the saved routine.
Quiet      == UNCHANGED <<entries, current_frame, saved_state>>
InitBegins == \E e \in AnyEntry :
                /\ e.event = "INIT_START" /\ entries = << >> /\ entries' = Append(entries, e)
                /\ current_frame' = current_frame /\ saved_state' = "none"
Writes     == \E e \in AnyEntry :
                /\ e.event = "WRITE" /\ Started /\ entries' = Append(entries, e)
                /\ UNCHANGED <<current_frame, saved_state>>
PlayEnds   == \E e \in AnyEntry :
                /\ e.event = "PLAY_END" /\ Started /\ entries' = Append(entries, e)
                /\ saved_state = "init" /\ saved_state' = "none"
                /\ current_frame' = current_frame
FirstPlay  == \E a, b \in AnyEntry :
                /\ a.event = "INIT_END" /\ b.event = "PLAY_START" /\ Started
                /\ entries' = Append(Append(entries, a), b)
                /\ current_frame = 0 /\ current_frame' = 1
LaterPlay  == \E b \in AnyEntry :
                /\ b.event = "PLAY_START" /\ Started /\ entries' = Append(entries, b)
                /\ current_frame > 0 /\ current_frame' = current_frame + 1

LEMMA InstructionShape == ASSUME IInv, Instruction PROVE Quiet \/ Writes
  <1>1. Started /\ saved_state' = saved_state
    BY DEF Instruction, CanRun, IInv, Calls
  <1>2. CASE UNCHANGED logger
    BY <1>1, <1>2 DEF logger, Quiet
  <1>3. CASE \E c \in 1..MaxCost : time' = time + c
                /\ \E a \in Addrs, d \in Data : LogWrite(time', a, d)
    <2>1. PICK a \in Addrs, d \in Data : LogWrite(time', a, d)
      BY <1>3
    <2>2. time' \in Nat
      BY <1>3, CaptureAssumption DEF IInv, ClockTyped
    <2> DEFINE e == WriteEntry(Since(time'), a, d)
    <2>3. e \in AnyEntry /\ e.event = "WRITE"
      BY <2>2 DEF WriteEntry, Since, AnyEntry, IInv, LogTyped, CpuTyped
    <2>4. entries' = entries \/ entries' = Append(entries, e)
      BY <2>1 DEF LogWrite, WithWrite
    <2>5. current_frame' = current_frame
      BY <2>1 DEF LogWrite
    <2> HIDE DEF e
    <2> QED
      BY <1>1, <2>3, <2>4, <2>5 DEF Quiet, Writes
  <1> QED
    BY <1>2, <1>3 DEF Instruction

LEMMA ResumeShape == ASSUME IInv, Resume PROVE PlayEnds
  <1> DEFINE e == MarkerEntry("PLAY_END", time - frame_start_time, current_frame)
  <1>1. saved_state = "init" /\ current_frame # 0 /\ Started
    BY DEF Resume, CanRun, IInv, Calls, CpuTyped
  <1>2. entries' = Append(entries, e) /\ current_frame' = current_frame
        /\ saved_state' = "none"
    BY <1>1 DEF Resume, LogPlayEnd, IInv, LogTyped
  <1>3. e \in AnyEntry /\ e.event = "PLAY_END"
    BY MarkerIsEntry DEF MarkerEntry, IInv, LogTyped, CpuTyped, ClockTyped
  <1> HIDE DEF e
  <1> QED
    BY <1>1, <1>2, <1>3 DEF PlayEnds

LEMMA StartTrackShape == ASSUME IInv, StartTrack PROVE InitBegins
  <1> DEFINE e == MarkerEntry("INIT_START", 0, 0)
  <1>1. entries = << >> /\ entries' = Append(entries, e)
        /\ current_frame' = current_frame /\ saved_state' = "none"
    BY DEF StartTrack, StartInit, IInv, LogTyped, CpuTyped, Calls, Started
  <1>2. e \in AnyEntry /\ e.event = "INIT_START"
    BY MarkerIsEntry DEF MarkerEntry, IInv, CpuTyped
  <1> HIDE DEF e
  <1> QED
    BY <1>1, <1>2 DEF InitBegins

LEMMA Appended ==
  ASSUME NEW S, NEW s \in Seq(S), NEW a \in S, NEW b \in S
  PROVE  /\ s \o (<< >> \o <<b>>) = Append(s, b)
         /\ s \o (<<a>> \o <<b>>) = Append(Append(s, a), b)
  OBVIOUS

LEMMA PlayDueShape == ASSUME IInv, PlayDue PROVE Quiet \/ FirstPlay \/ LaterPlay
  <1> DEFINE a == MarkerEntry("INIT_END", time - frame_start_time, 0)
             b == MarkerEntry("PLAY_START", 0, current_frame + 1)
  <1>1. Started
    BY DEF PlayDue, IInv, Calls
  <1>2. /\ a \in AnyEntry /\ a.event = "INIT_END"
        /\ b \in AnyEntry /\ b.event = "PLAY_START"
        /\ entries \in Seq(AnyEntry) /\ current_frame \in Nat
    BY MarkerIsEntry DEF MarkerEntry, IInv, LogTyped, CpuTyped, ClockTyped
  <1>3. \/ Quiet
        \/ entries' = entries \o PlayMarkers /\ current_frame' = current_frame + 1
    BY DEF PlayDue, Quiet, cpu
  <1>4. PlayMarkers = (IF current_frame = 0 THEN <<a>> ELSE << >>) \o <<b>>
    BY DEF PlayMarkers
  <1> HIDE DEF a, b
  <1>5. CASE entries' = entries \o PlayMarkers /\ current_frame' = current_frame + 1
             /\ current_frame = 0
    <2>1. entries' = Append(Append(entries, a), b)
      BY <1>2, <1>4, <1>5, Appended
    <2> QED
      BY <1>1, <1>2, <1>5, <2>1 DEF FirstPlay
  <1>6. CASE entries' = entries \o PlayMarkers /\ current_frame' = current_frame + 1
             /\ current_frame # 0
    <2>1. entries' = Append(entries, b)
      BY <1>2, <1>4, <1>6, Appended
    <2> QED
      BY <1>1, <1>2, <1>6, <2>1 DEF LaterPlay
  <1> QED
    BY <1>3, <1>5, <1>6

LEMMA StepShapes ==
  ASSUME IInv, [Next]_vars
  PROVE  Quiet \/ InitBegins \/ Writes \/ PlayEnds \/ FirstPlay \/ LaterPlay
  <1>1. UNCHANGED vars \/ StartBuffer \/ Illegal \/ Idle \/ EndBuffer => Quiet
    BY DEF StartBuffer, ResetFrameStartTime, Illegal, Idle, EndBuffer, Quiet, vars, loggerVars, logger, cpu
  <1> QED
    BY <1>1, InstructionShape, ResumeShape, StartTrackShape, PlayDueShape DEF Next

-----------------------------------------------------------------------------
LEMMA InitHistory == Init => History
  <1>1. Len(<< >>) = 0
    OBVIOUS
  <1> QED
    BY <1>1 DEF Init, History, HasStart

LEMMA NextHistory ==
  ASSUME IInv, IInv', History, [Next]_vars
  PROVE  History'
  <1> USE DEF History
  <1>1. /\ entries \in Seq(AnyEntry) /\ current_frame \in Nat /\ current_frame' \in Nat
        /\ saved_state \in {"none", "init"} /\ saved_state' \in {"none", "init"}
    BY DEF IInv, LogTyped, CpuTyped
  <1>2. CASE Quiet
    BY <1>2 DEF Quiet, HasStart, Open
  <1>3. CASE InitBegins
    <2>1. PICK e \in AnyEntry :
            /\ e.event = "INIT_START" /\ entries' = Append(entries, e)
            /\ current_frame' = current_frame /\ saved_state' = "none"
      BY <1>3 DEF InitBegins
    <2>2. HasStart(entries') <=> HasStart(entries)
      BY <1>1, <2>1, HasStartAppend
    <2> QED
      BY <2>1, <2>2 DEF HasStart
  <1>4. CASE Writes
    <2>1. PICK e \in AnyEntry :
            /\ e.event = "WRITE" /\ entries' = Append(entries, e)
            /\ UNCHANGED <<current_frame, saved_state>>
      BY <1>4 DEF Writes
    <2>2. HasStart(entries') <=> HasStart(entries)
      BY <1>1, <2>1, HasStartAppend
    <2>3. saved_state' = "init" => Open(entries')
      BY <1>1, <2>1, OpenAppend
    <2> QED
      BY <2>1, <2>2, <2>3 DEF HasStart, Open
  <1>5. CASE PlayEnds
    BY <1>1, <1>5, HasStartAppend DEF PlayEnds
  <1>6. CASE FirstPlay
    <2>1. PICK a \in AnyEntry, b \in AnyEntry :
            /\ b.event = "PLAY_START" /\ entries' = Append(Append(entries, a), b)
            /\ current_frame' = 1
      BY <1>6 DEF FirstPlay
    <2>2. Append(entries, a) \in Seq(AnyEntry)
      BY <1>1, AppendParts
    <2>3. HasStart(entries') /\ Open(entries')
      BY <2>1, <2>2, HasStartAppend, OpenAppend
    <2> QED
      BY <2>1, <2>3 DEF HasStart, Open
  <1>7. CASE LaterPlay
    <2>1. PICK b \in AnyEntry :
            /\ b.event = "PLAY_START" /\ entries' = Append(entries, b)
            /\ current_frame > 0 /\ current_frame' = current_frame + 1
      BY <1>7 DEF LaterPlay
    <2> QED
      BY <1>1, <2>1, HasStartAppend, OpenAppend
  <1> QED
    BY <1>2, <1>3, <1>4, <1>5, <1>6, <1>7, StepShapes

\* The actions of the abstract log, of the log as shown.
LEMMA LogActions ==
  /\ Log!LogInit <=> Shown(entries) = << >>
  /\ Log!LogInitStart <=> /\ Shown(entries) = << >>
                          /\ Shown(entries') = <<[event |-> "INIT_START"]>>
  /\ \A off \in Addrs, val \in Data :
       Log!LogWrite(off, val) <=>
         /\ Shown(entries) # << >>
         /\ Shown(entries') = Append(Shown(entries),
                                     [event |-> "WRITE", off |-> off, val |-> val])
  /\ Log!LogPlayStart <=>
       /\ Shown(entries) # << >>
       /\ Shown(entries') =
            Shown(entries) \o (IF Log!Has("PLAY_START") THEN << >>
                               ELSE <<[event |-> "INIT_END"]>>)
                          \o <<[event |-> "PLAY_START"]>>
  /\ Log!LogPlayEnd <=>
       /\ Open(Shown(entries))
       /\ Shown(entries') = Append(Shown(entries), [event |-> "PLAY_END"])
  <1>1. Log!LogInit <=> Shown(entries) = << >>
    BY DEF Log!LogInit, Shown, View
  <1>2. Log!LogInitStart <=> /\ Shown(entries) = << >>
                            /\ Shown(entries') = <<[event |-> "INIT_START"]>>
    BY DEF Log!LogInitStart, Log!Marker, Shown, View
  <1>3. ASSUME NEW off \in Addrs, NEW val \in Data
        PROVE  Log!LogWrite(off, val) <=>
                 /\ Shown(entries) # << >>
                 /\ Shown(entries') = Append(Shown(entries),
                                             [event |-> "WRITE", off |-> off, val |-> val])
    BY DEF Log!LogWrite, Log!Write, Shown, View
  <1>4. Log!LogPlayStart <=>
         /\ Shown(entries) # << >>
         /\ Shown(entries') =
              Shown(entries) \o (IF Log!Has("PLAY_START") THEN << >>
                                 ELSE <<[event |-> "INIT_END"]>>)
                            \o <<[event |-> "PLAY_START"]>>
    BY DEF Log!LogPlayStart, Log!Marker, Shown, View
  <1>5. Log!LogPlayEnd <=>
         /\ Open(Shown(entries))
         /\ Shown(entries') = Append(Shown(entries), [event |-> "PLAY_END"])
    BY DEF Log!LogPlayEnd, Log!Marker, Shown, View, Open
  <1> QED
    BY <1>1, <1>2, <1>3, <1>4, <1>5

\* A step of the recorder is a step of the abstract log, or none.
LEMMA StepIsLogStep ==
  ASSUME IInv, History, [Next]_vars
  PROVE  Shown(entries') = Shown(entries) \/ Log!LogNext
  <1> DEFINE log  == Shown(entries)
             next == Shown(entries')
  <1>1. /\ entries \in Seq(AnyEntry) /\ Len(entries) \in Nat
        /\ \A e \in AnyEntry : Append(entries, e) \in Seq(AnyEntry)
        /\ \A e \in AnyEntry : Shown(Append(entries, e)) = Append(log, View(e))
    BY ShownAppend, AppendKeeps DEF IInv, LogTyped
  <1>2. \A i \in 1..Len(entries) : log[i] = View(entries[i]) /\ entries[i] \in AnyEntry
    BY <1>1 DEF Shown
  <1>3. log \in Seq({View(x) : x \in AnyEntry}) /\ Len(log) = Len(entries)
    <2>1. \A i \in 1..Len(entries) : View(entries[i]) \in {View(x) : x \in AnyEntry}
      BY <1>2
    <2>2. log \in [1..Len(entries) -> {View(x) : x \in AnyEntry}]
      BY <2>1 DEF Shown
    <2> QED
      BY <1>1, <2>2
  <1>4. Started => log # << >>
    <2>1. CASE Started
      <3>1. Len(entries) # 0
        BY <1>1, <2>1 DEF Started
      <3>2. Len(<< >>) = 0
        OBVIOUS
      <3> QED
        BY <1>3, <3>1, <3>2
    <2> QED
      BY <2>1
  <1>5. \A e \in AnyEntry : View(e).event = e.event
    BY DEF View, IsWrite
  <1>6. \A e \in AnyEntry : e.event # "WRITE" => View(e) = [event |-> e.event]
    BY DEF View, IsWrite
  <1>7. \A i \in 1..Len(entries) : log[i].event = entries[i].event
    BY <1>2, <1>5
  <1>8. Log!Has("PLAY_START") <=> HasStart(entries)
    <2>1. Log!Has("PLAY_START") <=> HasStart(log)
      BY DEF Log!Has, HasStart, Shown, View
    <2> QED
      BY <1>3, <1>7, <2>1 DEF HasStart
  <1>9. ASSUME Open(entries) PROVE Open(log)
    <2>1. PICK i \in 1..Len(entries) :
            /\ entries[i].event = "PLAY_START"
            /\ \A j \in i..Len(entries) : entries[j].event # "PLAY_END"
      BY <1>9 DEF Open
    <2>2. log[i].event = "PLAY_START" /\ i \in 1..Len(log)
      BY <1>3, <1>7, <2>1
    <2>3. \A j \in i..Len(log) : log[j].event # "PLAY_END"
      <3>1. \A j \in i..Len(log) : j \in 1..Len(entries)
        BY <1>1, <1>3
      <3> QED
        BY <1>3, <1>7, <2>1, <3>1
    <2> HIDE DEF log
    <2> QED
      BY <2>2, <2>3 DEF Open
  <1> HIDE DEF log, next
  <1>10. CASE Quiet
    BY <1>10 DEF Quiet
  <1>11. CASE InitBegins
    <2>1. PICK e \in AnyEntry :
            e.event = "INIT_START" /\ entries = << >> /\ entries' = Append(entries, e)
      BY <1>11 DEF InitBegins
    <2>2. log = << >>
      BY <2>1 DEF log, Shown
    <2>3. next = Append(log, View(e)) /\ View(e) = [event |-> "INIT_START"]
      BY <1>1, <1>6, <2>1 DEF next
    <2>4. Append(<< >>, View(e)) = <<View(e)>>
      OBVIOUS
    <2>5. Log!LogInitStart
      BY <2>2, <2>3, <2>4, LogActions DEF log, next
    <2> QED
      BY <2>5 DEF Log!LogNext
  <1>12. CASE Writes
    <2>1. PICK e \in AnyEntry : e.event = "WRITE" /\ Started /\ entries' = Append(entries, e)
      BY <1>12 DEF Writes
    <2>2. /\ e.addr \in Addrs /\ e.data \in Data
          /\ View(e) = [event |-> "WRITE", off |-> e.addr, val |-> e.data]
      BY <2>1 DEF AnyEntry, View, IsWrite
    <2>3. log # << >> /\ next = Append(log, View(e))
      BY <1>1, <1>4, <2>1 DEF next
    <2>4. Log!LogWrite(e.addr, e.data)
      BY <2>2, <2>3, LogActions DEF log, next
    <2> QED
      BY <2>2, <2>4 DEF Log!LogNext
  <1>13. CASE PlayEnds
    <2>1. PICK e \in AnyEntry :
            e.event = "PLAY_END" /\ entries' = Append(entries, e) /\ saved_state = "init"
      BY <1>13 DEF PlayEnds
    <2>2. next = Append(log, View(e)) /\ View(e) = [event |-> "PLAY_END"]
      BY <1>1, <1>6, <2>1 DEF next
    <2>3. Open(log)
      BY <1>9, <2>1 DEF History
    <2>4. Log!LogPlayEnd
      BY <2>2, <2>3, LogActions DEF log, next
    <2> QED
      BY <2>4 DEF Log!LogNext
  <1>14. CASE FirstPlay
    <2>1. PICK a \in AnyEntry, b \in AnyEntry :
            /\ a.event = "INIT_END" /\ b.event = "PLAY_START" /\ Started
            /\ entries' = Append(Append(entries, a), b) /\ current_frame = 0
      BY <1>14 DEF FirstPlay
    <2>2. Shown(Append(Append(entries, a), b)) = Append(Shown(Append(entries, a)), View(b))
      BY <1>1, ShownAppend
    <2>3. next = Append(Append(log, View(a)), View(b))
      BY <1>1, <2>1, <2>2 DEF next
    <2>4. View(a) = [event |-> "INIT_END"] /\ View(b) = [event |-> "PLAY_START"]
      BY <1>6, <2>1
    <2>5. Append(Append(log, View(a)), View(b)) = log \o <<View(a)>> \o <<View(b)>>
      BY <1>3
    <2>6. ~Log!Has("PLAY_START") /\ log # << >>
      BY <1>4, <1>8, <2>1 DEF History
    <2>7. Log!LogPlayStart
      BY <2>3, <2>4, <2>5, <2>6, LogActions DEF log, next
    <2> QED
      BY <2>7 DEF Log!LogNext
  <1>15. CASE LaterPlay
    <2>1. PICK b \in AnyEntry :
            /\ b.event = "PLAY_START" /\ Started /\ entries' = Append(entries, b)
            /\ current_frame > 0
      BY <1>15 DEF LaterPlay
    <2>2. next = Append(log, View(b)) /\ View(b) = [event |-> "PLAY_START"]
      BY <1>1, <1>6, <2>1 DEF next
    <2>3. Append(log, View(b)) = log \o << >> \o <<View(b)>>
      BY <1>3
    <2>4. Log!Has("PLAY_START") /\ log # << >>
      BY <1>4, <1>8, <2>1 DEF History
    <2>5. Log!LogPlayStart
      BY <2>2, <2>3, <2>4, LogActions DEF log, next
    <2> QED
      BY <2>5 DEF Log!LogNext
  <1> QED
    BY <1>10, <1>11, <1>12, <1>13, <1>14, <1>15, StepShapes

\* The recording of any tune is a log the converter understands, whatever its
\* routines do: the recorder implements ApuLog.
THEOREM RecordsAnApuLog == Spec => LogIsWellFormed
  <1>1. Init => Log!LogInit
    <2>1. Init => Shown(entries) = << >>
      BY DEF Init, Shown
    <2> QED
      BY <2>1, LogActions
  <1>2. IInv /\ IInv' /\ History /\ [Next]_vars
          => [Log!LogNext]_([i \in 1..Len(entries) |->
                IF IsWrite(entries[i])
                THEN [event |-> "WRITE", off |-> entries[i].addr, val |-> entries[i].data]
                ELSE [event |-> entries[i].event]])
    BY StepIsLogStep DEF Shown, View
  <1>3. IInv /\ IInv' /\ History /\ [Next]_vars => History'
    BY NextHistory
  <1> QED
    BY <1>1, <1>2, <1>3, InitHistory, CaptureInvariant, PTL DEF Spec, LogIsWellFormed, Log!LogSpec

-----------------------------------------------------------------------------
(* The logger by itself, under any order of the calls made of it.          *)

Recorder == INSTANCE MCApuLogger
Kinds == {"INIT_START", "INIT_END", "PLAY_START", "PLAY_END"}

\* The starts of routines in a log before place i, and the last of some.
Starts(log, i) == {j \in 1..(i - 1) : log[j].event \in Begins}
IsLast(j, S) == j \in S /\ \A k \in S : k <= j

\* Where there is a start there is a last one, and its frame is what a write
\* at that place is filed under.
FiledAt(log, i) ==
  Starts(log, i) # {} =>
    \E j \in Starts(log, i) :
      IsLast(j, Starts(log, i)) /\ (log[i].event = "WRITE" => log[i].frame = FrameOf(log[j]))
Filed(log) == \A i \in 1..Len(log) : FiledAt(log, i)

\* The logger's own frame is that of the routine that started last.
FrameIs(log, frame) ==
  Starts(log, Len(log) + 1) # {} =>
    \E j \in Starts(log, Len(log) + 1) :
      IsLast(j, Starts(log, Len(log) + 1)) /\ frame = FrameOf(log[j])

Files == /\ entries \in Seq(AnyEntry) /\ current_frame \in Nat /\ frame_start_time \in Int
        /\ Filed(entries) /\ FrameIs(entries, current_frame)

LEMMA FilesGiveFrames == Files => WritesFiledUnderFrame
  <1> SUFFICES ASSUME Files, NEW i \in 1..Len(entries), entries[i].event = "WRITE",
                      Starts(entries, i) # {}
               PROVE  entries[i].frame =
                        FrameOf(entries[CHOOSE j \in Starts(entries, i) :
                                          \A k \in Starts(entries, i) : k <= j])
    BY DEF WritesFiledUnderFrame, Starts
  <1> DEFINE S == Starts(entries, i)
             m == CHOOSE n \in S : \A k \in S : k <= n
  <1>1. PICK j \in S : IsLast(j, S) /\ entries[i].frame = FrameOf(entries[j])
    BY DEF Files, Filed, FiledAt
  <1>2. S \subseteq Int
    BY DEF Starts
  <1>3. m \in S /\ \A k \in S : k <= m
    BY <1>1 DEF IsLast
  <1> HIDE DEF m, S
  <1>4. m = j
    BY <1>1, <1>2, <1>3 DEF IsLast
  <1> QED
    BY <1>1, <1>4 DEF m, S

\* One more entry: the places before it keep their starts.
LEMMA OneMore ==
  ASSUME NEW log \in Seq(AnyEntry), NEW frame \in Nat, NEW e \in AnyEntry, NEW next,
         Filed(log), FrameIs(log, frame), next = Append(log, e),
         e.event = "WRITE" => e.frame = frame
  PROVE  /\ next \in Seq(AnyEntry) /\ Filed(next)
         /\ FrameIs(next, IF e.event \in Begins THEN FrameOf(e) ELSE frame)
  <1>1. PICK n \in Nat : n = Len(log)
    OBVIOUS
  <1>2. /\ Len(next) = n + 1 /\ next \in Seq(AnyEntry) /\ next[n + 1] = e
        /\ \A j \in 1..n : next[j] = log[j]
    BY <1>1
  <1>3. ASSUME NEW i \in 1..(n + 1) PROVE Starts(next, i) = Starts(log, i)
    <2>1. \A j \in 1..(i - 1) : j \in 1..n
      OBVIOUS
    <2> QED
      BY <1>2, <2>1 DEF Starts
  <1>4. \A i \in 1..(n + 1) : Starts(log, i) \subseteq 1..n
    BY DEF Starts
  <1>5. ASSUME NEW i \in 1..n PROVE FiledAt(next, i)
    <2>1. FiledAt(log, i) /\ next[i] = log[i] /\ i \in 1..(n + 1)
      BY <1>1, <1>2 DEF Filed
    <2>2. Starts(next, i) = Starts(log, i) /\ \A j \in Starts(log, i) : next[j] = log[j]
      BY <1>2, <1>3, <1>4, <2>1
    <2> QED
      BY <2>1, <2>2 DEF FiledAt
  <1>6. Starts(next, n + 1) = Starts(log, n + 1)
        /\ \A j \in Starts(log, n + 1) : next[j] = log[j]
    <2>1. n + 1 \in 1..(n + 1)
      OBVIOUS
    <2> QED
      BY <1>2, <1>3, <1>4, <2>1
  <1>7. FiledAt(next, n + 1)
    BY <1>1, <1>2, <1>6 DEF FiledAt, FrameIs
  <1>8. Filed(next)
    <2>1. \A i \in 1..Len(next) : i \in 1..n \/ i = n + 1
      BY <1>2
    <2> QED
      BY <1>5, <1>7, <2>1 DEF Filed
  <1>9. CASE e.event \notin Begins
    <2>1. Starts(next, n + 2) = Starts(next, n + 1)
      <3>1. \A j : j \in 1..(n + 1) <=> j \in 1..n \/ j = n + 1
        OBVIOUS
      <3> QED
        BY <1>2, <1>9, <3>1 DEF Starts
    <2>2. Len(next) + 1 = n + 2
      BY <1>2
    <2> QED
      BY <1>1, <1>2, <1>6, <1>8, <1>9, <2>1, <2>2 DEF FrameIs
  <1>10. CASE e.event \in Begins
    <2>1. n + 1 \in Starts(next, n + 2) /\ \A k \in Starts(next, n + 2) : k <= n + 1
      BY <1>2, <1>10 DEF Starts
    <2>2. Len(next) + 1 = n + 2
      BY <1>2
    <2> QED
      BY <1>2, <1>8, <1>10, <2>1, <2>2 DEF FrameIs, IsLast
  <1> QED
    BY <1>9, <1>10

-----------------------------------------------------------------------------
\* A logger that was not configured has filed nothing.
LEMMA InitFiles == Recorder!LoggerInit => Files
  <1>1. Starts(<< >>, 1) = {} /\ Len(<< >>) = 0
    BY DEF Starts
  <1> QED
    BY <1>1 DEF Recorder!LoggerInit, Files, Filed, FrameIs

\* The calls that log: nothing, or one entry with the frame it belongs to.
LEMMA LogFiles ==
  ASSUME Files, Recorder!Log PROVE Files'
  <1>1. SUFFICES
          \/ entries' = entries /\ current_frame' = current_frame
          \/ \E e \in AnyEntry :
               /\ entries' = Append(entries, e) /\ (e.event = "WRITE" => e.frame = current_frame)
               /\ current_frame' = IF e.event \in Begins THEN FrameOf(e) ELSE current_frame
    <2>1. frame_start_time' \in Int
      BY DEF Files, Recorder!Log, Recorder!LogWrite, Recorder!StartInit, Recorder!LogInitEnd,
             Recorder!LogPlayStart, Recorder!LogPlayEnd, Recorder!Times,
             Recorder!ResetFrameStartTime
    <2>2. CASE entries' = entries /\ current_frame' = current_frame
      BY <2>1, <2>2 DEF Files
    <2>3. CASE \E e \in AnyEntry :
               /\ entries' = Append(entries, e) /\ (e.event = "WRITE" => e.frame = current_frame)
               /\ current_frame' = IF e.event \in Begins THEN FrameOf(e) ELSE current_frame
      <3>1. PICK e \in AnyEntry :
               /\ entries' = Append(entries, e) /\ (e.event = "WRITE" => e.frame = current_frame)
               /\ current_frame' = IF e.event \in Begins THEN FrameOf(e) ELSE current_frame
        BY <2>3
      <3>2. current_frame' \in Nat
        BY <3>1 DEF Files, AnyEntry, FrameOf
      <3>3. entries' \in Seq(AnyEntry) /\ Filed(entries') /\ FrameIs(entries', current_frame')
        BY <3>1, OneMore DEF Files
      <3>4. Filed(entries)' /\ FrameIs(entries, current_frame)'
        BY <3>3 DEF Filed, FiledAt, FrameIs, Starts
      <3> QED
        BY <2>1, <3>2, <3>3, <3>4 DEF Files
    <2> QED
      BY <1>1, <2>2, <2>3
  <1>2. CASE \E t \in Recorder!Times, a \in Addrs, d \in Data : Recorder!LogWrite(t, a, d)
    <2>1. PICK t \in Recorder!Times, a \in Addrs, d \in Data : Recorder!LogWrite(t, a, d)
      BY <1>2
    <2> DEFINE e == Recorder!WriteEntry(Recorder!Since(t), a, d)
    <2>2. e \in AnyEntry /\ e.event = "WRITE" /\ e.frame = current_frame
      BY DEF Recorder!WriteEntry, Recorder!Since, Recorder!Times, AnyEntry, Files
    <2>3. (entries' = entries \/ entries' = Append(entries, e)) /\ current_frame' = current_frame
      BY <2>1 DEF Recorder!LogWrite, Recorder!WithWrite
    <2> HIDE DEF e
    <2> QED
      BY <2>2, <2>3 DEF Begins
  <1>3. ASSUME NEW kind \in Kinds, NEW t \in Int, NEW f \in Nat
        PROVE  /\ Recorder!MarkerEntry(kind, t, f) \in AnyEntry
               /\ Recorder!MarkerEntry(kind, t, f).event = kind
               /\ Recorder!MarkerEntry(kind, t, f).frame = f
    BY DEF Recorder!MarkerEntry, AnyEntry, Kinds
  <1>4. ASSUME NEW t \in Recorder!Times, Recorder!LogInitEnd(t) \/ Recorder!LogPlayEnd(t, current_frame)
        PROVE  /\ current_frame' = current_frame
               /\ \/ entries' = entries
                  \/ \E kind \in Kinds \ Begins, u \in Int :
                       entries' = Append(entries, Recorder!MarkerEntry(kind, u, current_frame))
    BY <1>4 DEF Recorder!LogInitEnd, Recorder!LogPlayEnd, Kinds, Begins, Recorder!Times, Files
  <1>5. CASE \E t \in Recorder!Times : \/ Recorder!LogInitEnd(t)
                                        \/ Recorder!LogPlayEnd(t, current_frame)
    <2>1. CASE entries' = entries /\ current_frame' = current_frame
      BY <2>1
    <2>2. ASSUME NEW kind \in Kinds \ Begins, NEW u \in Int,
                 entries' = Append(entries, Recorder!MarkerEntry(kind, u, current_frame)),
                 current_frame' = current_frame
          PROVE  \/ entries' = entries /\ current_frame' = current_frame
                 \/ \E e \in AnyEntry :
                      /\ entries' = Append(entries, e)
                      /\ e.event = "WRITE" => e.frame = current_frame
                      /\ current_frame' = IF e.event \in Begins THEN FrameOf(e) ELSE current_frame
      <3> DEFINE e == Recorder!MarkerEntry(kind, u, current_frame)
      <3>1. e \in AnyEntry /\ e.event = kind /\ e.frame = current_frame
        BY <1>3 DEF Files
      <3> HIDE DEF e
      <3> QED
        BY <2>2, <3>1 DEF e
    <2> QED
      BY <1>4, <1>5, <2>1, <2>2
  <1>6. CASE \E t \in Recorder!Times : Recorder!LogPlayStart(t, current_frame + 1)
    <2>1. PICK t \in Recorder!Times : Recorder!LogPlayStart(t, current_frame + 1)
      BY <1>6
    <2> DEFINE e == Recorder!MarkerEntry("PLAY_START", 0, current_frame + 1)
    <2>2. e \in AnyEntry /\ e.event = "PLAY_START" /\ e.frame = current_frame + 1
      BY <1>3 DEF Kinds, Files
    <2>3. \/ entries' = entries /\ current_frame' = current_frame
          \/ entries' = Append(entries, e) /\ current_frame' = current_frame + 1
      BY <2>1 DEF Recorder!LogPlayStart
    <2> HIDE DEF e
    <2> QED
      BY <2>2, <2>3 DEF Begins, FrameOf
  <1>7. CASE \E t \in Recorder!Times : Recorder!StartInit(t)
    <2>1. PICK t \in Recorder!Times : Recorder!StartInit(t)
      BY <1>7
    <2> DEFINE e == Recorder!MarkerEntry("INIT_START", 0, 0)
    <2>2. e \in AnyEntry /\ e.event = "INIT_START"
      BY <1>3 DEF Kinds
    <2>3. \/ entries' = entries /\ current_frame' = current_frame
          \/ entries' = Append(entries, e) /\ current_frame' = 0
      BY <2>1 DEF Recorder!StartInit
    <2> HIDE DEF e
    <2> QED
      BY <2>2, <2>3 DEF Begins, FrameOf
  <1>8. CASE Recorder!ResetFrameStartTime
    BY <1>8 DEF Recorder!ResetFrameStartTime
  <1> QED
    BY <1>2, <1>5, <1>6, <1>7, <1>8 DEF Recorder!Log

LEMMA ConfigureFiles ==
  ASSUME Files, Recorder!Configure PROVE Files'
  <1>1. CASE Recorder!Clear
    <2>1. entries' = << >> /\ current_frame' = 0 /\ frame_start_time' = 0
      BY <1>1 DEF Recorder!Clear
    <2>2. Starts(<< >>, 1) = {} /\ Len(<< >>) = 0
      BY DEF Starts
    <2> QED
      BY <2>1, <2>2 DEF Files, Filed, FrameIs
  <1>2. CASE UNCHANGED <<entries, current_frame, frame_start_time>>
    BY <1>2 DEF Files
  <1> QED
    BY <1>1, <1>2 DEF Recorder!Configure, Recorder!SetEnabled, Recorder!SetMemoryLimit

\* A write is filed under the frame of the routine that started last before it in
\* the log, for any number of tracks and frames and any length of the log, whenever
\* the logger is turned off, cleared or full.
THEOREM FramesAreFiled == Recorder!RecordingSpec => []WritesFiledUnderFrame
  <1>1. Files /\ [Recorder!Recording]_(Recorder!loggerVars) => Files'
    <2>1. Files /\ UNCHANGED Recorder!loggerVars => Files'
      BY DEF Recorder!loggerVars, Recorder!logger, Files
    <2> QED
      BY <2>1, LogFiles, ConfigureFiles DEF Recorder!Recording
  <1> QED
    BY <1>1, InitFiles, FilesGiveFrames, PTL DEF Recorder!RecordingSpec
=============================================================================
