----------------------------- MODULE FmsqConvert -----------------------------
(***************************************************************************)
(* The converter nsf2fmsq/src/nsf2fmsq.cpp and the file writer             *)
(* fmsq_writer.cpp: a recorded APU log becomes an FMSQ command stream of   *)
(* REG_WRITEs separated by WAITs, and the stream becomes a file.           *)
(*                                                                         *)
(* The recording comes first (phase "record"); then INIT's writes, one     *)
(* step per PLAY frame, the trailing WAIT and END, and the file.           *)
(***************************************************************************)
EXTENDS ApuLog, FmsqFormat, FiniteSets

CONSTANTS MaxWaitFrames,  \* FMSQ_MAX_WAIT_FRAMES: 128 in the code
          FieldMod,       \* header fields are modulo this: 2^16 in the code
          MaxPlays, MaxWrites   \* bounds on one recording

ASSUME ConvertAssumption ==
  /\ Offsets \subseteq 0..23 /\ Values \subseteq Byte
  /\ MaxWaitFrames \in 1..128
  /\ FieldMod \in Nat \ {0}
  /\ MaxPlays \in Nat /\ MaxWrites \in Nat

VARIABLES
  phase,          \* "record", "frames", "write", "done"
  frame,          \* position in log of the PLAY_START of the next frame, 0 at the end
  pending_wait,
  frame_count,    \* result.frame_count, a uint16_t
  stream,         \* result.data
  disk            \* the output file, NoFile before it is written

convVars == <<log, phase, frame, pending_wait, frame_count, stream, disk>>

NoFile == [header |-> "none"]

HeaderSize == 12

-----------------------------------------------------------------------------
IsApuWrite(e) == e.event = "WRITE" /\ e.off \in 0..23
IsPlayStart(e) == e.event = "PLAY_START"

\* The least position after i with an event of the kind; 0 when there is none.
NextAt(i, kind) ==
  LET at == {j \in (i + 1)..Len(log) : log[j].event = kind}
  IN  IF at = {} THEN 0 ELSE CHOOSE j \in at : \A k \in at : j <= k

\* emit_frame_reg_writes: the APU writes among the entries at some positions of the
\* log, in the order of the log, and the two bytes each of them becomes.
WritesAt(at) ==
  LET upTo[i \in 0..Len(log)] ==
        IF i = 0 THEN << >>
        ELSE IF i \in at /\ IsApuWrite(log[i])
             THEN Append(upTo[i - 1], <<log[i].off, log[i].val>>)
             ELSE upTo[i - 1]
  IN  upTo[Len(log)]

RegWrites(ws) ==
  [k \in 1..2 * Len(ws) |-> IF k % 2 = 1 THEN RegWrite(ws[(k + 1) \div 2][1])
                                         ELSE ws[k \div 2][2]]

\* Mutant: only whole runs of MaxWaitFrames are written.
WholeWaits(n) == [k \in 1..(n \div MaxWaitFrames) |-> MakeWait(MaxWaitFrames)]

\* emit_wait: n frames as WAITs of at most MaxWaitFrames each.
Waits(n) ==
  [k \in 1..((n + MaxWaitFrames - 1) \div MaxWaitFrames) |->
     MakeWait(IF k * MaxWaitFrames <= n THEN MaxWaitFrames ELSE n % MaxWaitFrames)]

\* Where the entries of the frame are whose PLAY_START is at position i.
FrameEnd(i)     == IF NextAt(i, "PLAY_START") = 0 THEN Len(log)
                   ELSE NextAt(i, "PLAY_START") - 1
FrameEntries(i) == (i + 1)..FrameEnd(i)

\* Position of the first INIT_END; without one, no entry counts as INIT's.
InitEnd     == NextAt(0, "INIT_END")
InitEntries == 1..(InitEnd - 1)

-----------------------------------------------------------------------------
ConvInit ==
  /\ LogInit
  /\ phase = "record" /\ frame = 0
  /\ pending_wait = 0 /\ frame_count = 0
  /\ stream = << >> /\ disk = NoFile

\* The emulation runs and the log grows, within the bounds of a recording.
Record ==
  /\ phase = "record"
  /\ LogNext
  /\ Cardinality({i \in 1..Len(log') : IsPlayStart(log'[i])}) <= MaxPlays
  /\ Cardinality({i \in 1..Len(log') : IsApuWrite(log'[i])}) <= MaxWrites
  /\ UNCHANGED <<phase, frame, pending_wait, frame_count, stream, disk>>

\* The recording ends (duration reached, or gme_play failed); INIT is emitted.
EmitInit ==
  /\ phase = "record" /\ log # << >>
  /\ phase' = "frames"
  /\ stream' = RegWrites(WritesAt(InitEntries))
  /\ frame' = NextAt(IF InitEnd = 0 THEN 0 ELSE InitEnd - 1, "PLAY_START")
  /\ UNCHANGED <<log, pending_wait, frame_count, disk>>

\* Mutant: the writes come before the WAIT that precedes them.
EmitFrameWaitLast ==
  LET ws == WritesAt(FrameEntries(frame))
  IN  /\ phase = "frames" /\ frame # 0
      /\ IF ws # << >>
           THEN /\ stream' = stream \o RegWrites(ws) \o Waits(pending_wait)
                /\ pending_wait' = 1
           ELSE /\ pending_wait' = pending_wait + 1
                /\ UNCHANGED stream
      /\ frame_count' = (frame_count + 1) % FieldMod
      /\ frame' = NextAt(frame, "PLAY_START")
      /\ UNCHANGED <<log, phase, disk>>

\* Mutant: a frame without writes is not counted.
EmitFrameUncounted ==
  LET ws == WritesAt(FrameEntries(frame))
  IN  /\ phase = "frames" /\ frame # 0
      /\ IF ws # << >>
           THEN /\ stream' = stream \o Waits(pending_wait) \o RegWrites(ws)
                /\ pending_wait' = 1
                /\ frame_count' = (frame_count + 1) % FieldMod
           ELSE /\ pending_wait' = pending_wait + 1
                /\ UNCHANGED <<stream, frame_count>>
      /\ frame' = NextAt(frame, "PLAY_START")
      /\ UNCHANGED <<log, phase, disk>>

\* One frame of the log: a frame without writes only lengthens the WAIT.
EmitFrame ==
  LET ws == WritesAt(FrameEntries(frame))
  IN  /\ phase = "frames" /\ frame # 0
      /\ IF ws # << >>
           THEN /\ stream' = stream \o Waits(pending_wait) \o RegWrites(ws)
                /\ pending_wait' = 1
           ELSE /\ pending_wait' = pending_wait + 1
                /\ UNCHANGED stream
      /\ frame_count' = (frame_count + 1) % FieldMod
      /\ frame' = NextAt(frame, "PLAY_START")
      /\ UNCHANGED <<log, phase, disk>>

EmitEnd ==
  /\ phase = "frames" /\ frame = 0
  /\ phase' = "write"
  /\ stream' = stream \o Waits(pending_wait) \o <<CmdEnd>>
  /\ UNCHANGED <<log, frame, pending_wait, frame_count, disk>>

\* The first n bytes of the file fmsq_write_file makes.
FilePrefix(n) ==
  [header      |-> IF n < HeaderSize THEN "short" ELSE "ok",
   frame_count |-> frame_count,
   data_size   |-> Len(stream) % FieldMod,
   body        |-> SubSeq(stream, 1, n - HeaderSize)]

\* fmsq_write_file: fopen fails, or the file ends up whole or cut short by a full
\* disk, which fclose, whose result is ignored, may be the first to notice.
WriteFile ==
  /\ phase = "write"
  /\ phase' = "done"
  /\ \/ disk' = NoFile
     \/ \E n \in 0..(HeaderSize + Len(stream)) : disk' = FilePrefix(n)
  /\ UNCHANGED <<log, frame, pending_wait, frame_count, stream>>

ConvNext == Record \/ EmitInit \/ EmitFrame \/ EmitEnd \/ WriteFile

ConvSpec == ConvInit /\ [][ConvNext]_convVars

-----------------------------------------------------------------------------
=============================================================================
