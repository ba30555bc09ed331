----------------------------- MODULE FmsqPlayer -----------------------------
(***************************************************************************)
(* The FMSQ player of sdl2_simple_player/fmsq_player.c: load, free, reset  *)
(* and the tick that interprets commands until a WAIT or the end.          *)
(*                                                                         *)
(* A tick that has commands to run is several steps: Tick enters it, one   *)
(* step per command follows, and a WAIT, the end of the stream or a        *)
(* command cut off by the end of the data leaves it.  The APU is external; *)
(* a step's register writes are in `out`, as <<offset from $4000, value>>. *)
(***************************************************************************)
EXTENDS FmsqFormat

CONSTANTS Files,       \* the files that load may be given
          MaxFrames    \* bound on the frames played after one load or reset

ASSUME FilesAssumption ==
  \A f \in Files : /\ f.header \in {"ok", "short", "magic", "version"}
                   /\ f.frame_count \in Nat
                   /\ f.data_size \in Nat
                   /\ f.body \in Seq(Byte)

ASSUME MaxFramesAssumption == MaxFrames \in Nat

VARIABLES
  hasData,        \* player->data != NULL
  data,           \* the command bytes; data_size is their number
  frame_count,    \* the header's frame count
  pc, wait_frames, playing, looped, frames_played,
  status,         \* the static shadow of $4015 inside fmsq_player_tick
  inTick,         \* inside the command loop of a tick
  ret,            \* what the last tick returned
  apuStatus,      \* the value last written to $4015
  out             \* the register writes of the last step, in order

file   == <<hasData, data, frame_count>>
cursor == <<pc, wait_frames, playing, looped, frames_played>>
vars   == <<file, cursor, status, inTick, ret, apuStatus, out>>

data_size == Len(data)

TypeOK ==
  /\ hasData \in BOOLEAN /\ data \in Seq(Byte) /\ frame_count \in Nat
  /\ pc \in 0..data_size /\ wait_frames \in 0..127 /\ frames_played \in 0..MaxFrames
  /\ playing \in BOOLEAN /\ looped \in BOOLEAN
  /\ status \in Byte /\ apuStatus \in Byte
  /\ inTick \in BOOLEAN /\ ret \in BOOLEAN
  /\ out \in Seq((0..31) \X Byte)

Init ==
  /\ hasData = FALSE /\ data = << >> /\ frame_count = 0
  /\ pc = 0 /\ wait_frames = 0 /\ frames_played = 0
  /\ playing = FALSE /\ looped = FALSE
  /\ status = 15 /\ apuStatus = 15
  /\ inTick = FALSE /\ ret = FALSE /\ out = << >>

-----------------------------------------------------------------------------
\* The register writes of one step; the last one to $4015 is what the APU holds.
Writes(ws) ==
  /\ out' = ws
  /\ LET at15 == {i \in 1..Len(ws) : ws[i][1] = ApuStatus}
     IN  apuStatus' = IF at15 = {} THEN apuStatus
                      ELSE ws[CHOOSE i \in at15 : \A j \in at15 : j <= i][2]

Rewind == /\ pc' = 0 /\ wait_frames' = 0 /\ frames_played' = 0 /\ looped' = FALSE

\* Mutant: the result of fread is not compared with data_size.
LoadWhatIsThere(f) ==
  /\ ~inTick
  /\ f.header = "ok"
  /\ hasData' = TRUE
  /\ data' = f.body
  /\ frame_count' = f.frame_count
  /\ Rewind /\ playing' = TRUE
  /\ UNCHANGED <<status, inTick, ret>> /\ Writes(<< >>)

\* fmsq_player_load accepts a file: the first data_size bytes of its body.
LoadOk(f) ==
  /\ ~inTick
  /\ f.header = "ok" /\ f.data_size <= Len(f.body)
  /\ hasData' = TRUE
  /\ data' = SubSeq(f.body, 1, f.data_size)
  /\ frame_count' = f.frame_count
  /\ Rewind /\ playing' = TRUE
  /\ UNCHANGED <<status, inTick, ret>> /\ Writes(<< >>)

\* fmsq_player_load fails: it has already cleared the whole player by then.
\* A good file fails as well when malloc has no memory for it.
LoadFails(f) ==
  /\ ~inTick
  /\ hasData' = FALSE /\ data' = << >>
  /\ frame_count' = IF f.header = "ok" THEN f.frame_count ELSE 0
  /\ Rewind /\ playing' = FALSE
  /\ UNCHANGED <<status, inTick, ret>> /\ Writes(<< >>)

\* fmsq_player_free keeps pc and data_size: only playing guards their use.
Free ==
  /\ ~inTick
  /\ hasData' = FALSE /\ playing' = FALSE
  /\ UNCHANGED <<data, frame_count, pc, wait_frames, looped, frames_played>>
  /\ UNCHANGED <<status, inTick, ret>> /\ Writes(<< >>)

\* Mutant: a player without data is set playing.
ResetAlways ==
  /\ ~inTick
  /\ Rewind /\ playing' = TRUE
  /\ UNCHANGED <<file, status, inTick, ret>>
  /\ Writes(<< <<ApuStatus, 15>> >>)

\* fmsq_player_reset rewinds and enables the four channels in the APU.
Reset ==
  /\ ~inTick
  /\ Rewind /\ playing' = hasData
  /\ UNCHANGED <<file, status, inTick, ret>>
  /\ Writes(<< <<ApuStatus, 15>> >>)

-----------------------------------------------------------------------------
\* fmsq_player_tick up to its command loop.
TickStopped ==
  /\ ~inTick /\ ~playing
  /\ ret' = FALSE
  /\ UNCHANGED <<file, cursor, status, inTick>> /\ Writes(<< >>)

TickWaiting ==
  /\ ~inTick /\ playing /\ wait_frames > 0 /\ frames_played < MaxFrames
  /\ wait_frames' = wait_frames - 1
  /\ frames_played' = frames_played + 1
  /\ ret' = TRUE
  /\ UNCHANGED <<file, pc, playing, looped, status, inTick>> /\ Writes(<< >>)

TickCommands ==
  /\ ~inTick /\ playing /\ wait_frames = 0 /\ frames_played < MaxFrames
  /\ inTick' = TRUE
  /\ UNCHANGED <<file, cursor, status, ret>> /\ Writes(<< >>)

Tick == TickStopped \/ TickWaiting \/ TickCommands

\* read_byte: past the end of the data every byte reads as END and the player
\* stops.  Arg(0) is the command at pc, Arg(i) its i-th operand.
Arg(i) == IF pc + i < data_size THEN data[pc + i + 1] ELSE CmdEnd
Cmd == Arg(0)

\* The loop is at the head of a command.
Fetch == inTick /\ playing

\* Mutant: the operands are consumed and the command is not.
ConsumeOperands(n) ==
  /\ pc' = IF pc + n < data_size THEN pc + n ELSE data_size
  /\ playing' = (pc + n < data_size)

\* Consume the command and n operands.
Consume(n) ==
  /\ pc' = IF pc + n < data_size THEN pc + n + 1 ELSE data_size
  /\ playing' = (pc + n < data_size)

Return(b) == inTick' = FALSE /\ ret' = b
Continue  == UNCHANGED <<inTick, ret>>
SamePace  == UNCHANGED <<wait_frames, frames_played>>

DoWait ==
  /\ Fetch /\ IsWait(Cmd)
  /\ Consume(0)
  /\ wait_frames' = WaitFrames(Cmd) - 1
  /\ frames_played' = frames_played + 1
  /\ Return(TRUE)
  /\ UNCHANGED <<file, looped, status>> /\ Writes(<< >>)

\* Mutant: the tick ends and the player goes on playing.
EndKeepsPlaying ==
  /\ Fetch /\ Cmd = CmdEnd
  /\ pc' = IF pc < data_size THEN pc + 1 ELSE pc
  /\ Return(FALSE)
  /\ UNCHANGED <<file, playing, looped, status>> /\ SamePace /\ Writes(<< >>)

DoEnd ==
  /\ Fetch /\ Cmd = CmdEnd
  /\ pc' = IF pc < data_size THEN pc + 1 ELSE pc
  /\ playing' = FALSE
  /\ Return(FALSE)
  /\ UNCHANGED <<file, looped, status>> /\ SamePace /\ Writes(<< >>)

\* Mutant: the offset of a LOOP is not compared with data_size.
LoopUnchecked ==
  /\ Fetch /\ Cmd = CmdLoop
  /\ pc' = Arg(1) + 256 * Arg(2) /\ looped' = TRUE
  /\ playing' = (pc + 2 < data_size)
  /\ Continue
  /\ UNCHANGED <<file, status>> /\ SamePace /\ Writes(<< >>)

\* A LOOP cut off by the end of the data has cleared playing in read_byte and
\* may still move pc; the loop then ends at its condition.
DoLoop ==
  LET offset == Arg(1) + 256 * Arg(2)
  IN  /\ Fetch /\ Cmd = CmdLoop
      /\ IF offset < data_size
           THEN /\ pc' = offset /\ looped' = TRUE
                /\ playing' = (pc + 2 < data_size)
                /\ Continue
           ELSE /\ pc' = IF pc + 2 < data_size THEN pc + 3 ELSE data_size
                /\ playing' = FALSE /\ UNCHANGED looped
                /\ Return(FALSE)
      /\ UNCHANGED <<file, status>> /\ SamePace /\ Writes(<< >>)

\* A command that writes registers and stays in the loop.
Command(n, ws) ==
  /\ Consume(n) /\ Writes(ws)
  /\ Continue /\ SamePace /\ UNCHANGED <<file, looped>>

SetBit(v, b)   == IF Bit(v, b) THEN v ELSE v + b
ClearBit(v, b) == IF Bit(v, b) THEN v - b ELSE v

DoDpcmPlay ==
  /\ Fetch /\ Cmd = CmdDpcmPlay
  /\ status' = SetBit(status, 16)
  /\ Command(3, << <<DmcFreq, Arg(1)>>, <<DmcStart, Arg(2)>>, <<DmcLen, Arg(3)>>,
                   <<ApuStatus, status'>> >>)

DoDpcmStop ==
  /\ Fetch /\ Cmd = CmdDpcmStop
  /\ status' = ClearBit(status, 16)
  /\ Command(0, << <<ApuStatus, status'>> >>)

DoDpcmRaw ==
  /\ Fetch /\ Cmd = CmdDpcmRaw
  /\ Command(1, << <<DmcRaw, Arg(1)>> >>) /\ UNCHANGED status

DoRegWrite ==
  /\ Fetch /\ IsRegWrite(Cmd)
  /\ Command(1, << <<RegOffset(Cmd), Arg(1)>> >>) /\ UNCHANGED status

\* Every byte the tests above let through: 0x80-0xBF and 0xE3-0xFD.
IsChannel(cmd) == /\ ~IsWait(cmd) /\ ~IsRegWrite(cmd)
                  /\ cmd \notin {CmdEnd, CmdLoop, CmdDpcmPlay, CmdDpcmStop, CmdDpcmRaw}

ChannelBit == <<1, 2, 4, 8>>[ChannelOf(Cmd) + 1]

DoNoteOn ==
  LET ws == NoteOnWrites[ChannelOf(Cmd)]
  IN  /\ Fetch /\ IsChannel(Cmd) /\ SubOf(Cmd) = 0
      /\ status' = SetBit(status, ChannelBit)
      /\ Command(Len(ws), << <<ApuStatus, status'>> >>
                          \o [i \in 1..Len(ws) |-> <<ws[i][1], Arg(ws[i][2])>>])

DoNoteOff ==
  /\ Fetch /\ IsChannel(Cmd) /\ SubOf(Cmd) = 1
  /\ status' = ClearBit(status, ChannelBit)
  /\ Command(0, << <<ApuStatus, status'>> >>)

DoParam ==
  LET regs == ParamRegs(ChannelOf(Cmd), Arg(1))
  IN  /\ Fetch /\ IsChannel(Cmd) /\ SubOf(Cmd) = 2
      /\ Command(1 + Len(regs), [i \in 1..Len(regs) |-> <<regs[i], Arg(1 + i)>>])
      /\ UNCHANGED status

\* Mutant: a reserved byte is looked at and not consumed.
UnknownStays ==
  /\ Fetch /\ IsChannel(Cmd) /\ SubOf(Cmd) > 2
  /\ UNCHANGED <<pc, playing, inTick, ret, file, looped, status>> /\ SamePace
  /\ Writes(<< >>)

DoUnknown ==
  /\ Fetch /\ IsChannel(Cmd) /\ SubOf(Cmd) > 2
  /\ Command(0, << >>) /\ UNCHANGED status

\* The while condition fails after a command cut off by the end of the data.
CutOff ==
  /\ inTick /\ ~playing
  /\ Return(playing)
  /\ UNCHANGED <<file, cursor, status>> /\ Writes(<< >>)

InTick == \/ DoWait \/ DoEnd \/ DoLoop \/ DoRegWrite
          \/ DoDpcmPlay \/ DoDpcmStop \/ DoDpcmRaw
          \/ DoNoteOn \/ DoNoteOff \/ DoParam \/ DoUnknown \/ CutOff

Next == \/ \E f \in Files : LoadOk(f) \/ LoadFails(f)
        \/ Free \/ Reset \/ Tick \/ InTick

Spec == Init /\ [][Next]_vars

\* A call of fmsq_player_tick runs until it returns.
FairSpec == Spec /\ WF_vars(InTick)

-----------------------------------------------------------------------------
\* A player that is playing has its data: no order of load, free and reset
\* makes fmsq_player_tick read the buffer that fmsq_player_free released.
PlayingHasData == playing => hasData

\* fmsq_player_tick returns true exactly when it has counted one frame and the
\* player goes on playing; a false leaves the player stopped.
TickVerdict ==
  [][(inTick /\ ~inTick') \/ TickStopped \/ TickWaiting
       => /\ ret' <=> playing'
          /\ frames_played' = frames_played + (IF ret' THEN 1 ELSE 0)]_vars

\* Inside a tick every command moves pc forward, the LOOP excepted: the loop of
\* fmsq_player_tick cannot stand still on a byte, not even a reserved or a
\* cut-off one.
TickProgress ==
  [][inTick /\ inTick' => pc' > pc \/ (Cmd = CmdLoop /\ looped')]_vars

\* A tick over a stream without a LOOP byte returns, whatever the stream holds.
TickReturns ==
  (inTick /\ \A i \in 1..Len(data) : data[i] # CmdLoop) ~> ~inTick

=============================================================================
