---------------------------- MODULE FmsqPipeline ----------------------------
(***************************************************************************)
(* The tool chain from recording to replay: nsf2fmsq converts the APU log  *)
(* of an NSF emulation into an FMSQ file, and the SDL2 player loads that   *)
(* file and ticks it until it ends (sdl2_simple_player/main.c).            *)
(***************************************************************************)
EXTENDS FmsqConvert

VARIABLES hasData, data, fileFrames, pc, wait_frames, playing, looped,
          frames_played, status, inTick, ret, apuStatus, out,   \* FmsqPlayer's
          stage,   \* "convert", "loaded", "playing", "ended": the two programs
          heard,   \* the register writes of each finished tick
          now      \* those of the tick in progress

Player == INSTANCE FmsqPlayer WITH Files <- {}, MaxFrames <- MaxPlays + 1,
                                   frame_count <- fileFrames

playerVars == <<hasData, data, fileFrames, pc, wait_frames, playing, looped,
                frames_played, status, inTick, ret, apuStatus, out>>
vars == <<convVars, playerVars, stage, heard, now>>

Init == /\ ConvInit /\ Player!Init
        /\ stage = "convert" /\ heard = << >> /\ now = << >>

Convert == /\ stage = "convert" /\ ConvNext
           /\ UNCHANGED <<playerVars, stage, heard, now>>

\* main: load the file, give up when that fails.
Load ==
  /\ stage = "convert" /\ phase = "done"
  /\ \/ /\ disk # NoFile /\ Player!LoadOk(disk)
        /\ stage' = "loaded"
     \/ /\ disk # NoFile /\ Player!LoadFails(disk)
        /\ stage' = "ended"
     \/ /\ disk = NoFile /\ Player!LoadFails([header |-> "short"])
        /\ stage' = "ended"
  /\ UNCHANGED <<convVars, heard, now>>

Reset == /\ stage = "loaded" /\ Player!Reset
         /\ stage' = "playing"
         /\ UNCHANGED <<convVars, heard, now>>

\* One step of a tick.  The main loop ticks while the player plays; a tick that
\* returns true closes a frame.
Tick ==
  /\ stage = "playing"
  /\ Player!Tick \/ Player!InTick
  /\ LET closes == ~inTick' /\ ret'
     IN  /\ heard' = IF closes THEN Append(heard, now \o out') ELSE heard
         /\ now' = IF closes THEN << >> ELSE now \o out'
  /\ stage' = IF ~inTick' /\ ~playing' THEN "ended" ELSE stage
  /\ UNCHANGED convVars

Next == Convert \/ Load \/ Reset \/ Tick

\* The main loop of the player calls tick until the player stops.
Spec == Init /\ [][Next]_vars /\ WF_vars(Load \/ Reset \/ Tick)

-----------------------------------------------------------------------------
\* The promise, written from the log alone: a write belongs to the last PLAY
\* call started before it, and INIT's writes go with the first one.
PlaysUpTo(i) == Cardinality({j \in 1..i : IsPlayStart(log[j])})
FrameOf(i)   == IF PlaysUpTo(i) = 0 THEN 1 ELSE PlaysUpTo(i)

WritesOfFrame(k) == WritesAt({i \in 1..Len(log) : FrameOf(i) = k})

Schedule == IF phase = "record" THEN << >>
            ELSE [k \in 1..PlaysUpTo(Len(log)) |-> WritesOfFrame(k)]

Replay == INSTANCE FrameReplay WITH schedule <- Schedule,
                                    ApuWrite <- (0..23) \X Byte

\* Every tick replays one PLAY call: each register write the NSF made, in its
\* order and in its frame, whatever runs of silent frames the WAITs encode.
ReplaysTheTune == Replay!Spec

\* The file fmsq_write_file was to make is on the disk.
Whole == phase = "done" /\ disk = FilePrefix(HeaderSize + Len(stream))

\* A file the disk cut short is refused by fmsq_player_load: not one register
\* of it is written.
ShortFileIsSilent ==
  phase = "done" /\ ~Whole => heard = << >> /\ now = << >> /\ ~playing

\* A player that has stopped on a loaded file has played all of the tune and nothing
\* else, and the frame count of fmsq_write_file's header was that of its ticks; unless
\* the file or the tune is too long for the header's fields.
WholeTuneIsHeard ==
  stage = "ended" /\ hasData /\ Len(stream) < FieldMod =>
    /\ heard = Schedule /\ now = << >>
    /\ Len(Schedule) < FieldMod => frames_played = fileFrames

\* Once loaded, the tune is played to its last frame, and the tick that meets
\* END writes nothing: the frame count in the header is the ticks played.
PlaysToTheEnd ==
  stage = "loaded" ~> /\ stage = "ended" /\ heard = Schedule /\ now = << >>
                      /\ frames_played = fileFrames

=============================================================================
