----------------------------- MODULE MusicStream -----------------------------
(***************************************************************************)
(* Music_Emu's output stream (nsf2fmsq/gme/Music_Emu.cpp): start_track,    *)
(* play, skip, seek and set_fade.  During silence the emulator runs ahead  *)
(* of what is played; silence_count and buf_remain are what it owes the    *)
(* listener.                                                               *)
(*                                                                         *)
(* A call of start_track or play is several steps, at the points where it  *)
(* runs the emulator; `at` is the place inside the call.  Of the samples   *)
(* of a chunk (what one emu_play generates) the model keeps how many are   *)
(* silent at its end, and of that what count_silence makes of it.          *)
(***************************************************************************)
EXTENDS Integers

CONSTANTS BufSize,         \* buf_size: 2048 samples
          Lookahead,       \* silence_lookahead
          SilenceMax,      \* silence_max in samples: a longer silence ends the track
          InitialSilence,  \* max_initial_silence in samples
          FadeBlock, FadeShift,
          Counts,          \* samples asked of one play or skip
          Fades,           \* <<fade_start, fade_step>> that set_fade may set
          EmuMayEnd,       \* whether the emulator core may fail or end the track
          MaxTime          \* bound on the samples played

ASSUME StreamAssumption ==
  /\ BufSize \in Nat \ {0} /\ Lookahead \in Nat \ {0}
  /\ SilenceMax \in Nat /\ SilenceMax >= BufSize /\ InitialSilence \in Nat
  /\ FadeBlock \in Nat \ {0} /\ FadeShift \in Nat
  /\ Counts \subseteq Nat \ {0}
  /\ Fades \subseteq Int \X (Nat \ {0})
  /\ EmuMayEnd \in BOOLEAN /\ MaxTime \in Nat

VARIABLES
  current_track,           \* -1 before a track is started, else 0
  out_time, emu_time,      \* samples played, and generated, since the track began
  silence_time,            \* where the latest silence began
  silence_count,           \* samples of silence to play before buf
  buf_remain,              \* samples of buf to play after that
  emu_track_ended_, track_ended_,
  ignore_silence_, fade,
  at,                      \* "idle", or where in start_track or play
  out_count, pos,          \* samples asked of this play, and delivered by it
  loud_end                 \* one past the last sample generated that is not silent
                           \* and not the first of its chunk

owed  == <<silence_count, buf_remain>>
ended == <<emu_track_ended_, track_ended_>>
times == <<out_time, emu_time, silence_time, loud_end>>
callVars == <<at, out_count, pos>>
settings == <<ignore_silence_, fade>>
streamVars == <<current_track, times, owed, ended, settings, callVars>>

Smaller(a, b) == IF a < b THEN a ELSE b

NoFade == <<MaxTime + 1, 1>>   \* a fade_start beyond every time

StreamInit ==
  /\ current_track = -1
  /\ out_time = 0 /\ emu_time = 0 /\ silence_time = 0 /\ loud_end = 0
  /\ silence_count = 0 /\ buf_remain = 0
  /\ emu_track_ended_ = TRUE /\ track_ended_ = TRUE
  /\ ignore_silence_ \in BOOLEAN /\ fade = NoFade
  /\ at = "idle" /\ out_count = 0 /\ pos = 0

-----------------------------------------------------------------------------
\* Mutant: the second sample is not looked at either.
CountSilenceOver(n, s) == Smaller(s + 2, n)

\* count_silence for n samples with s silent ones at the end.  The sound before
\* them is counted as well; and as the first sample gives way to a sentinel, a
\* sound there is not found: the n samples pass for silence.
CountSilence(n, s) == Smaller(s + 1, n)

\* emu_play: n more samples, the last s of them silent.  Once the emulator has
\* ended they are all silent; an error ends it.
EmuPlay(n, s) ==
  /\ emu_time' = emu_time + n
  /\ s \in 0..n
  /\ emu_track_ended_ => s = n
  /\ loud_end' = IF s < n - 1 THEN emu_time' - s ELSE loud_end
  /\ IF EmuMayEnd THEN emu_track_ended_' \in {emu_track_ended_, TRUE}
                  ELSE UNCHANGED emu_track_ended_

\* Mutant: a sound does not move silence_time.
FillBufStale ==
  \/ /\ ~emu_track_ended_
     /\ \E s \in 0..BufSize :
          /\ EmuPlay(BufSize, s)
          /\ IF CountSilence(BufSize, s) < BufSize
               THEN buf_remain' = BufSize /\ UNCHANGED silence_count
               ELSE silence_count' = silence_count + BufSize /\ UNCHANGED buf_remain
     /\ UNCHANGED silence_time
  \/ /\ emu_track_ended_
     /\ silence_count' = silence_count + BufSize
     /\ UNCHANGED <<emu_time, loud_end, silence_time, buf_remain, emu_track_ended_>>

\* fill_buf: a buffer with a sound that count_silence finds is kept for later.
FillBuf ==
  \/ /\ ~emu_track_ended_
     /\ \E s \in 0..BufSize :
          /\ EmuPlay(BufSize, s)
          /\ IF CountSilence(BufSize, s) < BufSize
               THEN /\ silence_time' = emu_time' - CountSilence(BufSize, s)
                    /\ buf_remain' = BufSize /\ UNCHANGED silence_count
               ELSE /\ silence_count' = silence_count + BufSize
                    /\ UNCHANGED <<silence_time, buf_remain>>
  \/ /\ emu_track_ended_
     /\ silence_count' = silence_count + BufSize
     /\ UNCHANGED <<emu_time, loud_end, silence_time, buf_remain, emu_track_ended_>>

-----------------------------------------------------------------------------
\* start_track: clear_track_vars, then the emulator's own start_track_.
ClearTrackVars ==
  /\ out_time' = 0 /\ emu_time' = 0 /\ silence_time' = 0 /\ loud_end' = 0
  /\ silence_count' = 0 /\ buf_remain' = 0
  /\ fade' = NoFade
  /\ out_count' = 0 /\ pos' = 0

StartTrack ==
  /\ at = "idle"
  /\ ClearTrackVars
  /\ current_track' = 0
  /\ emu_track_ended_' = FALSE /\ track_ended_' = FALSE
  /\ at' = IF ignore_silence_ THEN "idle" ELSE "trim"
  /\ UNCHANGED ignore_silence_

\* The track does not exist, or start_track_ fails.
StartTrackFails ==
  /\ at = "idle"
  /\ ClearTrackVars
  /\ current_track' \in {-1, 0}
  /\ emu_track_ended_' = TRUE /\ track_ended_' = TRUE
  /\ UNCHANGED <<at, ignore_silence_>>

\* Play until non-silence or the end of the track.
Trim ==
  /\ at = "trim" /\ emu_time < InitialSilence
  /\ buf_remain = 0 /\ ~emu_track_ended_
  /\ FillBuf
  /\ UNCHANGED <<current_track, out_time, track_ended_, settings, callVars>>

\* Mutant: the silence trimmed is still owed.
TrimOwed ==
  /\ at = "trim"
  /\ emu_time >= InitialSilence \/ buf_remain > 0 \/ emu_track_ended_
  /\ loud_end' = IF buf_remain > 0 THEN loud_end - (emu_time - buf_remain) ELSE 0
  /\ emu_time' = buf_remain /\ out_time' = 0 /\ silence_time' = 0
  /\ at' = "idle"
  /\ UNCHANGED <<current_track, owed, ended, settings, out_count, pos>>

\* The times restart where the sound begins.
TrimDone ==
  /\ at = "trim"
  /\ emu_time >= InitialSilence \/ buf_remain > 0 \/ emu_track_ended_
  /\ loud_end' = IF buf_remain > 0 THEN loud_end - (emu_time - buf_remain) ELSE 0
  /\ emu_time' = buf_remain /\ out_time' = 0
  /\ silence_time' = 0 /\ silence_count' = 0
  /\ at' = "idle"
  /\ UNCHANGED <<current_track, buf_remain, ended, settings, out_count, pos>>

-----------------------------------------------------------------------------
\* play, after the track has ended: silence.
PlayEnded(n) ==
  /\ at = "idle" /\ track_ended_ /\ out_time + n <= MaxTime
  /\ out_time' = out_time + n
  /\ UNCHANGED <<current_track, emu_time, silence_time, loud_end, owed, ended, settings, callVars>>

Play(n) ==
  /\ at = "idle" /\ ~track_ended_ /\ out_time + n <= MaxTime
  /\ out_count' = n /\ pos' = 0
  /\ at' = IF silence_count > 0 THEN "ahead" ELSE "buffer"
  /\ UNCHANGED <<current_track, times, owed, ended, settings>>

\* During a run of silence the emulator gets ahead of the player.
AheadTime == Lookahead * (out_time + out_count - silence_time) + silence_time

Ahead == emu_time < AheadTime /\ buf_remain = 0 /\ ~emu_track_ended_

RunAhead ==
  /\ at = "ahead" /\ Ahead
  /\ FillBuf
  /\ UNCHANGED <<current_track, out_time, track_ended_, settings, callVars>>

\* Fill with silence; a silence of more than SilenceMax ends the track.
PlaySilence ==
  LET n == Smaller(silence_count, out_count)
  IN  /\ at = "ahead" /\ ~Ahead
      /\ pos' = n
      /\ IF emu_time - silence_time > SilenceMax
           THEN /\ track_ended_' = TRUE /\ emu_track_ended_' = TRUE
                /\ silence_count' = 0 /\ buf_remain' = 0
           ELSE /\ silence_count' = silence_count - n
                /\ UNCHANGED <<buf_remain, ended>>
      /\ at' = "buffer"
      /\ UNCHANGED <<current_track, times, settings, out_count>>

\* Mutant: play waits for the buffer to give all the samples asked for.
PlayBufferOnly ==
  LET n == Smaller(buf_remain, out_count - pos)
  IN  /\ at = "buffer"
      /\ buf_remain' = buf_remain - n
      /\ pos' = pos + n
      /\ at' = IF pos' = out_count THEN "finish" ELSE "buffer"
      /\ UNCHANGED <<current_track, times, silence_count, ended, settings, out_count>>

PlayBuffer ==
  LET n == Smaller(buf_remain, out_count - pos)
  IN  /\ at = "buffer"
      /\ buf_remain' = buf_remain - n
      /\ pos' = pos + n
      /\ at' = IF pos' = out_count THEN "finish" ELSE "rest"
      /\ UNCHANGED <<current_track, times, silence_count, ended, settings, out_count>>

\* Generate the remaining samples; a new run of silence is looked for at the end.
PlayRest ==
  /\ at = "rest"
  /\ \E s \in 0..(out_count - pos) :
       /\ EmuPlay(out_count - pos, s)
       /\ track_ended_' = (track_ended_ \/ emu_track_ended_')
       /\ IF ~ignore_silence_ \/ out_time > fade[1]
            THEN /\ silence_time' = LET silence == CountSilence(out_count - pos, s)
                                    IN  IF silence < out_count - pos
                                        THEN emu_time' - silence ELSE silence_time
                 /\ at' = IF emu_time' - silence_time' >= BufSize THEN "detect"
                                                                  ELSE "finish"
            ELSE /\ at' = "finish" /\ UNCHANGED silence_time
  /\ pos' = out_count
  /\ UNCHANGED <<current_track, out_time, owed, settings, out_count>>

\* fill_buf: the next play will find the silence.
Detect ==
  /\ at = "detect"
  /\ FillBuf
  /\ at' = "finish"
  /\ UNCHANGED <<current_track, out_time, track_ended_, settings, out_count, pos>>

\* handle_fade ends the track once the gain is below 2 ^ -FadeShift.
FadeOver ==
  /\ fade[1] >= 0 /\ out_time > fade[1]
  /\ \E i \in 0..(out_count - 1) :
       /\ i % FadeBlock = 0
       /\ (out_time + i - fade[1]) \div FadeBlock > FadeShift * fade[2]

Finish ==
  /\ at = "finish"
  /\ IF FadeOver THEN emu_track_ended_' = TRUE /\ track_ended_' = TRUE
                 ELSE UNCHANGED ended
  /\ out_time' = out_time + out_count
  /\ out_count' = 0 /\ pos' = 0
  /\ at' = "idle"
  /\ UNCHANGED <<current_track, emu_time, silence_time, loud_end, owed, settings>>

-----------------------------------------------------------------------------
\* skip: first what is owed, then samples of the emulator that nobody hears.
Skip(n) ==
  LET fromSilence == Smaller(n, silence_count)
      fromBuf     == Smaller(n - fromSilence, buf_remain)
      rest        == n - fromSilence - fromBuf
  IN  /\ at = "idle" /\ current_track >= 0 /\ out_time + n <= MaxTime
      /\ out_time' = out_time + n
      /\ silence_count' = silence_count - fromSilence
      /\ buf_remain' = buf_remain - fromBuf
      /\ IF rest > 0 /\ ~emu_track_ended_
           THEN \E s \in 0..rest : EmuPlay(rest, s)
           ELSE UNCHANGED <<emu_time, loud_end, emu_track_ended_>>
      /\ track_ended_' = (track_ended_ \/ (silence_count' = 0 /\ buf_remain' = 0
                                           /\ emu_track_ended_'))
      /\ UNCHANGED <<current_track, silence_time, settings, callVars>>

SetFade(f) ==
  /\ at = "idle" /\ fade' = f
  /\ UNCHANGED <<current_track, times, owed, ended, ignore_silence_, callVars>>

IgnoreSilence(b) ==
  /\ at = "idle" /\ ignore_silence_' = b
  /\ UNCHANGED <<current_track, times, owed, ended, fade, callVars>>

\* seek_samples to a time is a Skip, after a StartTrack when it lies behind.
InCall == Trim \/ TrimDone \/ RunAhead \/ PlaySilence \/ PlayBuffer \/ PlayRest
          \/ Detect \/ Finish

StreamNext == \/ StartTrack \/ StartTrackFails \/ InCall
        \/ \E n \in Counts : PlayEnded(n) \/ Play(n) \/ Skip(n)
        \/ \E f \in Fades : SetFade(f)
        \/ \E b \in BOOLEAN : IgnoreSilence(b)

\* A call runs until it returns.
StreamSpec == StreamInit /\ [][StreamNext]_streamVars /\ WF_streamVars(InCall)

-----------------------------------------------------------------------------
TimesTyped ==
  /\ out_time \in Nat /\ emu_time \in Nat /\ loud_end \in Nat
  /\ silence_time \in Nat
  /\ silence_count \in Nat /\ buf_remain \in 0..BufSize
  /\ out_count \in Nat /\ pos \in 0..out_count

FlagsTyped ==
  /\ current_track \in {-1, 0} /\ fade \in Int \X (Nat \ {0})
  /\ emu_track_ended_ \in BOOLEAN /\ track_ended_ \in BOOLEAN
  /\ ignore_silence_ \in BOOLEAN
  /\ at \in {"idle", "trim", "ahead", "buffer", "rest", "detect", "finish"}

TypeOK == TimesTyped /\ FlagsTyped

\* Until the track ends, what the emulator is ahead of the listener is exactly
\* the silence and the buffered samples still owed: no sample is skipped or
\* heard twice, and the assertion emu_time >= out_time of play holds.
Accounting ==
  ~track_ended_ => emu_time = out_time + pos + silence_count + buf_remain

\* fill_buf asserts that buf is empty when it is called.
BufFreeWhenFilled ==
  /\ at \in {"rest", "detect"} => buf_remain = 0
  /\ at = "rest" => silence_count = 0

\* The silence owed was silent when it was generated, but for the first sample of
\* each buffer that fill_buf passed over (Music_Emu.cpp:369-377 does not look at
\* it): no other sound is replaced by zeros while the emulator runs ahead.
SilenceIsSilent ==
  ~track_ended_ /\ silence_count > 0
    => \/ loud_end <= out_time + pos
       \/ loud_end > out_time + pos + silence_count

\* Why the properties above are inductive: what each place inside a call knows.
Places ==
  /\ at \in {"idle", "trim"} => pos = 0 /\ out_count = 0
  /\ at = "trim" => /\ out_time = 0 /\ ~track_ended_
                    /\ IF buf_remain = 0 THEN loud_end = 0
                                         ELSE loud_end > emu_time - buf_remain
  /\ at = "ahead" => pos = 0 /\ silence_count > 0 /\ ~track_ended_
  /\ at = "buffer" => silence_count = 0 \/ pos = out_count
  /\ at = "rest" => pos < out_count
  /\ at \in {"detect", "finish"} => pos = out_count
  /\ at = "detect" => silence_count = 0 /\ (emu_track_ended_ => track_ended_)

\* A buffer is kept only for the sound in it, which is then the latest sound.
BufIsRecent ==
  /\ loud_end <= emu_time
  /\ ~track_ended_ /\ buf_remain > 0 => emu_time - silence_time <= BufSize

\* The inductive invariant: all of the above.
IInv == /\ TypeOK /\ Accounting /\ BufFreeWhenFilled /\ SilenceIsSilent
        /\ Places /\ BufIsRecent

\* When a silence ends the track, no sound was generated and not yet played, the
\* first sample of a buffer passed over again excepted.
EndLosesNoSound ==
  [][PlaySilence /\ ~track_ended_ /\ track_ended_' => loud_end <= out_time]_streamVars

\* start_track and play return: the loops that look for the end of a silence
\* stop, also when the emulator ends in the middle of one.
CallsReturn == at # "idle" ~> at = "idle"

=============================================================================
