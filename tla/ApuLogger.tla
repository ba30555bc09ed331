------------------------------ MODULE ApuLogger ------------------------------
(***************************************************************************)
(* Apu_Logger (nsf2fmsq/gme/Apu_Logger.cpp): the in-memory log of APU      *)
(* writes and INIT/PLAY markers, its memory limit, and its binary file.    *)
(* Addresses are offsets from $4000.                                       *)
(***************************************************************************)
EXTENDS Integers, Sequences

CONSTANTS Addrs, Data      \* what the CPU may write, and where

VARIABLES enabled, entries, max_entries, current_frame, frame_start_time,
          saved            \* the file save_binary wrote, or NoLogFile

logger == <<enabled, entries, max_entries, current_frame, frame_start_time>>
loggerVars == <<logger, saved>>

NoLogFile == [magic |-> "none"]

LoggerInit ==
  /\ enabled = FALSE /\ entries = << >> /\ max_entries = 0
  /\ current_frame = 0 /\ frame_start_time = 0
  /\ saved = NoLogFile

-----------------------------------------------------------------------------
\* $4000-$4017 without OAM DMA ($4014) and the controller port ($4016).
IsApuAddr(addr) == addr \in (0..23) \ {20, 22}

WriteEntry(time, addr, d) ==
  [event |-> "WRITE", time |-> time, frame |-> current_frame, addr |-> addr, data |-> d]
MarkerEntry(kind, time, frame) == [event |-> kind, time |-> time, frame |-> frame]

HasRoom == max_entries = 0 \/ Len(entries) < max_entries

\* Time since the frame began, not below 0.
Since(time) == IF time < frame_start_time THEN 0 ELSE time - frame_start_time

\* The entries with one more write, when the logger takes it.
WithWrite(time, addr, d) ==
  IF enabled /\ IsApuAddr(addr) /\ HasRoom
  THEN Append(entries, WriteEntry(Since(time), addr, d)) ELSE entries

LogWrite(time, addr, d) ==
  /\ entries' = WithWrite(time, addr, d)
  /\ UNCHANGED <<enabled, max_entries, current_frame, frame_start_time>>

\* Mutant: a track starts at the frame where the last one ended.
StartInitKeepsFrame(time) ==
  /\ IF enabled
       THEN /\ frame_start_time' = time
            /\ entries' = Append(entries, MarkerEntry("INIT_START", 0, current_frame))
       ELSE UNCHANGED <<frame_start_time, entries>>
  /\ UNCHANGED <<enabled, max_entries, current_frame>>

\* INIT starts: the emulator calls reset_frame_counter and log_init_start when
\* the logger is on.  Markers are not subject to the memory limit.
StartInit(time) ==
  /\ IF enabled
       THEN /\ frame_start_time' = time /\ current_frame' = 0
            /\ entries' = Append(entries, MarkerEntry("INIT_START", 0, 0))
       ELSE UNCHANGED <<frame_start_time, current_frame, entries>>
  /\ UNCHANGED <<enabled, max_entries>>

\* run_clocks starts: the CPU's clock is 0 again.
ResetFrameStartTime ==
  /\ frame_start_time' = IF enabled THEN 0 ELSE frame_start_time
  /\ UNCHANGED <<enabled, entries, max_entries, current_frame>>

LogInitEnd(time) ==
  /\ entries' = IF enabled
                THEN Append(entries, MarkerEntry("INIT_END", time - frame_start_time,
                                                 current_frame))
                ELSE entries
  /\ UNCHANGED <<enabled, max_entries, current_frame, frame_start_time>>

LogPlayStart(time, frame) ==
  /\ IF enabled
       THEN /\ frame_start_time' = time /\ current_frame' = frame
            /\ entries' = Append(entries, MarkerEntry("PLAY_START", 0, frame))
       ELSE UNCHANGED <<frame_start_time, current_frame, entries>>
  /\ UNCHANGED <<enabled, max_entries>>

LogPlayEnd(time, frame) ==
  /\ entries' = IF enabled
                THEN Append(entries, MarkerEntry("PLAY_END", time - frame_start_time, frame))
                ELSE entries
  /\ UNCHANGED <<enabled, max_entries, current_frame, frame_start_time>>

SetEnabled(b) ==
  enabled' = b /\ UNCHANGED <<entries, max_entries, current_frame, frame_start_time>>

SetMemoryLimit(n) ==
  max_entries' = n /\ UNCHANGED <<enabled, entries, current_frame, frame_start_time>>

Clear ==
  /\ entries' = << >> /\ current_frame' = 0 /\ frame_start_time' = 0
  /\ UNCHANGED <<enabled, max_entries>>

-----------------------------------------------------------------------------
\* save_binary: nothing is written of an empty log; a full disk cuts the
\* entries short, and the header still counts them all.
Save ==
  /\ entries # << >>
  /\ \E n \in 0..Len(entries) :
       saved' = [magic |-> "APULOG", version |-> 2, entry_count |-> Len(entries),
                 frame_count |-> current_frame, body |-> SubSeq(entries, 1, n)]
  /\ UNCHANGED logger

\* load_binary: the frame count is taken from the header, and then clear() runs.
LoadOk ==
  /\ saved # NoLogFile /\ Len(saved.body) = saved.entry_count
  /\ entries' = saved.body
  /\ current_frame' = 0 /\ frame_start_time' = 0
  /\ UNCHANGED <<enabled, max_entries, saved>>

LoadShort ==
  /\ saved # NoLogFile /\ Len(saved.body) < saved.entry_count
  /\ entries' = << >>
  /\ current_frame' = 0 /\ frame_start_time' = 0
  /\ UNCHANGED <<enabled, max_entries, saved>>

-----------------------------------------------------------------------------
\* The entries that start a routine, and the frame of the routine one starts:
\* 0 is INIT's, also that of a later track.
Begins      == {"INIT_START", "PLAY_START"}
FrameOf(e)  == IF e.event = "PLAY_START" THEN e.frame ELSE 0

\* A write is filed under the frame of the routine that started last before it
\* in the log, also when the logger was off or at its limit in between
\* (Apu_Logger.h:30 keeps the number per entry; the frame counter it comes from
\* is reset, raised and cleared by different calls).
WritesFiledUnderFrame ==
  \A i \in 1..Len(entries) :
    entries[i].event = "WRITE" =>
      LET starts == {j \in 1..(i - 1) : entries[j].event \in Begins}
      IN  starts # {} =>
            entries[i].frame =
              FrameOf(entries[CHOOSE j \in starts : \A k \in starts : k <= j])
=============================================================================
