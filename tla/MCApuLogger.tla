----------------------------- MODULE MCApuLogger -----------------------------
(* Apu_Logger under every order of the calls that the emulator and the tools make:
   a track or a PLAY call starts with its frame number, as Nsf_Emu.cpp does it. *)
EXTENDS ApuLogger

CONSTANTS MaxEntries,  \* bound on the entries logged
          MaxTime      \* bound on the times passed in

Times == 0..MaxTime

Log == /\ Len(entries) < MaxEntries
       /\ \/ \E t \in Times, a \in Addrs, d \in Data : LogWrite(t, a, d)
          \/ \E t \in Times : StartInit(t) \/ LogInitEnd(t)
          \/ \E t \in Times : \/ LogPlayStart(t, current_frame + 1)
                              \/ LogPlayEnd(t, current_frame)
          \/ ResetFrameStartTime
       /\ UNCHANGED saved

Configure == /\ \/ \E b \in BOOLEAN : SetEnabled(b)
                \/ \E n \in 0..2 : SetMemoryLimit(n)
                \/ Clear
             /\ UNCHANGED saved

\* A recording, and the same with logs loaded from files.
Recording == Log \/ Configure
Next      == Recording \/ Save \/ LoadOk \/ LoadShort

RecordingSpec == LoggerInit /\ [][Recording]_loggerVars
Spec          == LoggerInit /\ [][Next]_loggerVars

\* Apu_Logger.cpp:215 sets the frame count from the file of a version 2 log.
LoadRestoresFrame == [][LoadOk => current_frame' = saved.frame_count]_loggerVars
=============================================================================
