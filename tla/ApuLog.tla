------------------------------- MODULE ApuLog -------------------------------
(***************************************************************************)
(* The log of one recording, as the NSF emulator fills it through          *)
(* Apu_Logger: INIT_START, the writes INIT makes, INIT_END and PLAY_START  *)
(* together when the first PLAY call is due, then the writes and the       *)
(* PLAY_START of every later call.  PLAY_END appears only where a PLAY     *)
(* that preempted INIT returns to it.  NsfCapture models the emulator      *)
(* itself and implements this module.                                      *)
(***************************************************************************)
EXTENDS Integers, Sequences

CONSTANTS Offsets,  \* the registers written, as offsets from $4000
          Values    \* the values written

VARIABLE log

Write(off, val) == [event |-> "WRITE", off |-> off, val |-> val]
Marker(kind)    == [event |-> kind]

Markers == {"INIT_START", "INIT_END", "PLAY_START", "PLAY_END"}
Entry == [event : {"WRITE"}, off : Offsets, val : Values] \cup [event : Markers]

Has(kind) == \E i \in 1..Len(log) : log[i].event = kind

LogInit == log = << >>

LogInitStart ==
  /\ log = << >>
  /\ log' = <<Marker("INIT_START")>>

LogWrite(off, val) ==
  /\ log # << >>
  /\ log' = Append(log, Write(off, val))

LogPlayStart ==
  /\ log # << >>
  /\ log' = log \o (IF Has("PLAY_START") THEN << >> ELSE <<Marker("INIT_END")>>)
                \o <<Marker("PLAY_START")>>

\* At most one PLAY_END after each PLAY_START.
LogPlayEnd ==
  /\ \E i \in 1..Len(log) : /\ log[i].event = "PLAY_START"
                           /\ \A j \in i..Len(log) : log[j].event # "PLAY_END"
  /\ log' = Append(log, Marker("PLAY_END"))

LogNext == \/ LogInitStart \/ LogPlayStart \/ LogPlayEnd
           \/ \E off \in Offsets, val \in Values : LogWrite(off, val)

LogSpec == LogInit /\ [][LogNext]_log
=============================================================================
