----------------------------- MODULE FmsqFormat -----------------------------
(***************************************************************************)
(* The byte encoding of the FMSQ command stream (fmsq_format.h), shared by *)
(* the converter that writes it and the player that interprets it.         *)
(* A byte is a number 0..255; masks and shifts are written with \div and % *)
(* so that the modules that use them can be proved about.                  *)
(***************************************************************************)
EXTENDS Integers, Sequences

Byte == 0..255

\* WAIT is 0xxxxxxx: the frame count minus one.
IsWait(cmd)     == cmd < 128
WaitFrames(cmd) == (cmd % 128) + 1
MakeWait(w)     == (w - 1) % 256

\* REG_WRITE is 110aaaaa followed by a data byte.
IsRegWrite(cmd) == cmd \div 32 = 6
RegOffset(cmd)  == cmd % 32
RegWrite(off)   == 192 + (off % 32)

\* Single-byte opcodes.
CmdDpcmPlay == 224
CmdDpcmStop == 225
CmdDpcmRaw  == 226
CmdEnd      == 254
CmdLoop     == 255

\* Channel commands are 10ccxxxx: a channel and a sub-command.
ChannelOf(cmd) == (cmd \div 16) % 4
SubOf(cmd)     == cmd % 16

\* APU registers as offsets from $4000.
DmcFreq == 16
DmcRaw == 17
DmcStart == 18
DmcLen == 19
ApuStatus == 21

(***************************************************************************)
(* NOTE_ON: which register gets which operand, in the order of the writes. *)
(* Channels: 0 and 1 pulse, 2 triangle, 3 noise.                           *)
(***************************************************************************)
NoteOnWrites ==
  [ch \in 0..3 |->
     CASE ch = 0 -> << <<0, 3>>, <<1, 4>>, <<2, 1>>, <<3, 2>> >>
       [] ch = 1 -> << <<4, 3>>, <<5, 4>>, <<6, 1>>, <<7, 2>> >>
       [] ch = 2 -> << <<8, 3>>, <<10, 1>>, <<11, 2>> >>
       [] ch = 3 -> << <<12, 2>>, <<14, 1>> >>]

(***************************************************************************)
(* PARAM: the registers a mask selects, in the order their operands follow *)
(* the mask byte.                                                          *)
(***************************************************************************)
Bit(mask, b) == (mask \div b) % 2 = 1

ParamRegs(ch, mask) ==
  LET Field(b, regs) == IF Bit(mask, b) THEN regs ELSE << >>
      pulse == 4 * ch
  IN  CASE ch \in {0, 1} -> Field(1, <<pulse + 2, pulse + 3>>)
                            \o Field(2, <<pulse>>) \o Field(4, <<pulse + 1>>)
        [] ch = 2 -> Field(1, <<10, 11>>) \o Field(2, <<8>>)
        [] ch = 3 -> Field(1, <<14>>) \o Field(2, <<12>>)
=============================================================================
