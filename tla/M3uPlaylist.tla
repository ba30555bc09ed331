--------------------------- MODULE M3uPlaylist ---------------------------
(***************************************************************************)
(* M3u_Playlist.cpp: a playlist is a text of lines, each a comment, empty, *)
(* or an entry that names a track and its times. A line is a record: what  *)
(* it is, what its track, time, loop, fade and repeat fields say (-1 for a *)
(* field without digits), if one of them holds anything else, and if the   *)
(* line has a NUL, which no text has.                                      *)
(***************************************************************************)
EXTENDS Integers, Sequences
LOCAL INSTANCE SequencesExt

NotAPlaylist == "Not an m3u playlist"

\* $7F is a track counted from 0, 127 one counted from 1 (entry.decimal_track).
ParseTrack(line) ==
    [track |-> line.track, decimal |-> IF ~line.hex /\ line.track >= 0 THEN 1 ELSE 0]

\* "-" loops it all; "5-" is an intro of 5, and what is left of the length loops.
ParseLoop(line) ==
    CASE line.loop = "all"               -> [intro |-> -1, loop |-> line.length]
      [] line.loop # "all" /\ line.lasts < 0 -> [intro |-> -1, loop |-> -1]
      [] line.loop = "time" /\ line.lasts >= 0 -> [intro |-> 0, loop |-> line.lasts]
      [] line.loop = "intro" /\ line.lasts >= 0 ->
             [intro |-> line.lasts, loop |-> line.length - line.lasts]

ParseLine(line) ==
    [track |-> ParseTrack(line).track, decimal |-> ParseTrack(line).decimal,
     length |-> line.length, intro |-> ParseLoop(line).intro, loop |-> ParseLoop(line).loop,
     bad |-> line.bad]

\* One turn of the loop over the lines; a line of a NUL stops it for good.
ReadLine(p, line) ==
    IF p.err # "" THEN p
    ELSE IF line.nul THEN [p EXCEPT !.err = NotAPlaylist]
    ELSE LET q == [p EXCEPT !.line = @ + 1]
         IN IF line.kind # "entry" THEN q
            ELSE IF ParseLine(line).bad
                 THEN [q EXCEPT !.first_error = IF @ = 0 THEN q.line ELSE @]
                 ELSE [q EXCEPT !.entries = Append(@, ParseLine(line))]

\* parse_(), and parse(), which keeps nothing of a text that is no playlist.
Parse(lines) ==
    LET p == FoldLeft(ReadLine, [entries |-> <<>>, line |-> 0, first_error |-> 0, err |-> ""], lines)
    IN IF p.err # "" \/ Len(p.entries) = 0
       THEN [entries |-> <<>>, first_error |-> p.first_error, err |-> NotAPlaylist]
       ELSE [entries |-> p.entries, first_error |-> p.first_error, err |-> ""]
==========================================================================
