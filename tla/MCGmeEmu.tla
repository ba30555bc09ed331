----------------------------- MODULE MCGmeEmu -----------------------------
(* Real sizes and rates; files of each kind that loads, or that fails at each step. *)
EXTENDS GmeEmu, TLC

NoBanks == [i \in 1 .. 8 |-> 0]
Plain == [extension |-> TRUE, magic |-> "NESM\\x1A", length |-> 10128, reads |-> TRUE, chips |-> {},
          tracks |-> 2, load |-> 0, init |-> 32768, banks |-> NoBanks, pal |-> FALSE]
Banked == [Plain EXCEPT !.chips = {"vrc6", "fds"}, !.pal = TRUE, !.tracks = 1, !.load = 33059,
                        !.length = 12400, !.banks = <<0, 1, 2, 3, 4, 250, 2, 3>>]
\* More voices than the table of types has.
Crowded == [Plain EXCEPT !.chips = {"vrc6", "namco", "fme7"}, !.load = 45056]
BadAddress == [Banked EXCEPT !.init = 100]
MCFiles == {Plain, Banked, Crowded, BadAddress,
            [Plain EXCEPT !.length = 128],
            [Plain EXCEPT !.extension = FALSE, !.reads = FALSE],
            [Plain EXCEPT !.extension = FALSE, !.magic = "NSFE"],
            [Banked EXCEPT !.extension = FALSE, !.magic = "NESM"]}

Entry == [kind |-> "entry", nul |-> FALSE, bad |-> FALSE, hex |-> FALSE, track |-> 1,
          length |-> 60, loop |-> "time", lasts |-> -1, fade |-> 8, repeat |-> -1]
Comment == [Entry EXCEPT !.kind = "comment"]
MCPlaylists == {
    <<"read", <<Comment, [Entry EXCEPT !.track = 2, !.loop = "intro", !.lasts = 5],
                [Entry EXCEPT !.bad = TRUE], [Entry EXCEPT !.hex = TRUE],
                [Entry EXCEPT !.track = -1, !.loop = "all"]>>>>,
    <<"read", <<Entry, [Entry EXCEPT !.nul = TRUE]>>>>,
    <<"read", <<Comment, [Entry EXCEPT !.kind = "empty"]>>>>,
    <<"unread", <<>>>> }

\* Behind the end of a file of three pages, the last of one of four.
MCBankWrites == {<<1, 255>>}
MCBeyond == {Wave(1)}
MCMasks == {{}, {0, 2, 5}}
==========================================================================
