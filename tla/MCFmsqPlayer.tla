---------------------------- MODULE MCFmsqPlayer ----------------------------
(* Bounded instances of FmsqPlayer. *)
EXTENDS FmsqPlayer, FiniteSets

\* WAIT 1, WAIT 2, WAIT 3 (also a PARAM mask), REG_WRITE $4015, NOTE_ON noise,
\* NOTE_OFF pulse 2, PARAM of triangle, DPCM_PLAY, DPCM_STOP, DPCM_RAW, a
\* reserved byte, END, LOOP.
Alphabet == {0, 2, 3, 213, 176, 145, 162, 224, 225, 226, 247, 254, 255}

Good(body) == [header |-> "ok", frame_count |-> 3, data_size |-> Len(body), body |-> body]

\* The empty stream, every command without operands or cut off after one, and
\* the files that load refuses.
MCFiles == {Good(<< >>)} \cup {Good(<<c>>) : c \in Alphabet} \cup {Good(<<c, 2>>) : c \in Alphabet}
           \cup {[Good(<<0, 254>>) EXCEPT !.data_size = 3],
                 [Good(<<0, 254>>) EXCEPT !.header = "magic"],
                 [Good(<< >>) EXCEPT !.header = "short"],
                 [Good(<<0, 254>>) EXCEPT !.header = "version"]}

\* Longer streams that pace their LOOP with a WAIT, and commands with all their
\* operands followed by others.
LongFiles ==
  {Good(b) : b \in {<<213, 7, 0, 255, 0, 0>>, <<0, 145, 2, 255, 1, 0>>,
                    <<224, 15, 0, 3, 225, 0, 254>>, <<128, 1, 2, 3, 4, 0, 129, 254>>,
                    <<162, 3, 1, 2, 3, 0, 178, 3, 5, 6, 254>>, <<146, 7, 1, 2, 3, 4, 0, 254>>,
                    <<144, 1, 2, 3, 4, 160, 5, 6, 7, 0, 176, 8, 9, 0, 254>>,
                    <<226, 64, 213, 0, 1, 130, 5, 1, 2>>}}

AllFiles == MCFiles \cup LongFiles
=============================================================================
