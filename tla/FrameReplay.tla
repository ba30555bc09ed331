----------------------------- MODULE FrameReplay -----------------------------
(***************************************************************************)
(* What recording, converting and replaying a tune promises: the register  *)
(* writes of the k-th PLAY call are heard, all of them and in order, in    *)
(* the k-th tick of the player.                                            *)
(***************************************************************************)
EXTENDS Integers, Sequences

CONSTANT ApuWrite        \* the register writes

VARIABLES schedule,      \* the writes of each frame recorded
          heard          \* the writes of each frame played

replayVars == <<schedule, heard>>

Init == schedule = << >> /\ heard = << >>

Capture ==
  /\ schedule = << >> /\ heard = << >>
  /\ schedule' \in Seq(Seq(ApuWrite))
  /\ UNCHANGED heard

Play ==
  /\ Len(heard) < Len(schedule)
  /\ heard' = Append(heard, schedule[Len(heard) + 1])
  /\ UNCHANGED schedule

Next == Capture \/ Play

Spec == Init /\ [][Next]_replayVars
=============================================================================
