---------------------------- MODULE MCMusicStream ----------------------------
(* Bounded instances of MusicStream. *)
EXTENDS MusicStream

MCFades == {<<2, 1>>, <<-1, 1>>}
=============================================================================
