--------------------------- MODULE BlipBuffers ---------------------------
(***************************************************************************)
(* The sample buffers between the sound chips and the caller: Blip_Buffer  *)
(* (Blip_Buffer.cpp), a span of time in 1/65536ths of a sample, and        *)
(* Effects_Buffer (Effects_Buffer.cpp), seven of them for each voice group *)
(* and the mixers that turn them into stereo. Of the samples a buffer      *)
(* holds, the model keeps one number: dirty, the count of samples from its *)
(* start that may hold the deltas of a sound. The sums, the levels and the *)
(* echo and reverb lines the mixers keep are left out.                     *)
(***************************************************************************)
EXTENDS Integers, FiniteSetsExt

One == 65536                        \* a sample, in blip_resampled_time_t (BLIP_BUFFER_ACCURACY)
Widest == 16                        \* blip_widest_impulse_
Extra == Widest + 2                 \* blip_buffer_extra_
Latency == Widest \div 2            \* output_latency()
Msec == 50                          \* 1000 / 20, the length Classic_Emu asks for

\* set_sample_rate(): room for one more millisecond than was asked for.
BufferSize(rate) == (rate * (Msec + 1) + 999) \div 1000
Length(rate) == (BufferSize(rate) * 1000) \div rate - 1

\* clock_rate_factor(): floor(rate / clock * 65536 + 0.5).
Factor(rate, clock) ==
    LET half == rate * 32768
    IN 2 * (half \div clock) + (4 * (half % clock) + clock) \div (2 * clock)

----------------------------------------------------------------------------
\* Blip_Buffer

NewBlip == [offset |-> 0, dirty |-> 0]
Avail(b) == b.offset \div One
\* What a chip adds until the end of a frame reaches half an impulse's width and more past it.
AddDeltas(b, t, factor) ==
    [b EXCEPT !.dirty = (b.offset + t * factor) \div One + Widest]
EndTime(b, t, factor) == [b EXCEPT !.offset = @ + t * factor]
RemoveSilence(b, n) == [b EXCEPT !.offset = @ - n * One]
RemoveSamples(b, n) ==
    IF n = 0 THEN b
    ELSE [RemoveSilence(b, n) EXCEPT !.dirty = IF @ > n THEN @ - n ELSE 0]

----------------------------------------------------------------------------
\* Effects_Buffer: groups of seven. bufs is indexed as the code does.

PerVoice == 7
Index(v, i) == v * PerVoice + i
Side(i) == i % PerVoice

NewEffects(groups) ==
    [groups |-> groups, bufs |-> [b \in 0 .. groups * PerVoice - 1 |-> NewBlip],
     enabled |-> FALSE, config |-> FALSE, stereo |-> 0, effect |-> 0, changes |-> 2]

\* config(): the outputs of the channels move, and channels_changed() says so.
SetDepth(fx, on) == [fx EXCEPT !.config = on, !.changes = @ + 1]

ClearAll(fx) ==
    [fx EXCEPT !.stereo = 0, !.effect = 0, !.bufs = [b \in DOMAIN @ |-> NewBlip]]

\* channel(): the kind of a voice's sound picks one of three outputs; a voice with no type,
\* its number. A type is [noise, index], NoType is 0.
NoType == [noise |-> FALSE, index |-> -1]
Output(i, type) ==
    IF type = NoType THEN (IF i % 5 > 2 THEN 2 ELSE i % 5)
    ELSE IF ~type.noise /\ type.index % 3 # 0 THEN type.index % 2
    ELSE 2
\* The center of that output: a buffer of its own with effects, else the group's first.
Center(fx, i, type) ==
    Index(i % fx.groups, IF fx.config THEN Output(i, type) ELSE 0)

Sides(fx) == IF fx.config THEN 3 .. 6 ELSE 1 .. 2
\* Mutant of EndEffectsFrame: effects that have just been turned off are forgotten at once.
EndFrameForgetsEffects(fx, modified, t, factor) ==
    LET bufs == [b \in DOMAIN fx.bufs |-> EndTime(fx.bufs[b], t, factor)]
        UsesSide(b) == \E a \in modified : /\ a <= b /\ a \div PerVoice = b \div PerVoice
                                           /\ Side(a) \in Sides(fx)
        Longest(remain, used) == Max({remain} \cup {Avail(bufs[b]) + Latency : b \in used})
    IN [fx EXCEPT !.bufs = bufs,
                  !.stereo = Longest(@, {b \in DOMAIN bufs : UsesSide(b)}),
                  !.effect = Longest(@, IF fx.config THEN DOMAIN bufs ELSE {}),
                  !.enabled = fx.config]

\* end_frame(): how long each kind of mixing is still needed, by the buffers that chips have
\* modified in this frame and by effects that were on in it or in the one before.
EndEffectsFrame(fx, modified, t, factor) ==
    LET bufs == [b \in DOMAIN fx.bufs |-> EndTime(fx.bufs[b], t, factor)]
        UsesSide(b) == \E a \in modified : /\ a <= b /\ a \div PerVoice = b \div PerVoice
                                           /\ Side(a) \in Sides(fx)
        Longest(remain, used) == Max({remain} \cup {Avail(bufs[b]) + Latency : b \in used})
    IN [fx EXCEPT !.bufs = bufs,
                  !.stereo = Longest(@, {b \in DOMAIN bufs : UsesSide(b)}),
                  !.effect = Longest(@, IF fx.enabled \/ fx.config THEN DOMAIN bufs ELSE {}),
                  !.enabled = fx.config]

\* The buffers each mixer adds up.
MixMono         == {0}
MixStereo       == {0, 1, 2}
MixMonoEnhanced == {2, 0, 1}
MixEnhanced     == {2, 3, 4, 5, 6, 0, 1}

\* One turn of the loop of read_samples(): the mixer, how many buffers it takes samples from,
\* and how many samples.
Mixer(fx) ==
    IF fx.effect > 0
    THEN IF fx.stereo > 0 THEN [heard |-> MixEnhanced, active |-> PerVoice]
                          ELSE [heard |-> MixMonoEnhanced, active |-> 3]
    ELSE IF fx.stereo > 0 THEN [heard |-> MixStereo, active |-> 3]
                          ELSE [heard |-> MixMono, active |-> 1]
\* Mutant of Count: as much as is wanted, available or not.
CountWanted(fx, remain) == IF fx.effect > 0 /\ remain > fx.effect THEN fx.effect ELSE remain
\* Mutant of Count: the limit of a mixer that is not in use.
CountOfAll(fx, remain) ==
    LET all == IF remain < Avail(fx.bufs[0]) THEN remain ELSE Avail(fx.bufs[0])
    IN IF all > fx.effect THEN fx.effect ELSE all
Count(fx, remain) ==
    LET all == IF remain < Avail(fx.bufs[0]) THEN remain ELSE Avail(fx.bufs[0])
    IN IF fx.effect > 0 /\ all > fx.effect THEN fx.effect ELSE all
\* Mutant of ReadChunk: the buffers that were not mixed stay as they are.
ReadChunkOfActive(fx, n) ==
    LET Left(remain) == IF remain > n THEN remain - n ELSE 0
    IN [fx EXCEPT !.stereo = Left(@), !.effect = Left(@),
                  !.bufs = [b \in DOMAIN @ |->
                               IF Side(b) < Mixer(fx).active THEN RemoveSamples(@[b], n) ELSE @[b]]]
ReadChunk(fx, n) ==
    LET Left(remain) == IF remain > n THEN remain - n ELSE 0
    IN [fx EXCEPT !.stereo = Left(@), !.effect = Left(@),
                  !.bufs = [b \in DOMAIN @ |->
                               IF Side(b) < Mixer(fx).active THEN RemoveSamples(@[b], n)
                                                            ELSE RemoveSilence(@[b], n)]]
==========================================================================
