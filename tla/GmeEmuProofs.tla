---------------------------- MODULE GmeEmuProofs ----------------------------
(***************************************************************************)
(* For every sample rate, size of page, file, playlist and size of block,  *)
(* and every order of the caller's calls: the emulator's time, from the    *)
(* frames the chips are run for to the samples the caller gets; what is    *)
(* known of a file, of its ROM's pages and of the buffers its voices add   *)
(* to; and that no sound in those buffers is passed over.                  *)
(***************************************************************************)
EXTENDS GmeEmu, WellFoundedInduction, TLAPS

\* A quotient and a remainder, by the lines they satisfy.
LEMMA Division ==
  ASSUME NEW n \in Int, NEW d \in Nat \ {0}
  PROVE  /\ n \div d \in Int /\ n % d \in Int
         /\ n = (n \div d) * d + (n % d) /\ 0 <= n % d /\ n % d < d
  OBVIOUS

LEMMA Scaling ==
  ASSUME NEW a \in Int, NEW b \in Int, a <= b, NEW f \in Nat PROVE a * f <= b * f
  OBVIOUS

LEMMA Multiples == ASSUME NEW a \in Int, NEW d \in Nat \ {0}, a >= 1 PROVE a * d >= d
  OBVIOUS

\* The quotient is the one number whose multiple is the last not beyond n.
LEMMA Quotient ==
  ASSUME NEW n \in Int, NEW d \in Nat \ {0}, NEW k \in Int,
         k * d <= n, n < k * d + d
  PROVE  n \div d = k
  <1> DEFINE m == n \div d
  <1>1. m \in Int /\ m * d <= n /\ n < m * d + d
    BY Division
  <1>2. CASE m >= k + 1
    <2>1. (m - k) * d >= d
      BY <1>1, <1>2, Multiples
    <2>2. (m - k) * d = m * d - k * d
      BY <1>1
    <2> QED
      BY <2>1, <2>2, <1>1
  <1>3. CASE k >= m + 1
    <2>1. (k - m) * d >= d
      BY <1>1, <1>3, Multiples
    <2>2. (k - m) * d = k * d - m * d
      BY <1>1
    <2> QED
      BY <2>1, <2>2, <1>1
  <1> QED
    BY <1>1, <1>2, <1>3

LEMMA QuotientBounds ==
  ASSUME NEW n \in Int, NEW d \in Nat \ {0}, NEW k \in Int, 0 <= n, n <= k * d
  PROVE  n \div d \in Nat /\ n \div d <= k
  <1> DEFINE q == n \div d
  <1>1. q \in Int /\ q * d <= n /\ n < q * d + d
    BY Division
  <1> SUFFICES q >= 0 /\ q <= k
    BY <1>1
  <1> HIDE DEF q
  <1>2. CASE q + 1 <= 0
    <2>1. (q + 1) * d <= 0 * d
      BY <1>1, <1>2, Scaling
    <2>2. (q + 1) * d = q * d + d /\ 0 * d = 0
      BY <1>1
    <2> QED
      BY <1>1, <2>1, <2>2
  <1>3. CASE k + 1 <= q
    <2>1. (k + 1) * d <= q * d
      BY <1>1, <1>3, Scaling
    <2>2. (k + 1) * d = k * d + d
      OBVIOUS
    <2> QED
      BY <1>1, <2>1, <2>2
  <1> QED
    BY <1>1, <1>2, <1>3

-----------------------------------------------------------------------------
\* The numbers of one frame. (Large literals are for the SMT solver alone.)

LEMMA RateInt == Rate \in Int
  BY RateAssumption, SMT
LEMMA RateLow == Rate >= 2000
  BY RateAssumption, SMT

LEMMA BufferSizeBounds ==
  /\ BufferSize(Rate) \in Nat
  /\ 1000 * BufferSize(Rate) >= 51 * Rate /\ 1000 * BufferSize(Rate) < 52 * Rate
  <1> DEFINE n == 51 * Rate + 999
  <1>1. BufferSize(Rate) = n \div 1000
    BY RateInt, SMT DEF BufferSize, Msec
  <1>2. n \in Int /\ 1000 \in Nat \ {0}
    BY RateInt, SMT
  <1>3. /\ n \div 1000 \in Int /\ n % 1000 \in Int
        /\ n = (n \div 1000) * 1000 + (n % 1000) /\ 0 <= n % 1000 /\ n % 1000 < 1000
    BY <1>2, Division, SMT
  <1> QED
    BY RateInt, RateLow, <1>1, <1>3, SMT

\* A frame is 50 ms at any rate: the buffer has a millisecond more.
LEMMA FrameLength == Length(Rate) = 50
  <1> DEFINE n == BufferSize(Rate) * 1000
  <1>1. n \in Int /\ 51 * Rate <= n /\ n < 51 * Rate + Rate
    BY RateInt, BufferSizeBounds, SMT
  <1>2. Rate \in Nat \ {0}
    BY RateInt, RateLow, SMT
  <1> HIDE DEF n
  <1>3. n \div Rate = 51
    BY <1>1, <1>2, Quotient, SMT
  <1> QED
    BY <1>3, SMT DEF Length, n

\* The factor is the rate in clocks, in 1/65536ths, rounded to the nearest.
LEMMA FactorBounds ==
  ASSUME NEW clock \in Nat \ {0}
  PROVE  /\ Factor(Rate, clock) \in Int
         /\ 2 * (clock * Factor(Rate, clock)) <= 131072 * Rate + clock
         /\ 2 * (clock * Factor(Rate, clock)) > 131072 * Rate - clock
  <1> DEFINE half == Rate * 32768
  <1>1. half \in Int /\ half = 32768 * Rate
    BY RateInt, SMT
  <1>3. half \in Int
    BY <1>1
  <1> HIDE DEF half
  <1>0. /\ half \div clock \in Int /\ half % clock \in Int
        /\ half = (half \div clock) * clock + (half % clock)
        /\ 0 <= half % clock /\ half % clock < clock
    BY <1>3, Division
  <1> DEFINE q == half \div clock
             r == half % clock
             n == 4 * r + clock
             p == n \div (2 * clock)
  <1>2. q \in Int /\ r \in Int /\ half = q * clock + r /\ 0 <= r /\ r < clock
    BY <1>0
  <1> HIDE DEF q, r
  <1>8. n \in Int /\ 2 * clock \in Nat \ {0}
    BY <1>2
  <1> HIDE DEF n
  <1>4. p \in Int /\ n % (2 * clock) \in Int /\ n = p * (2 * clock) + (n % (2 * clock))
        /\ 0 <= n % (2 * clock) /\ n % (2 * clock) < 2 * clock
    BY <1>8, Division
  <1> HIDE DEF p
  <1>5. Factor(Rate, clock) = 2 * q + p
    BY DEF Factor, half, q, r, n, p
  <1>6. p * (2 * clock) = 2 * (clock * p) /\ q * clock = clock * q
        /\ clock * (2 * q + p) = 2 * (clock * q) + clock * p
        /\ clock * q \in Int /\ clock * p \in Int
    BY <1>2, <1>4
  <1>7. n = 4 * r + clock
    BY DEF n
  <1> QED
    BY RateInt, <1>1, <1>2, <1>4, <1>5, <1>6, <1>7, SMT

\* Both regions' clocks, in units of One.
LEMMA Clockings ==
  ASSUME NEW clock \in {1662607, 1789773}
  PROVE  clock \in Nat \ {0} /\ 25 * One <= clock /\ clock <= 28 * One
  BY SMT DEF One

\* The clocks of a frame, whatever the last instruction adds, are more than the samples
\* an impulse is wide and less than the buffer has room for by a sample.
LEMMA FrameBounds ==
  ASSUME NEW clock \in Nat \ {0}, 25 * One <= clock, clock <= 28 * One,
         NEW over \in 0 .. 7
  PROVE  LET t == (Length(Rate) * clock) \div 1000 + over
         IN /\ t * Factor(Rate, clock) \in Int
            /\ t * Factor(Rate, clock) >= 16 * One
            /\ t * Factor(Rate, clock) <= (BufferSize(Rate) - 1) * One
  <1> DEFINE f == Factor(Rate, clock)
             c == (50 * clock) \div 1000
             t == c + over
  <1>1. /\ f \in Int /\ 2 * (clock * f) <= 131072 * Rate + clock
        /\ 2 * (clock * f) > 131072 * Rate - clock
    BY FactorBounds
  <1> HIDE DEF f
  <1>2. c \in Int /\ 1000 * c <= 50 * clock /\ 1000 * c > 50 * clock - 1000
    <2>1. 50 * clock \in Int /\ 1000 \in Nat \ {0}
      BY SMT
    <2>2. /\ c \in Int /\ (50 * clock) % 1000 \in Int
          /\ 50 * clock = c * 1000 + ((50 * clock) % 1000)
          /\ 0 <= (50 * clock) % 1000 /\ (50 * clock) % 1000 < 1000
      BY <2>1, Division
    <2> HIDE DEF c
    <2> QED
      BY <2>1, <2>2, SMT
  <1> HIDE DEF c
  <1>3. f >= 1
    <2>1. clock * f >= 1
      BY <1>1, RateInt, RateLow, SMT DEF One
    <2>2. CASE f <= 0
      <3>1. f * clock <= 0 * clock
        BY <1>1, <2>2, Scaling
      <3>2. f * clock = clock * f /\ 0 * clock = 0 /\ clock * f \in Int
        BY <1>1
      <3> QED
        BY <2>1, <3>1, <3>2
    <2> QED
      BY <1>1, <2>2
  <1>4. f \in Nat /\ t \in Int /\ over \in Int /\ 0 <= over /\ over <= 7 /\ c >= 0
    BY <1>1, <1>2, <1>3, SMT DEF One
  \* In 20ths, so that nothing is divided.
  <1>5. 25 * f <= Rate + 14
    <2>1. (25 * One) * f <= clock * f
      BY <1>4, Scaling, SMT DEF One
    <2> QED
      BY <1>1, <1>4, <2>1, RateInt, SMT DEF One
  <1>6. 20 * (c * f) <= clock * f /\ 20 * (c * f) >= clock * f - 19 * f
    <2>1. 20 * c <= clock /\ clock - 19 <= 20 * c
      BY <1>2, SMT
    <2>2. (20 * c) * f <= clock * f /\ (clock - 19) * f <= (20 * c) * f
      BY <1>2, <1>4, <2>1, Scaling
    <2>3. (20 * c) * f = 20 * (c * f) /\ (clock - 19) * f = clock * f - 19 * f
      BY <1>2, <1>4
    <2> QED
      BY <2>2, <2>3
  <1>7. 0 <= over * f /\ over * f <= 7 * f
    <2>1. 0 * f <= over * f /\ over * f <= 7 * f
      BY <1>4, Scaling
    <2> QED
      BY <1>4, <2>1
  <1>8. t * f = c * f + over * f /\ c * f \in Int /\ over * f \in Int /\ clock * f \in Int
    BY <1>2, <1>4
  <1> HIDE DEF t
  <1>9. t * f >= 16 * One
    BY <1>1, <1>4, <1>5, <1>6, <1>7, <1>8, RateInt, RateLow, SMT DEF One
  <1>10. t * f <= (BufferSize(Rate) - 1) * One
    BY <1>1, <1>4, <1>5, <1>6, <1>7, <1>8, RateInt, RateLow, BufferSizeBounds, SMT DEF One
  <1> QED
    BY <1>4, <1>8, <1>9, <1>10, FrameLength DEF f, c, t

-----------------------------------------------------------------------------
\* The inductive invariant: what the records hold, the time in the buffers, and
\* that only an emulator with a track of a loaded file is asked for samples.

Regions == {1662607, 1789773}
Blip == [offset : Int, dirty : Nat]

FxTyped(x) ==
  /\ x = [groups |-> x.groups, bufs |-> x.bufs, enabled |-> x.enabled, config |-> x.config,
          stereo |-> x.stereo, effect |-> x.effect, changes |-> x.changes]
  /\ x.groups \in {1, 8} /\ x.effect \in Int
  /\ x.bufs \in [0 .. x.groups * PerVoice - 1 -> Blip]

\* Either a file has loaded, and the clock is its region's, or there is no track.
EmuShaped(e) ==
  e = [chips |-> e.chips, voices |-> e.voices, muted |-> e.muted, seen |-> e.seen,
       clock |-> e.clock, pal |-> e.pal, rom |-> e.rom, banks |-> e.banks, map |-> e.map,
       raw |-> e.raw, tracks |-> e.tracks, list |-> e.list, track |-> e.track,
       started |-> e.started]
EmuTyped(e) ==
  /\ EmuShaped(e) /\ e.started \in BOOLEAN
  /\ e.clock \in Regions \/ (e.raw = 0 /\ e.tracks = 0 /\ e.started = FALSE)

\* Every buffer is at the same time, and in its room.
Synced(x, time) ==
  \A b \in DOMAIN x.bufs :
    /\ x.bufs[b].offset = time
    /\ x.bufs[b].dirty <= BufferSize(Rate) + Extra

InTime ==
  /\ FxTyped(fx) /\ due \in Nat /\ read \in Nat
  /\ Synced(fx, due - read * One)
  /\ 0 <= due - read * One /\ due - read * One < BufferSize(Rate) * One

IInv ==
  /\ InTime /\ EmuTyped(emu) /\ remain \in Nat
  /\ remain > 0 => alive /\ emu.started

LEMMA OneNat == One \in Nat \ {0}
  BY SMT DEF One

LEMMA ExtraNat == Extra \in Nat /\ Widest \in Nat /\ Widest < Extra /\ Latency \in Int
  BY SMT DEF Extra, Widest, Latency

\* A buffer is as long as its time: the first one stands for them all.
LEMMA Available ==
  ASSUME IInv
  PROVE  /\ 0 \in DOMAIN fx.bufs
         /\ Avail(fx.bufs[0]) = (due - read * One) \div One
         /\ Avail(fx.bufs[0]) \in Nat
         /\ Avail(fx.bufs[0]) * One <= due - read * One
         /\ due - read * One < Avail(fx.bufs[0]) * One + One
  <1> DEFINE n == due - read * One
  <1>1. 0 \in DOMAIN fx.bufs
    BY DEF IInv, InTime, FxTyped, PerVoice
  <1>2. fx.bufs[0].offset = n
    BY <1>1 DEF IInv, InTime, Synced
  <1>3. n \in Int /\ 0 <= n
    BY OneNat DEF IInv, InTime
  <1> HIDE DEF n
  <1>4. /\ n \div One \in Int /\ n % One \in Int
        /\ n = (n \div One) * One + (n % One) /\ 0 <= n % One /\ n % One < One
    BY <1>3, OneNat, Division
  <1>5. n \div One >= 0
    <2>1. BufferSize(Rate) \in Int /\ n <= BufferSize(Rate) * One
      BY BufferSizeBounds, OneNat DEF IInv, InTime, n
    <2> QED
      BY <1>3, <2>1, OneNat, QuotientBounds
  <1> QED
    BY <1>1, <1>2, <1>4, <1>5, OneNat DEF Avail, n

\* The turns of play_()'s loop: some samples, or a frame when there is not one.
LEMMA CountBounds ==
  ASSUME IInv
  PROVE  /\ Count(fx, remain) \in Nat /\ Count(fx, remain) <= remain
         /\ Count(fx, remain) <= Avail(fx.bufs[0])
         /\ remain > 0 /\ Count(fx, remain) = 0 => Avail(fx.bufs[0]) = 0
  <1>1. Avail(fx.bufs[0]) \in Nat /\ remain \in Nat /\ fx.effect \in Int
    BY Available DEF IInv, InTime, FxTyped
  <1> QED
    BY <1>1 DEF Count

LEMMA MaxOfTwo ==
  ASSUME NEW a \in Int, NEW b \in Int, NEW S, S \subseteq {a, b}, S # {}
  PROVE  Max(S) \in Int /\ \A y \in S : Max(S) >= y
  <1>1. \E x \in S : \A y \in S : x >= y
    <2>1. CASE a \in S /\ b \in S
      BY <2>1
    <2>2. CASE ~(a \in S /\ b \in S)
      <3>1. PICK x \in S : TRUE
        OBVIOUS
      <3>2. \A y \in S : y = x
        BY <2>2
      <3>3. x \in Int
        OBVIOUS
      <3> QED
        BY <3>2, <3>3
    <2> QED
      BY <2>1, <2>2
  <1> QED
    BY <1>1 DEF Max

\* A frame of the buffers: those in M are added to before it ends.
FrameOf(x, M, t, factor) ==
  EndEffectsFrame([x EXCEPT !.bufs = [b \in DOMAIN @ |->
                      IF b \in M THEN AddDeltas(@[b], t, factor) ELSE @[b]]], M, t, factor)

\* The end of a frame: every buffer is the frame's time longer, those in M hold sound to its
\* end, and if there are effects they last longer than it.
LEMMA EndOfFrame ==
  ASSUME NEW x, FxTyped(x), NEW time \in Int, Synced(x, time), NEW M,
         NEW t \in Int, NEW factor \in Int, t * factor \in Int, 0 <= time + t * factor,
         time + t * factor <= BufferSize(Rate) * One,
         NEW y, y = FrameOf(x, M, t, factor)
  PROVE  /\ FxTyped(y) /\ Synced(y, time + t * factor)
         /\ DOMAIN y.bufs = DOMAIN x.bufs /\ y.enabled = x.config
         /\ x.enabled \/ x.config => y.effect >= (time + t * factor) \div One + Latency
         /\ \A b \in DOMAIN x.bufs :
               y.bufs[b].dirty = IF b \in M THEN (time + t * factor) \div One + Widest
                                            ELSE x.bufs[b].dirty
  <1>. PICK z : /\ z = [x EXCEPT !.bufs = [b \in DOMAIN @ |->
                            IF b \in M THEN AddDeltas(@[b], t, factor) ELSE @[b]]]
                /\ y = EndEffectsFrame(z, M, t, factor)
    BY DEF FrameOf
  <1> DEFINE d == t * factor
             D == DOMAIN x.bufs
             bufs == [b \in DOMAIN z.bufs |-> EndTime(z.bufs[b], t, factor)]
  <1>1. /\ D = 0 .. x.groups * PerVoice - 1
        /\ \A b \in D : x.bufs[b] \in Blip /\ x.bufs[b].offset = time
                       /\ x.bufs[b].dirty <= BufferSize(Rate) + Extra
    BY DEF FxTyped, Synced
  <1>0. (time + d) \div One \in Nat /\ (time + d) \div One <= BufferSize(Rate)
    BY OneNat, BufferSizeBounds, QuotientBounds
  <1>2. z.bufs = [b \in D |-> IF b \in M THEN AddDeltas(x.bufs[b], t, factor) ELSE x.bufs[b]]
        /\ z.groups = x.groups /\ z.effect = x.effect /\ DOMAIN z.bufs = D
        /\ z.enabled = x.enabled /\ z.config = x.config
        /\ z = [groups |-> z.groups, bufs |-> z.bufs, enabled |-> z.enabled,
                config |-> z.config, stereo |-> z.stereo, effect |-> z.effect,
                changes |-> z.changes]
    BY DEF FxTyped
  <1> DEFINE Dirty(b) == IF b \in M THEN (time + d) \div One + Widest ELSE x.bufs[b].dirty
  <1>3. \A b \in D : /\ z.bufs[b] \in Blip /\ z.bufs[b].offset = time
                     /\ z.bufs[b].dirty <= BufferSize(Rate) + Extra
                     /\ z.bufs[b].dirty = Dirty(b)
    <2> SUFFICES ASSUME NEW b \in D
                 PROVE  /\ z.bufs[b] \in Blip /\ z.bufs[b].offset = time
                        /\ z.bufs[b].dirty <= BufferSize(Rate) + Extra
                        /\ z.bufs[b].dirty = Dirty(b)
      OBVIOUS
    <2>1. CASE b \notin M
      BY <1>1, <1>2, <2>1
    <2>2. CASE b \in M
      <3>1. z.bufs[b] = [x.bufs[b] EXCEPT !.dirty = (time + d) \div One + Widest]
        BY <1>1, <1>2, <2>2 DEF AddDeltas
      <3>2. (time + d) \div One + Widest \in Nat
            /\ (time + d) \div One + Widest <= BufferSize(Rate) + Extra
        BY <1>0, ExtraNat, BufferSizeBounds
      <3> QED
        BY <1>1, <2>2, <3>1, <3>2 DEF Blip
    <2> QED
      BY <2>1, <2>2
  <1> HIDE DEF Dirty
  <1>4. bufs \in [D -> Blip]
        /\ \A b \in D : /\ bufs[b].offset = time + d
                        /\ bufs[b].dirty <= BufferSize(Rate) + Extra
                        /\ bufs[b].dirty = Dirty(b)
    <2> SUFFICES ASSUME NEW b \in D
                 PROVE  /\ bufs[b] \in Blip /\ bufs[b].offset = time + d
                        /\ bufs[b].dirty <= BufferSize(Rate) + Extra
                        /\ bufs[b].dirty = Dirty(b)
      BY <1>2
    <2>1. bufs[b] = [z.bufs[b] EXCEPT !.offset = @ + d]
      BY DEF EndTime
    <2>2. d \in Int
      OBVIOUS
    <2> HIDE DEF d, bufs
    <2>3. PICK r \in Blip : r = z.bufs[b]
      BY <1>3
    <2>4. bufs[b] \in Blip /\ bufs[b].offset = r.offset + d /\ bufs[b].dirty = r.dirty
      BY <2>1, <2>2, <2>3 DEF Blip
    <2> QED
      BY <1>3, <2>3, <2>4
  <1>5. y.bufs = bufs /\ y.groups = z.groups /\ y.enabled = z.config
        /\ y = [groups |-> y.groups, bufs |-> y.bufs, enabled |-> y.enabled,
                config |-> y.config, stereo |-> y.stereo, effect |-> y.effect,
                changes |-> y.changes]
    BY <1>2 DEF EndEffectsFrame
  <1>6. /\ y.effect \in Int
        /\ z.enabled \/ z.config => y.effect >= (time + d) \div One + Latency
    <2> DEFINE used == IF z.enabled \/ z.config THEN DOMAIN bufs ELSE {}
               S == {z.effect} \cup {Avail(bufs[b]) + Latency : b \in used}
               v == (time + d) \div One + Latency
    <2>1. y.effect = Max(S)
      <3> DEFINE UsesSide(b) == \E a \in M : /\ a <= b
                                              /\ a \div PerVoice = b \div PerVoice
                                              /\ Side(a) \in Sides(z)
                 sided == {b \in DOMAIN bufs : UsesSide(b)}
                 stereo == Max({z.stereo} \cup {Avail(bufs[b]) + Latency : b \in sided})
                 effect == Max(S)
      <3>1. y = [z EXCEPT !.bufs = bufs, !.stereo = stereo, !.effect = effect,
                          !.enabled = z.config]
        BY Zenon DEF EndEffectsFrame
      <3> HIDE DEF stereo, effect, bufs
      <3>2. y.effect = effect
        BY <1>2, <3>1
      <3> QED
        BY <3>2 DEF effect
    <2>2. used \subseteq D
      OBVIOUS
    <2>3. \A b \in D : Avail(bufs[b]) + Latency = v
      BY <1>4 DEF Avail
    <2>4. z.effect \in Int /\ v \in Int
      BY <1>0, <1>2, ExtraNat DEF FxTyped
    <2>6. z.enabled \/ z.config => 0 \in used
      BY <1>1, <1>2 DEF FxTyped, PerVoice
    <2> HIDE DEF used, v
    <2>5. S \subseteq {z.effect, v} /\ S # {} /\ (0 \in used => v \in S)
      <3>1. S \subseteq {z.effect, v} /\ S # {}
        BY <2>2, <2>3
      <3>2. ASSUME 0 \in used PROVE v \in S
        <4>1. Avail(bufs[0]) + Latency = v
          BY <2>2, <2>3, <3>2
        <4> HIDE DEF bufs
        <4> QED
          BY <3>2, <4>1
      <3> QED
        BY <3>1, <3>2
    <2> HIDE DEF S
    <2>7. Max(S) \in Int /\ (0 \in used => Max(S) >= v)
      BY <2>4, <2>5, MaxOfTwo
    <2> QED
      BY <2>1, <2>6, <2>7 DEF v
  <1>7. bufs \in [0 .. y.groups * PerVoice - 1 -> Blip] /\ y.groups \in {1, 8}
    BY <1>1, <1>2, <1>4, <1>5 DEF FxTyped
  <1>8. FxTyped(y)
    BY <1>5, <1>6, <1>7 DEF FxTyped
  <1>9. Synced(y, time + d)
    <2>1. y.bufs = bufs /\ DOMAIN bufs = D
      BY <1>2, <1>5
    <2> HIDE DEF bufs, d
    <2> QED
      BY <1>4, <2>1 DEF Synced
  <1>10. DOMAIN y.bufs = D /\ \A b \in D : y.bufs[b].dirty = Dirty(b)
    <2>1. y.bufs = bufs /\ DOMAIN bufs = D
      BY <1>2, <1>5
    <2> HIDE DEF bufs, d
    <2> QED
      BY <1>4, <2>1
  <1> QED
    BY <1>2, <1>5, <1>6, <1>8, <1>9, <1>10 DEF Dirty

LEMMA NewIsTyped ==
  ASSUME NEW g \in {1, 8}
  PROVE  FxTyped(NewEffects(g)) /\ Synced(NewEffects(g), 0)
  <1>1. NewBlip \in Blip /\ NewBlip.offset = 0 /\ NewBlip.dirty = 0
    BY DEF NewBlip, Blip
  <1>2. 0 <= BufferSize(Rate) + Extra
    BY BufferSizeBounds, ExtraNat
  <1> QED
    BY <1>1, <1>2 DEF NewEffects, FxTyped, Synced

LEMMA ClearIsTyped ==
  ASSUME NEW x, FxTyped(x)
  PROVE  FxTyped(ClearAll(x)) /\ Synced(ClearAll(x), 0)
  <1>1. NewBlip \in Blip /\ NewBlip.offset = 0 /\ NewBlip.dirty = 0
    BY DEF NewBlip, Blip
  <1>2. 0 <= BufferSize(Rate) + Extra
    BY BufferSizeBounds, ExtraNat
  <1>0. PICK y : y = ClearAll(x)
    OBVIOUS
  <1>3. /\ y.bufs = [b \in DOMAIN x.bufs |-> NewBlip] /\ y.groups = x.groups /\ y.effect = 0
        /\ y = [groups |-> y.groups, bufs |-> y.bufs, enabled |-> y.enabled,
                config |-> y.config, stereo |-> y.stereo, effect |-> y.effect,
                changes |-> y.changes]
    BY <1>0 DEF ClearAll, FxTyped
  <1>4. DOMAIN x.bufs = 0 .. x.groups * PerVoice - 1 /\ x.groups \in {1, 8}
    BY DEF FxTyped
  <1>5. FxTyped(y)
    BY <1>1, <1>3, <1>4 DEF FxTyped
  <1>6. Synced(y, 0)
    BY <1>1, <1>2, <1>3 DEF Synced
  <1> QED
    BY <1>0, <1>5, <1>6

LEMMA DepthIsTyped ==
  ASSUME NEW x, FxTyped(x), NEW time \in Int, Synced(x, time), NEW on
  PROVE  FxTyped(SetDepth(x, on)) /\ Synced(SetDepth(x, on), time)
  <1>0. PICK y : y = SetDepth(x, on)
    OBVIOUS
  <1>1. /\ y.bufs = x.bufs /\ y.groups = x.groups /\ y.effect = x.effect
        /\ y = [groups |-> y.groups, bufs |-> y.bufs, enabled |-> y.enabled,
                config |-> y.config, stereo |-> y.stereo, effect |-> y.effect,
                changes |-> y.changes]
    BY <1>0 DEF SetDepth, FxTyped
  <1>2. FxTyped(y) /\ Synced(y, time)
    BY <1>1 DEF FxTyped, Synced
  <1> QED
    BY <1>0, <1>2

\* Samples go from every buffer, whether its samples were mixed or not.
LEMMA ReadIsTyped ==
  ASSUME NEW x, FxTyped(x), NEW time \in Int, Synced(x, time), NEW n \in Nat, n > 0
  PROVE  FxTyped(ReadChunk(x, n)) /\ Synced(ReadChunk(x, n), time - n * One)
  <1> DEFINE D == DOMAIN x.bufs
  <1>0. PICK y : y = ReadChunk(x, n)
    OBVIOUS
  <1>1. /\ D = 0 .. x.groups * PerVoice - 1
        /\ \A b \in D : x.bufs[b] \in Blip /\ x.bufs[b].offset = time
                       /\ x.bufs[b].dirty <= BufferSize(Rate) + Extra
    BY DEF FxTyped, Synced
  <1>2. /\ y.bufs = [b \in D |-> IF Side(b) < Mixer(x).active THEN RemoveSamples(x.bufs[b], n)
                                                           ELSE RemoveSilence(x.bufs[b], n)]
        /\ y.groups = x.groups
        /\ y.effect = IF x.effect > n THEN x.effect - n ELSE 0
        /\ y = [groups |-> y.groups, bufs |-> y.bufs, enabled |-> y.enabled,
                config |-> y.config, stereo |-> y.stereo, effect |-> y.effect,
                changes |-> y.changes]
    BY <1>0 DEF ReadChunk, FxTyped
  <1>3. ASSUME NEW b \in D
        PROVE  /\ y.bufs[b] \in Blip /\ y.bufs[b].offset = time - n * One
               /\ y.bufs[b].dirty <= BufferSize(Rate) + Extra
    <2>1. PICK r \in Blip : r = x.bufs[b] /\ r.offset = time
                            /\ r.dirty <= BufferSize(Rate) + Extra
      BY <1>1
    <2> DEFINE silent == RemoveSilence(r, n)
    <2>2. n * One \in Int
      BY OneNat
    <2>3. silent \in Blip /\ silent.offset = time - n * One /\ silent.dirty = r.dirty
      <3>1. silent = [r EXCEPT !.offset = @ - n * One]
        BY DEF RemoveSilence
      <3> HIDE DEF silent
      <3> QED
        BY <2>1, <2>2, <3>1 DEF Blip
    <2> HIDE DEF silent
    <2>4. RemoveSamples(r, n) = [silent EXCEPT !.dirty = IF @ > n THEN @ - n ELSE 0]
      BY DEF RemoveSamples, silent
    <2>5. /\ RemoveSamples(r, n) \in Blip
          /\ RemoveSamples(r, n).offset = time - n * One
          /\ RemoveSamples(r, n).dirty <= r.dirty
      BY <2>3, <2>4 DEF Blip
    <2>6. r.dirty \in Nat /\ RemoveSamples(r, n).dirty \in Nat
      BY <2>1, <2>5 DEF Blip
    <2>7. y.bufs[b] = RemoveSamples(r, n) \/ y.bufs[b] = silent
      BY <1>2, <2>1 DEF silent
    <2> QED
      BY <2>1, <2>3, <2>5, <2>6, <2>7, BufferSizeBounds, ExtraNat
  <1>4. y.bufs \in [0 .. y.groups * PerVoice - 1 -> Blip] /\ y.groups \in {1, 8}
        /\ y.effect \in Int
    <2>1. x.groups \in {1, 8} /\ x.effect \in Int
      BY DEF FxTyped
    <2>2. y.bufs = [b \in D |-> y.bufs[b]]
      BY <1>2
    <2>3. y.bufs \in [D -> Blip]
      BY <1>3, <2>2
    <2> QED
      BY <1>1, <1>2, <2>1, <2>3
  <1>5. FxTyped(y)
    BY <1>2, <1>4 DEF FxTyped
  <1>6. Synced(y, time - n * One)
    BY <1>2, <1>3 DEF Synced
  <1> QED
    BY <1>0, <1>5, <1>6

\* What a load leaves is an emulator with its region's clock, or without a track.
LEMMA NewEmuTyped == EmuTyped(NewEmu)
  BY DEF NewEmu, EmuTyped, EmuShaped

LEMMA ClearTrackVarsShaped ==
  ASSUME NEW e, EmuShaped(e), NEW y, y = ClearTrackVars(e)
  PROVE  EmuShaped(y) /\ y.started = FALSE
         /\ y.clock = e.clock /\ y.raw = e.raw /\ y.tracks = e.tracks
  BY DEF ClearTrackVars, EmuShaped

LEMMA ClearPlaylistShaped ==
  ASSUME NEW e, EmuShaped(e), NEW y, y = ClearPlaylist(e)
  PROVE  EmuShaped(y) /\ y.tracks = e.raw
         /\ y.clock = e.clock /\ y.raw = e.raw /\ y.started = e.started
  BY DEF ClearPlaylist, EmuShaped

LEMMA UnloadIsTyped ==
  ASSUME NEW e, EmuShaped(e)
  PROVE  EmuTyped(Unload(e)) /\ EmuShaped(Unload(e)) /\ Unload(e).started = FALSE
  <1>1. PICK a : a = [e EXCEPT !.chips = {}, !.rom.bytes = 0, !.voices = 0]
    OBVIOUS
  <1>2. EmuShaped(a)
    BY <1>1 DEF EmuShaped
  <1>3. PICK b : b = ClearTrackVars(a)
    OBVIOUS
  <1>4. EmuShaped(b) /\ b.started = FALSE
    BY <1>2, <1>3, ClearTrackVarsShaped
  <1>5. PICK c : c = ClearPlaylist(b)
    OBVIOUS
  <1>6. EmuShaped(c) /\ c.started = FALSE
    BY <1>4, <1>5, ClearPlaylistShaped
  <1>7. PICK d : d = [c EXCEPT !.tracks = 0, !.raw = 0]
    OBVIOUS
  <1>8. EmuShaped(d) /\ d.started = FALSE /\ d.raw = 0 /\ d.tracks = 0
    BY <1>6, <1>7 DEF EmuShaped
  <1>9. Unload(e) = d
    BY <1>1, <1>3, <1>5, <1>7 DEF Unload, UnloadFile
  <1> QED
    BY <1>8, <1>9 DEF EmuTyped

LEMMA LoadIsTyped ==
  ASSUME NEW e, EmuShaped(e), e.started = FALSE, NEW x, NEW f
  PROVE  EmuTyped(PostLoad(LoadNsf(e, x, f)))
  <1> DEFINE r == LoadNsf(e, x, f)
  <1>1. EmuShaped(r.emu)
    BY DEF LoadNsf, EmuShaped
  <1>2. r.err = "" => r.emu.clock = ClockRate(f.pal) /\ r.emu.started = e.started
    BY DEF LoadNsf, EmuShaped
  <1>3. ClockRate(f.pal) \in Regions
    BY SMT DEF ClockRate, Regions
  <1> HIDE DEF r
  <1>4. EmuTyped(Unload(r.emu))
    BY <1>1, UnloadIsTyped
  <1>5. CASE r.err = ""
    BY <1>1, <1>2, <1>3, <1>5 DEF PostLoad, EmuTyped, r
  <1>6. CASE r.err # ""
    BY <1>4, <1>6 DEF PostLoad, r
  <1> QED
    BY <1>5, <1>6

-----------------------------------------------------------------------------
LEMMA EmptyInTime ==
  ASSUME FxTyped(fx'), Synced(fx', 0), due' = 0, read' = 0
  PROVE  InTime'
  <1>1. 0 - 0 * One = 0 /\ 0 < BufferSize(Rate) * One
    BY OneNat, BufferSizeBounds, RateLow, RateInt, SMT DEF One
  <1>2. due' - read' * One = 0
    BY <1>1
  <1> QED
    BY <1>1, <1>2 DEF InTime

LEMMA InitIInv == Init => IInv
  <1> SUFFICES ASSUME Init PROVE IInv
    OBVIOUS
  <1>1. PICK g \in Groups : fx = NewEffects(g)
    BY DEF Init
  <1>2. FxTyped(fx) /\ Synced(fx, 0)
    BY <1>1, NewIsTyped, GroupsAssumption
  <1>3. due - read * One = 0 /\ due = 0 /\ read = 0 /\ remain = 0 /\ emu = NewEmu
    BY OneNat DEF Init
  <1>4. 0 < BufferSize(Rate) * One
    BY BufferSizeBounds, RateLow, RateInt, SMT DEF One
  <1>5. InTime
    BY <1>2, <1>3, <1>4 DEF InTime
  <1> QED
    BY <1>3, <1>5, NewEmuTyped DEF IInv

LEMMA UnchangedInTime == InTime /\ UNCHANGED <<fx, due, read>> => InTime'
  BY DEF InTime

LEMMA RenewedInTime ==
  ASSUME NEW g \in {1, 8}, Renewed(g) PROVE InTime' /\ remain' = 0
  BY NewIsTyped, EmptyInTime DEF Renewed

\* A new emulator, or none; what was loaded into it leaves it shaped.
LEMMA LifeKeeps ==
  ASSUME IInv, \/ \E g \in Groups : New(g)
               \/ \E f \in Files, by_path \in BOOLEAN : Open(f, by_path)
               \/ Delete
  PROVE  IInv'
  <1>1. CASE \E g \in Groups : New(g)
    BY <1>1, RenewedInTime, NewEmuTyped, GroupsAssumption DEF New, IInv
  <1>2. CASE Delete
    <2>1. fx.groups \in {1, 8}
      BY DEF IInv, InTime, FxTyped
    <2> QED
      BY <1>2, <2>1, RenewedInTime, NewEmuTyped DEF Delete, IInv
  <1>3. CASE \E f \in Files, by_path \in BOOLEAN : Open(f, by_path)
    <2>1. PICK f \in Files, by_path \in BOOLEAN : Open(f, by_path)
      BY <1>3
    <2>2. CASE UNCHANGED <<alive, emu, osc, fx, remain, due, read>>
      BY <2>2, UnchangedInTime DEF IInv
    <2>3. CASE /\ Renewed(1)
               /\ LoadInto(NewEmu, NewEffects(1), [w \in AllOscillators |-> NoBuffer], f)
      <3>1. emu' = PostLoad(LoadNsf(Unload(NewEmu), NewEffects(1), f))
        BY <2>3 DEF LoadInto
      <3>2. EmuTyped(emu')
        <4>1. EmuShaped(Unload(NewEmu)) /\ Unload(NewEmu).started = FALSE
          BY UnloadIsTyped, NewEmuTyped DEF EmuTyped
        <4> QED
          BY <3>1, <4>1, LoadIsTyped
      <3> QED
        BY <2>3, <3>2, RenewedInTime DEF IInv
    <2> QED
      BY <2>1, <2>2, <2>3 DEF Open
  <1> QED
    BY <1>1, <1>2, <1>3

\* Loads, playlists and masks leave the buffers alone.
LEMMA FilesKeep ==
  ASSUME IInv, \/ \E f \in Files : Load(f)
               \/ LoadNothing
               \/ \E p \in Playlists : LoadM3u(p)
               \/ DropPlaylist
               \/ \E mask \in Masks : Mute(mask)
  PROVE  IInv'
  <1>1. EmuTyped(emu) /\ EmuShaped(emu)
    BY DEF IInv, EmuTyped
  <1>2. SUFFICES ASSUME SameSound, Idle PROVE EmuTyped(emu')
    <2>1. SameSound /\ Idle
      BY DEF Load, LoadNothing, LoadM3u, DropPlaylist, Mute
    <2>2. InTime' /\ remain' = 0
      BY <2>1, UnchangedInTime DEF SameSound, Idle, IInv
    <2> QED
      BY <2>1, <2>2 DEF IInv
  <1>3. CASE \E f \in Files : Load(f)
    <2>1. PICK f \in Files : Load(f)
      BY <1>3
    <2>2. emu' = PostLoad(LoadNsf(Unload(emu), fx, f))
      BY <2>1 DEF Load, LoadInto
    <2> QED
      BY <1>1, <2>2, UnloadIsTyped, LoadIsTyped
  <1>4. CASE LoadNothing
    BY <1>1, <1>4, UnloadIsTyped DEF LoadNothing
  <1>5. CASE \E p \in Playlists : LoadM3u(p)
    <2>1. PICK p \in Playlists : LoadM3u(p)
      BY <1>5
    <2>2. PICK list, n : emu' = [emu EXCEPT !.list = list, !.tracks = n]
      <3> DEFINE list == IF p[1] = "unread" THEN emu.list ELSE M3u!Parse(p[2]).entries
                 ok   == p[1] = "read" /\ M3u!Parse(p[2]).err = ""
      <3>1. emu' = [emu EXCEPT !.list = list, !.tracks = IF ok THEN Len(list) ELSE @]
        BY <2>1 DEF LoadM3u
      <3> HIDE DEF list, ok
      <3> QED
        BY <3>1
    <2>3. emu.raw > 0
      BY <2>1 DEF LoadM3u
    <2>4. emu.clock \in Regions
      BY <1>1, <2>3 DEF EmuTyped
    <2> QED
      BY <1>1, <2>2, <2>4 DEF EmuTyped, EmuShaped
  <1>6. CASE DropPlaylist
    <2>1. emu' = ClearPlaylist(emu)
      BY <1>6 DEF DropPlaylist
    <2>2. EmuShaped(emu') /\ emu'.tracks = emu.raw
          /\ emu'.clock = emu.clock /\ emu'.raw = emu.raw /\ emu'.started = emu.started
      BY <1>1, <2>1, ClearPlaylistShaped
    <2> QED
      BY <1>1, <2>2 DEF EmuTyped
  <1>7. CASE \E mask \in Masks : Mute(mask)
    <2>1. PICK mask \in Masks : Mute(mask)
      BY <1>7
    <2>2. emu' = [emu EXCEPT !.muted = mask]
      BY <2>1 DEF Mute
    <2> QED
      BY <1>1, <2>2 DEF EmuTyped, EmuShaped
  <1> QED
    BY <1>3, <1>4, <1>5, <1>6, <1>7

LEMMA StartTrackKeeps ==
  ASSUME IInv, NEW n \in 0 .. 3, StartTrack(n)
  PROVE  IInv'
  <1>1. EmuTyped(emu) /\ EmuShaped(emu) /\ InTime /\ remain = 0
    BY DEF IInv, EmuTyped, StartTrack, Idle
  <1>2. PICK stopped : stopped = ClearTrackVars(emu)
    OBVIOUS
  <1>3. /\ EmuShaped(stopped) /\ stopped.started = FALSE /\ stopped.clock = emu.clock
        /\ stopped.raw = emu.raw /\ stopped.tracks = emu.tracks
    BY <1>1, <1>2, ClearTrackVarsShaped
  <1>4. CASE RemapTrack(emu, n) = InvalidTrack
    <2>1. emu' = stopped /\ SameSound
      BY <1>2, <1>4 DEF StartTrack
    <2>2. EmuTyped(emu')
      BY <1>1, <1>3, <2>1 DEF EmuTyped
    <2> QED
      BY <1>1, <2>1, <2>2, UnchangedInTime DEF IInv, SameSound
  <1>5. CASE RemapTrack(emu, n) # InvalidTrack
    <2>1. PICK mine, map : emu' = [stopped EXCEPT !.track = mine, !.started = TRUE, !.map = map]
      BY <1>2, <1>5 DEF StartTrack
    <2>2. fx' = ClearAll(fx) /\ due' = 0 /\ read' = 0 /\ remain' = remain
      BY <1>5 DEF StartTrack
    <2>3. emu.tracks # 0
      BY <1>5 DEF RemapTrack
    <2>4. emu.clock \in Regions
      BY <1>1, <2>3 DEF EmuTyped
    <2>5. EmuTyped(emu')
      BY <1>3, <2>1, <2>4 DEF EmuTyped, EmuShaped
    <2>6. FxTyped(fx') /\ Synced(fx', 0)
      BY <1>1, <2>2, ClearIsTyped DEF InTime
    <2> QED
      BY <1>1, <2>2, <2>5, <2>6, EmptyInTime DEF IInv
  <1> QED
    BY <1>4, <1>5

LEMMA DepthKeeps ==
  ASSUME IInv, NEW on \in BOOLEAN, SetStereoDepth(on)
  PROVE  IInv'
  <1>1. fx' = SetDepth(fx, on) /\ UNCHANGED <<emu, remain, due, read, alive>>
    BY DEF SetStereoDepth
  <1>2. InTime'
    BY <1>1, DepthIsTyped, OneNat DEF IInv, InTime
  <1> QED
    BY <1>1, <1>2 DEF IInv

LEMMA PlayKeeps ==
  ASSUME IInv, NEW block \in Blocks, Play(block)
  PROVE  IInv'
  <1>1. UNCHANGED <<emu, fx, due, read, alive>> /\ alive /\ emu.started
    BY DEF Play, Idle
  <1>2. remain' \in Nat
    <2>1. fx.groups \in {1, 8} /\ block \in Nat /\ remain' = block \div (2 * fx.groups)
      BY BlocksAssumption DEF IInv, InTime, FxTyped, Play
    <2> QED
      BY <2>1
  <1> QED
    BY <1>1, <1>2, UnchangedInTime DEF IInv

LEMMA ReadKeeps ==
  ASSUME IInv, ReadSamples
  PROVE  IInv'
  <1> DEFINE n == Count(fx, remain)
  <1>1. /\ fx' = ReadChunk(fx, n) /\ n > 0 /\ remain' = remain - n /\ read' = read + n
        /\ UNCHANGED <<emu, due, alive>> /\ remain > 0
    BY DEF ReadSamples
  <1>2. n \in Nat /\ n <= remain /\ n <= Avail(fx.bufs[0])
    BY CountBounds
  <1> HIDE DEF n
  <1>3. InTime /\ remain \in Nat /\ alive /\ emu.started
    BY <1>1 DEF IInv
  <1>4. /\ due - read * One \in Int /\ read * One \in Int /\ n * One \in Int
        /\ due - (read + n) * One = due - read * One - n * One
    BY <1>2, <1>3, OneNat DEF InTime
  <1>5. n * One <= due - read * One
    <2>1. n * One <= Avail(fx.bufs[0]) * One
      BY <1>2, Available, OneNat, Scaling
    <2>2. Avail(fx.bufs[0]) * One <= due - read * One /\ Avail(fx.bufs[0]) * One \in Int
      BY Available, OneNat
    <2> QED
      BY <1>4, <2>1, <2>2
  <1>6. FxTyped(fx') /\ Synced(fx', due - read * One - n * One)
    BY <1>1, <1>2, <1>3, <1>4, ReadIsTyped DEF InTime
  <1>7. 0 <= n * One /\ BufferSize(Rate) * One \in Int
    <2>1. 0 * One <= n * One
      BY <1>2, OneNat, Scaling
    <2> QED
      BY <2>1, <1>2, OneNat, BufferSizeBounds
  <1>8. due' - read' * One = due - read * One - n * One
    BY <1>1, <1>4
  <1>9. InTime'
    BY <1>1, <1>2, <1>3, <1>4, <1>5, <1>6, <1>7, <1>8 DEF InTime
  <1> QED
    BY <1>1, <1>2, <1>3, <1>9 DEF IInv

\* The buffers that an oscillator adds to.
Modified(o) == {o[v] : v \in AllOscillators} \ {NoBuffer}

\* What a frame adds to every buffer.
LEMMA FrameStep ==
  ASSUME IInv, NEW over \in Overshoot, NEW w \in BankWrites, Frame(over, w)
  PROVE  \E d \in Nat :
           /\ d >= 16 * One /\ d <= (BufferSize(Rate) - 1) * One
           /\ due' = due + d /\ read' = read /\ remain' = remain /\ alive' = alive
           /\ FxTyped(fx') /\ Synced(fx', due - read * One + d)
           /\ due - read * One < One
           /\ EmuTyped(emu') /\ emu'.started = emu.started
           /\ DOMAIN fx'.bufs = DOMAIN fx.bufs /\ fx'.enabled = fx.config
           /\ fx.enabled \/ fx.config
                => fx'.effect >= (due - read * One + d) \div One + Latency
           /\ \A b \in DOMAIN fx.bufs :
                 fx'.bufs[b].dirty = IF b \in Modified(osc')
                                     THEN (due - read * One + d) \div One + Widest
                                     ELSE fx.bufs[b].dirty
  <1>1. InTime /\ EmuTyped(emu) /\ remain \in Nat /\ remain > 0 /\ Count(fx, remain) = 0
        /\ emu.started
    BY DEF IInv, Frame
  <1> DEFINE t    == Clocks(emu) + over
             f    == Factor(Rate, emu.clock)
             d    == t * f
             time == due - read * One
  <1>2. emu.clock \in Nat \ {0} /\ 25 * One <= emu.clock /\ emu.clock <= 28 * One
    BY <1>1, Clockings DEF EmuTyped, Regions
  <1>3. over \in 0 .. 7
    BY OvershootAssumption
  <1>4. d \in Int /\ d >= 16 * One /\ d <= (BufferSize(Rate) - 1) * One
    BY <1>2, <1>3, FrameBounds DEF Clocks
  <1>5. time \in Int /\ 0 <= time /\ time < One
    <2>1. Avail(fx.bufs[0]) = 0
      BY <1>1, CountBounds
    <2>2. time < Avail(fx.bufs[0]) * One + One
      BY Available
    <2>3. time \in Int /\ 0 <= time /\ 0 * One = 0
      BY <1>1, OneNat DEF InTime
    <2> HIDE DEF time
    <2> QED
      BY <2>1, <2>2, <2>3, OneNat
  <1>6. t \in Int /\ f \in Int
    <2>1. f \in Int
      BY <1>2, FactorBounds
    <2>2. Clocks(emu) \in Int
      BY <1>2, FrameLength DEF Clocks
    <2> QED
      BY <1>3, <2>1, <2>2
  <1>7. time + d <= BufferSize(Rate) * One /\ 0 <= time + d /\ d \in Nat
    <2>1. (BufferSize(Rate) - 1) * One = BufferSize(Rate) * One - One
          /\ BufferSize(Rate) * One \in Int
      BY BufferSizeBounds, OneNat
    <2> HIDE DEF d, time
    <2> QED
      BY <1>4, <1>5, <2>1, OneNat
  <1>8. PICK M : M = Modified(osc') /\ fx' = FrameOf(fx, M, t, f)
    BY DEF Frame, Modified, FrameOf
  <1>9. /\ FxTyped(fx') /\ Synced(fx', time + d)
        /\ DOMAIN fx'.bufs = DOMAIN fx.bufs /\ fx'.enabled = fx.config
        /\ fx.enabled \/ fx.config => fx'.effect >= (time + d) \div One + Latency
        /\ \A b \in DOMAIN fx.bufs :
              fx'.bufs[b].dirty = IF b \in M THEN (time + d) \div One + Widest
                                             ELSE fx.bufs[b].dirty
    <2>1. FxTyped(fx) /\ Synced(fx, time)
      BY <1>1 DEF InTime
    <2> HIDE DEF t, f, time
    <2>2. /\ t * f \in Int /\ time + t * f <= BufferSize(Rate) * One /\ 0 <= time + t * f
          /\ time \in Int /\ t \in Int /\ f \in Int
      BY <1>4, <1>5, <1>6, <1>7
    <2>3. PICK y : y = FrameOf(fx, M, t, f) /\ fx' = y
      BY <1>8
    <2>5. /\ FxTyped(y) /\ Synced(y, time + t * f)
          /\ DOMAIN y.bufs = DOMAIN fx.bufs /\ y.enabled = fx.config
          /\ fx.enabled \/ fx.config => y.effect >= (time + t * f) \div One + Latency
          /\ \A b \in DOMAIN fx.bufs :
                y.bufs[b].dirty = IF b \in M THEN (time + t * f) \div One + Widest
                                             ELSE fx.bufs[b].dirty
      BY <2>1, <2>2, <2>3, EndOfFrame
    <2> QED
      BY <2>3, <2>5
  <1>10. due' = due + d /\ read' = read /\ remain' = remain /\ alive' = alive
    BY DEF Frame
  <1>11. EmuTyped(emu') /\ emu'.started = emu.started
    <2>1. PICK map : emu' = [[emu EXCEPT !.seen = fx.changes] EXCEPT !.map = map]
      BY DEF Frame, SwitchBank
    <2> QED
      BY <1>1, <2>1 DEF EmuTyped, EmuShaped
  <1> HIDE DEF d, time
  <1> QED
    BY <1>4, <1>5, <1>7, <1>8, <1>9, <1>10, <1>11 DEF time

LEMMA FrameKeeps ==
  ASSUME IInv, NEW over \in Overshoot, NEW w \in BankWrites, Frame(over, w)
  PROVE  IInv'
  <1>1. PICK d \in Nat :
           /\ d >= 16 * One /\ d <= (BufferSize(Rate) - 1) * One
           /\ due' = due + d /\ read' = read /\ remain' = remain /\ alive' = alive
           /\ FxTyped(fx') /\ Synced(fx', due - read * One + d)
           /\ due - read * One < One
           /\ EmuTyped(emu') /\ emu'.started = emu.started
    BY FrameStep
  <1>2. /\ due \in Nat /\ read \in Nat /\ 0 <= due - read * One /\ read * One \in Int
        /\ BufferSize(Rate) * One \in Int
        /\ (BufferSize(Rate) - 1) * One = BufferSize(Rate) * One - One
    BY OneNat, BufferSizeBounds DEF IInv, InTime
  <1>3. due' - read' * One = due - read * One + d
    BY <1>1, <1>2
  <1>4. InTime'
    BY <1>1, <1>2, <1>3, OneNat DEF InTime
  <1> QED
    BY <1>1, <1>4 DEF IInv

LEMMA NextIInv == IInv /\ [Next]_vars => IInv'
  <1>1. IInv /\ UNCHANGED vars => IInv'
    BY UnchangedInTime DEF vars, IInv
  <1>2. IInv /\ PlayOn => IInv'
    BY ReadKeeps, FrameKeeps DEF PlayOn
  <1> QED
    BY <1>1, <1>2, LifeKeeps, FilesKeep, StartTrackKeeps, DepthKeeps, PlayKeeps DEF Next

\* The invariant of the emulator's time holds whatever the caller does.
THEOREM EmuInvariant == Spec => []IInv
  BY InitIInv, NextIInv, PTL DEF Spec

-----------------------------------------------------------------------------
\* Every buffer, mixed or not, keeps the time emulated less the samples delivered.
THEOREM TimeIsKept == Spec => []KeepsTime
  <1>1. IInv => KeepsTime
    BY DEF IInv, InTime, Synced, KeepsTime
  <1> QED
    BY <1>1, EmuInvariant, PTL

\* At every sample rate a frame fits in its buffer.
THEOREM FramesFitBuffer == Spec => []FramesFit
  <1>1. IInv => FramesFit
    <2> SUFFICES ASSUME IInv, NEW b \in DOMAIN fx.bufs
                 PROVE  /\ fx.bufs[b].offset \in 0 .. BufferSize(Rate) * One - 1
                        /\ fx.bufs[b].dirty \in 0 .. BufferSize(Rate) + Extra
      BY DEF FramesFit
    <2>1. /\ fx.bufs[b] \in Blip /\ fx.bufs[b].offset = due - read * One
          /\ fx.bufs[b].dirty <= BufferSize(Rate) + Extra
          /\ 0 <= due - read * One /\ due - read * One < BufferSize(Rate) * One
      BY DEF IInv, InTime, Synced, FxTyped
    <2>2. fx.bufs[b].offset \in Int /\ fx.bufs[b].dirty \in Nat
      BY <2>1 DEF Blip
    <2>3. BufferSize(Rate) * One \in Int /\ BufferSize(Rate) + Extra \in Int
      BY BufferSizeBounds, OneNat, ExtraNat
    <2> QED
      BY <2>1, <2>2, <2>3
  <1> QED
    BY <1>1, EmuInvariant, PTL

\* After a frame there is a sample to deliver.
LEMMA FrameAdvances ==
  ASSUME IInv, IInv', NEW over \in Overshoot, NEW w \in BankWrites, Frame(over, w)
  PROVE  remain' = remain /\ Count(fx, remain) = 0 /\ Count(fx', remain) > 0
  <1>1. PICK d \in Nat : /\ d >= 16 * One /\ due' = due + d /\ read' = read /\ remain' = remain
                         /\ Synced(fx', due - read * One + d)
    BY FrameStep
  <1>2. remain \in Nat /\ remain > 0 /\ Count(fx, remain) = 0
    BY DEF IInv, Frame
  <1>3. fx'.effect \in Int /\ 0 \in DOMAIN fx'.bufs
    BY DEF IInv, InTime, FxTyped, PerVoice
  <1> DEFINE time == due - read * One + d
             q    == time \div One
  <1>4. time \in Int /\ time >= One
    BY <1>1, OneNat DEF IInv, InTime
  <1>5. Avail(fx'.bufs[0]) = q
    BY <1>1, <1>3 DEF Synced, Avail
  <1> HIDE DEF time
  <1>6. q \in Int /\ q * One + One > time
    <2>1. /\ time \div One \in Int /\ time % One \in Int
          /\ time = (time \div One) * One + (time % One)
          /\ 0 <= time % One /\ time % One < One
      BY <1>4, OneNat, Division
    <2> QED
      BY <1>4, <2>1, OneNat
  <1> HIDE DEF q
  <1>7. q > 0
    <2>1. ASSUME q <= 0 PROVE FALSE
      <3>1. q * One <= 0 * One
        BY <1>6, <2>1, OneNat, Scaling
      <3>2. 0 * One = 0 /\ q * One \in Int
        BY <1>6, OneNat
      <3> QED
        BY <1>4, <1>6, <3>1, <3>2, OneNat
    <2> QED
      BY <1>6, <2>1
  <1>8. Count(fx', remain) > 0
    BY <1>2, <1>3, <1>5, <1>6, <1>7 DEF Count
  <1> QED
    BY <1>1, <1>2, <1>8

\* play_()'s loop never spins, at any sample rate: each turn takes samples, or makes some.
THEOREM LoopAdvances == Spec => PlayAdvances
  <1>1. ASSUME IInv, IInv', Next, remain > 0
        PROVE  \/ remain' < remain /\ read' > read
               \/ remain' = remain /\ Count(fx, remain) = 0 /\ Count(fx', remain) > 0
    <2>1. PlayOn
      <3>1. ~Idle /\ alive
        BY <1>1 DEF Idle, IInv
      <3>2. /\ \A g \in Groups : ~New(g)
            /\ \A f \in Files, by_path \in BOOLEAN : ~Open(f, by_path)
            /\ ~Delete /\ (\A f \in Files : ~Load(f)) /\ ~LoadNothing
            /\ (\A p \in Playlists : ~LoadM3u(p)) /\ ~DropPlaylist
            /\ (\A n \in 0 .. 3 : ~StartTrack(n)) /\ (\A mask \in Masks : ~Mute(mask))
            /\ (\A on \in BOOLEAN : ~SetStereoDepth(on)) /\ \A block \in Blocks : ~Play(block)
        BY <3>1 DEF New, Open, Delete, Load, LoadNothing, LoadM3u, DropPlaylist, StartTrack,
           Mute, SetStereoDepth, Play
      <3> QED
        BY <1>1, <3>2, Zenon DEF Next
    <2>2. CASE ReadSamples
      <3> DEFINE n == Count(fx, remain)
      <3>1. n \in Nat /\ n > 0 /\ remain' = remain - n /\ read' = read + n
        BY <1>1, <2>2, CountBounds DEF ReadSamples
      <3>2. remain \in Nat /\ read \in Nat
        BY <1>1 DEF IInv, InTime
      <3> HIDE DEF n
      <3> QED
        BY <3>1, <3>2
    <2>3. CASE \E over \in Overshoot, w \in BankWrites : Frame(over, w)
      BY <1>1, <2>3, FrameAdvances
    <2> QED
      BY <2>1, <2>2, <2>3 DEF PlayOn
  <1>2. IInv /\ IInv' /\ [Next]_vars
          => [remain > 0 => \/ remain' < remain /\ read' > read
                           \/ /\ remain' = remain /\ Count(fx, remain) = 0
                              /\ Count(fx', remain) > 0]_vars
    BY <1>1
  <1> QED
    BY <1>2, EmuInvariant, PTL DEF Spec, PlayAdvances

-----------------------------------------------------------------------------
\* Voices and oscillators: every oscillator of the chips has one voice.

Expansions == {"vrc6", "namco", "fme7", "fds", "mmc5", "vrc7"}
Chips(chips) == chips \cup {"apu"}
\* Where a chip's voices lie among all.
Span(chips, chip) == FirstVoice(chips)[chip] .. FirstVoice(chips)[chip] + OscCount[chip] - 1

LEMMA Spans ==
  ASSUME NEW chips, chips \subseteq Expansions
  PROVE  /\ VoiceCount(chips) \in Nat
         /\ \A c \in Chips(chips) :
               /\ FirstVoice(chips)[c] \in Nat /\ OscCount[c] \in Nat \ {0}
               /\ FirstVoice(chips)[c] + OscCount[c] <= VoiceCount(chips)
         /\ \A c, d \in Chips(chips), i \in Int : i \in Span(chips, c) /\ i \in Span(chips, d) => c = d
  <1> DEFINE V(chip) == IF chip \in chips THEN OscCount[chip] ELSE 0
             first == FirstVoice(chips)
  <1>1. /\ first["apu"] = 0 /\ first["vrc6"] = 5 /\ first["namco"] = first["vrc6"] + V("vrc6")
        /\ first["fme7"] = first["namco"] + V("namco") /\ first["fds"] = first["fme7"] + V("fme7")
        /\ first["mmc5"] = first["fds"] + V("fds") /\ first["vrc7"] = first["mmc5"] + V("mmc5")
        /\ VoiceCount(chips) = first["vrc7"] + V("vrc7")
    BY DEF FirstVoice, VoiceCount, OscCount
  <1>2. /\ OscCount["apu"] = 5 /\ OscCount["vrc6"] = 3 /\ OscCount["namco"] = 8
        /\ OscCount["fme7"] = 3 /\ OscCount["fds"] = 1 /\ OscCount["mmc5"] = 3
        /\ OscCount["vrc7"] = 6
    BY DEF OscCount
  <1>3. /\ \A c \in Expansions : V(c) \in {0, OscCount[c]}
        /\ \A c \in chips : V(c) = OscCount[c]
    OBVIOUS
  <1> HIDE DEF first, V
  <1>4. /\ \A c \in Expansions : first[c] \in Nat
        /\ VoiceCount(chips) \in Nat
    BY <1>1, <1>2, <1>3 DEF Expansions
  <1>5. ASSUME NEW c \in Chips(chips)
        PROVE  /\ first[c] \in Nat /\ OscCount[c] \in Nat \ {0}
               /\ first[c] + OscCount[c] <= VoiceCount(chips)
    BY <1>1, <1>2, <1>3, <1>4 DEF Expansions, Chips
  \* Chip after chip.
  <1>6. ASSUME NEW c \in Chips(chips), NEW d \in Chips(chips), c # d
        PROVE  first[c] + OscCount[c] <= first[d] \/ first[d] + OscCount[d] <= first[c]
    <2> DEFINE Order == <<"apu", "vrc6", "namco", "fme7", "fds", "mmc5", "vrc7">>
               Ends(e) == first[e] + (IF e = "apu" THEN 5 ELSE V(e))
    <2>1. /\ Ends("apu") = first["vrc6"] /\ Ends("vrc6") = first["namco"]
          /\ Ends("namco") = first["fme7"] /\ Ends("fme7") = first["fds"]
          /\ Ends("fds") = first["mmc5"] /\ Ends("mmc5") = first["vrc7"]
      BY <1>1
    <2>2. \A e \in Chips(chips) : Ends(e) = first[e] + OscCount[e]
      BY <1>2, <1>3 DEF Chips, Expansions
    <2>3. first["apu"] \in Nat /\ \A e \in Expansions : first[e] \in Nat /\ V(e) \in Nat
      BY <1>1, <1>2, <1>3, <1>4 DEF Expansions
    <2> HIDE DEF Ends
    <2>4. \A i, j \in 1 .. 7 : i < j => Ends(Order[i]) <= first[Order[j]]
      <3>1. /\ first["apu"] <= Ends("apu") /\ first["vrc6"] <= Ends("vrc6")
            /\ first["namco"] <= Ends("namco") /\ first["fme7"] <= Ends("fme7")
            /\ first["fds"] <= Ends("fds") /\ first["mmc5"] <= Ends("mmc5")
        BY <2>3 DEF Ends, Expansions
      <3>2. \A i \in 1 .. 6 : first[Order[i]] <= Ends(Order[i]) /\ Ends(Order[i]) = first[Order[i + 1]]
        BY <2>1, <3>1
      <3>3. \A i \in 1 .. 7 : first[Order[i]] \in Nat
        BY <2>3 DEF Expansions
      <3> DEFINE a == [i \in 1 .. 7 |-> first[Order[i]]]
      <3>4. /\ a \in [1 .. 7 -> Nat] /\ a[1] <= a[2] /\ a[2] <= a[3] /\ a[3] <= a[4]
            /\ a[4] <= a[5] /\ a[5] <= a[6] /\ a[6] <= a[7]
        BY <3>2, <3>3
      <3>5. \A i \in 1 .. 6 : Ends(Order[i]) = a[i + 1]
        BY <3>2
      <3>6. \A j \in 1 .. 7 : first[Order[j]] = a[j]
        OBVIOUS
      <3> HIDE DEF a, Order
      <3>7. \A i, j \in 1 .. 7 : i <= j => a[i] <= a[j]
        BY <3>4
      <3> QED
        BY <3>4, <3>5, <3>6, <3>7
    <2>5. PICK i, j \in 1 .. 7 : c = Order[i] /\ d = Order[j] /\ i # j
      <3>1. \A e \in Chips(chips) : \E i \in 1 .. 7 : e = Order[i]
        <4>1. \A e \in Chips(chips) : e \in {"apu", "vrc6", "namco", "fme7", "fds", "mmc5", "vrc7"}
          BY DEF Chips, Expansions
        <4>2. /\ Order[1] = "apu" /\ Order[2] = "vrc6" /\ Order[3] = "namco" /\ Order[4] = "fme7"
              /\ Order[5] = "fds" /\ Order[6] = "mmc5" /\ Order[7] = "vrc7"
          OBVIOUS
        <4> HIDE DEF Order
        <4>3. 1 \in 1 .. 7 /\ 2 \in 1 .. 7 /\ 3 \in 1 .. 7 /\ 4 \in 1 .. 7 /\ 5 \in 1 .. 7
              /\ 6 \in 1 .. 7 /\ 7 \in 1 .. 7
          OBVIOUS
        <4> QED
          BY <4>1, <4>2, <4>3, Zenon
      <3> QED
        BY <1>6, <3>1
    <2>6. i < j \/ j < i
      BY <2>5
    <2>7. Ends(c) <= first[d] \/ Ends(d) <= first[c]
      BY <2>4, <2>5, <2>6
    <2> QED
      BY <2>2, <2>7
  <1>7. ASSUME NEW c \in Chips(chips), NEW d \in Chips(chips), NEW i \in Int,
               i \in Span(chips, c), i \in Span(chips, d)
        PROVE  c = d
    <2>1. /\ first[c] <= i /\ i <= first[c] + OscCount[c] - 1
          /\ first[d] <= i /\ i <= first[d] + OscCount[d] - 1
      BY <1>5, <1>7 DEF Span, first
    <2> QED
      BY <1>5, <1>6, <2>1
  <1> QED
    BY <1>4, <1>5, <1>7 DEF first

\* The place of an oscillator among its chip's voices.
Place(w) == IF w[1] = "vrc6" THEN (w[2] + 1) % 3 ELSE w[2]
VoiceOf(chips, w) == FirstVoice(chips)[w[1]] + Place(w)

LEMMA VoiceOscIs ==
  ASSUME NEW chips, chips \subseteq Expansions, NEW c \in Chips(chips), NEW i \in Int,
         i \in Span(chips, c)
  PROVE  VoiceOsc(chips, i) = <<c, IF c = "vrc6" THEN (i - FirstVoice(chips)[c] + 2) % 3
                                   ELSE i - FirstVoice(chips)[c]>>
  <1> DEFINE first  == FirstVoice(chips)
             At(d)  == i - first[d]
             Has(d) == At(d) \in 0 .. OscCount[d] - 1
             Osc(d) == <<d, IF d = "vrc6" THEN (At(d) + 2) % 3 ELSE At(d)>>
             cs     == chips \cup {"apu"}
  <1>1. \A d \in cs : Has(d) <=> i \in Span(chips, d)
    <2>1. \A d \in cs : first[d] \in Nat /\ OscCount[d] \in Nat \ {0}
      BY Spans DEF Chips
    <2> HIDE DEF first
    <2>2. \A d \in cs : Has(d) <=> i \in first[d] .. first[d] + OscCount[d] - 1
      BY <2>1
    <2> QED
      BY <2>2 DEF Span, first
  <1>2. \A d \in cs : Has(d) <=> d = c
    BY <1>1, Spans DEF Chips
  <1>3. c \in cs
    BY DEF Chips
  <1>4. VoiceOsc(chips, i) = IF \E d \in cs : Has(d) THEN Osc(CHOOSE d \in cs : Has(d)) ELSE NoOsc
    BY Zenon DEF VoiceOsc
  <1> HIDE DEF Has, Osc, cs
  <1>5. (CHOOSE d \in cs : Has(d)) = c
    BY <1>2, <1>3
  <1>6. VoiceOsc(chips, i) = Osc(c)
    BY <1>2, <1>3, <1>4, <1>5
  <1> QED
    BY <1>6 DEF Osc

\* Every oscillator has one voice among those of the file, and no other.
LEMMA OneVoice ==
  ASSUME NEW chips, chips \subseteq Expansions, NEW c \in Chips(chips), NEW w \in Oscillators(c)
  PROVE  /\ VoiceOf(chips, w) \in 0 .. VoiceCount(chips) - 1
         /\ \A i \in 0 .. VoiceCount(chips) - 1 :
               VoiceOsc(chips, i) = w <=> i = VoiceOf(chips, w)
  <1> DEFINE first == FirstVoice(chips)
             v     == VoiceOf(chips, w)
  <1>1. /\ first[c] \in Nat /\ OscCount[c] \in Nat \ {0} /\ VoiceCount(chips) \in Nat
        /\ first[c] + OscCount[c] <= VoiceCount(chips)
    BY Spans
  <1>2. w = <<c, w[2]>> /\ w[1] = c /\ w[2] \in 0 .. OscCount[c] - 1
    BY DEF Oscillators
  <1>3. Place(w) \in 0 .. OscCount[c] - 1
        /\ (IF c = "vrc6" THEN (Place(w) + 2) % 3 ELSE Place(w)) = w[2]
        /\ \A p \in 0 .. OscCount[c] - 1 :
              (IF c = "vrc6" THEN (p + 2) % 3 ELSE p) = w[2] => p = Place(w)
    <2>1. CASE c = "vrc6"
      <3>1. OscCount[c] = 3
        BY <2>1 DEF OscCount
      <3>2. w[2] \in {0, 1, 2}
        BY <1>2, <3>1
      <3> QED
        BY <1>2, <2>1, <3>1, <3>2 DEF Place
    <2>2. CASE c # "vrc6"
      BY <1>2, <2>2 DEF Place
    <2> QED
      BY <2>1, <2>2
  <1>4. v = first[c] + Place(w)
    BY <1>2 DEF VoiceOf
  <1> HIDE DEF first, v
  <1>5. v \in Int /\ v \in 0 .. VoiceCount(chips) - 1 /\ v - first[c] = Place(w)
        /\ v \in first[c] .. first[c] + OscCount[c] - 1
    BY <1>1, <1>3, <1>4
  <1>6. VoiceOsc(chips, v) = w
    BY <1>2, <1>3, <1>5, VoiceOscIs DEF Span, first
  <1>7. ASSUME NEW i \in 0 .. VoiceCount(chips) - 1, VoiceOsc(chips, i) = w
        PROVE  i = v
    <2>1. i \in Int
      BY <1>1
    <2>2. PICK d \in Chips(chips) : i \in Span(chips, d)
      <3> DEFINE At(d)  == i - first[d]
                 Has(d) == At(d) \in 0 .. OscCount[d] - 1
                 Osc(d) == <<d, IF d = "vrc6" THEN (At(d) + 2) % 3 ELSE At(d)>>
                 cs     == chips \cup {"apu"}
      <3>1. VoiceOsc(chips, i)
              = IF \E d \in cs : Has(d) THEN Osc(CHOOSE d \in cs : Has(d)) ELSE NoOsc
        BY Zenon DEF VoiceOsc, first
      <3>2. w # NoOsc
        BY <1>2 DEF NoOsc, Chips, Expansions
      <3>3. PICK d \in cs : Has(d)
        BY <1>7, <3>1, <3>2
      <3>4. first[d] \in Nat /\ OscCount[d] \in Nat \ {0}
        BY Spans DEF Chips, first
      <3>5. i \in first[d] .. first[d] + OscCount[d] - 1
        BY <2>1, <3>3, <3>4
      <3> QED
        BY <3>5 DEF Chips, Span, first
    <2>3. w = <<d, IF d = "vrc6" THEN (i - first[d] + 2) % 3 ELSE i - first[d]>>
      BY <1>7, <2>1, <2>2, VoiceOscIs DEF first
    <2>4. d = c
      BY <1>2, <2>3
    <2>5. i - first[c] \in 0 .. OscCount[c] - 1
      BY <1>1, <2>1, <2>2, <2>4 DEF Span, first
    <2>6. i - first[c] = Place(w)
      BY <1>2, <1>3, <2>3, <2>4, <2>5
    <2> QED
      BY <1>1, <1>4, <2>1, <2>6, <1>3
  <1> QED
    BY <1>5, <1>6, <1>7 DEF v

-----------------------------------------------------------------------------
\* What the masks and the effects of now ask of every oscillator of the file's chips.

Follow(o, e, x) ==
  \A c \in Chips(e.chips) : \A w \in Oscillators(c) :
    \E beyond \in BeyondTypes : o[w] = Wanted(e, x, VoiceOf(e.chips, w), beyond)
\* No other oscillator is connected.
OthersSilent(o, e) ==
  /\ DOMAIN o = AllOscillators
  /\ \A w \in AllOscillators : w[1] \notin Chips(e.chips) => o[w] = NoBuffer

LEMMA OscNames ==
  ASSUME NEW w \in AllOscillators
  PROVE  w[1] \in Expansions \cup {"apu"} /\ w \in Oscillators(w[1]) /\ w # NoOsc
  BY DEF AllOscillators, Oscillators, OscCount, Expansions, NoOsc

LEMMA OscsOfChips ==
  ASSUME NEW c \in Expansions \cup {"apu"}, NEW w \in Oscillators(c)
  PROVE  w \in AllOscillators /\ w[1] = c
  BY DEF AllOscillators, Oscillators, OscCount, Expansions

LEMMA MuteReaches ==
  ASSUME NEW e, NEW x, NEW outputs, NEW beyond \in BeyondTypes,
         e.chips \subseteq Expansions, e.voices = VoiceCount(e.chips), OthersSilent(outputs, e)
  PROVE  LET o == MuteVoices(e, x, outputs, beyond) IN OthersSilent(o, e) /\ Follow(o, e, x)
  <1> DEFINE o         == MuteVoices(e, x, outputs, beyond)
             oscs      == [i \in 0 .. e.voices - 1 |-> VoiceOsc(e.chips, i)]
             Voices(w) == {i \in DOMAIN oscs : oscs[i] = w}
  <1>1. o = [w \in AllOscillators |->
               IF Voices(w) = {} THEN outputs[w] ELSE Wanted(e, x, Min(Voices(w)), beyond)]
    BY DEF MuteVoices, OthersSilent
  <1>2. \A w : Voices(w) = {i \in 0 .. VoiceCount(e.chips) - 1 : VoiceOsc(e.chips, i) = w}
    OBVIOUS
  <1> HIDE DEF o, Voices, oscs
  <1>3. ASSUME NEW w \in AllOscillators, w[1] \notin Chips(e.chips)
        PROVE  o[w] = NoBuffer
    <2>1. ASSUME NEW i \in 0 .. VoiceCount(e.chips) - 1, VoiceOsc(e.chips, i) = w
          PROVE  FALSE
      <3> DEFINE first  == FirstVoice(e.chips)
                 At(d)  == i - first[d]
                 Has(d) == At(d) \in 0 .. OscCount[d] - 1
                 Osc(d) == <<d, IF d = "vrc6" THEN (At(d) + 2) % 3 ELSE At(d)>>
                 cs     == e.chips \cup {"apu"}
      <3>1. VoiceOsc(e.chips, i)
              = IF \E d \in cs : Has(d) THEN Osc(CHOOSE d \in cs : Has(d)) ELSE NoOsc
        BY Zenon DEF VoiceOsc
      <3>2. PICK d \in cs : w = Osc(d)
        BY <2>1, <3>1, OscNames
      <3>3. w[1] = d
        BY <3>2
      <3> QED
        BY <1>3, <3>3 DEF Chips
    <2>2. Voices(w) = {}
      BY <1>2, <2>1
    <2> QED
      BY <1>1, <1>3, <2>2 DEF OthersSilent
  <1>4. ASSUME NEW c \in Chips(e.chips), NEW w \in Oscillators(c)
        PROVE  o[w] = Wanted(e, x, VoiceOf(e.chips, w), beyond)
    <2>1. /\ VoiceOf(e.chips, w) \in 0 .. VoiceCount(e.chips) - 1
          /\ \A i \in 0 .. VoiceCount(e.chips) - 1 :
               VoiceOsc(e.chips, i) = w <=> i = VoiceOf(e.chips, w)
      BY OneVoice
    <2> DEFINE v == VoiceOf(e.chips, w)
    <2> HIDE DEF v
    <2>2. Voices(w) = {v}
      BY <1>2, <2>1 DEF v
    <2>3. v \in Int
      BY <2>1, Spans DEF v
    <2>4. Min({v}) = v
      BY <2>3 DEF Min
    <2>5. w \in AllOscillators
      BY OscsOfChips DEF Chips
    <2>6. o[w] = Wanted(e, x, Min(Voices(w)), beyond)
      BY <1>1, <2>2, <2>5
    <2> QED
      BY <2>2, <2>4, <2>6 DEF v
  <1>5. DOMAIN o = AllOscillators
    BY <1>1
  <1>6. OthersSilent(o, e)
    BY <1>3, <1>5 DEF OthersSilent
  <1>7. Follow(o, e, x)
    BY <1>4 DEF Follow
  <1> QED
    BY <1>6, <1>7 DEF o

\* With no file there are no voices to reach.
LEMMA MuteOfNone ==
  ASSUME NEW e, NEW x, NEW outputs, NEW beyond, e.voices = 0, OthersSilent(outputs, e)
  PROVE  OthersSilent(MuteVoices(e, x, outputs, beyond), e)
  <1> DEFINE o         == MuteVoices(e, x, outputs, beyond)
             oscs      == [i \in 0 .. e.voices - 1 |-> VoiceOsc(e.chips, i)]
             Voices(w) == {i \in DOMAIN oscs : oscs[i] = w}
  <1>1. o = [w \in AllOscillators |->
               IF Voices(w) = {} THEN outputs[w] ELSE Wanted(e, x, Min(Voices(w)), beyond)]
    BY DEF MuteVoices, OthersSilent
  <1>2. \A w : Voices(w) = {}
    OBVIOUS
  <1> HIDE DEF o, Voices, oscs
  <1> QED
    BY <1>1, <1>2 DEF OthersSilent, o
-----------------------------------------------------------------------------
\* The ROM: powers of two, masks, and the pages a mask leaves.

LEMMA LessIsWellFounded ==
  \E R : /\ IsWellFoundedOn(R, Nat)
         /\ \A k, m \in Nat : k < m => <<k, m>> \in R
  <1> DEFINE R == OpToRel(<, Nat)
  <1>1. IsWellFoundedOn(R, Nat)
    BY NatLessThanWellFounded, Zenon
  <1>2. \A k, m \in Nat : k < m => <<k, m>> \in R
    BY Zenon DEF OpToRel
  <1> HIDE DEF R
  <1> QED
    BY <1>1, <1>2, Zenon

LEMMA LeastNumber ==
  ASSUME NEW T, T \subseteq Nat, T # {}
  PROVE  \E m \in T : \A k \in T : m <= k
  <1>1. PICK R : /\ IsWellFoundedOn(R, Nat)
                 /\ \A k, m \in Nat : k < m => <<k, m>> \in R
    BY LessIsWellFounded
  <1>2. PICK m \in T : \A k \in T : ~(<<k, m>> \in R)
    BY <1>1, WFMin, Zenon
  <1>3. \A k \in T : ~(k < m)
    BY <1>1, <1>2, Zenon
  <1> QED
    BY <1>3

\* A set that has 0, and with each number the next one, has them all.
LEMMA Induction ==
  ASSUME NEW T, 0 \in T, \A n \in Nat : n \in T => n + 1 \in T
  PROVE  \A n \in Nat : n \in T
  <1> SUFFICES ASSUME Nat \ T # {} PROVE FALSE
    OBVIOUS
  <1>1. PICK m \in Nat \ T : \A k \in Nat \ T : m <= k
    BY LeastNumber
  <1>2. m - 1 \in Nat
    BY <1>1
  <1>3. m - 1 \in T
    BY <1>1, <1>2
  <1> QED
    BY <1>1, <1>2, <1>3

\* The powers of two are what their recursive definition says.
BitsTo(n, f) == f = [i \in 0 .. n |-> IF i = 0 THEN 1 ELSE 2 * f[i - 1]]

LEMMA BitsExist == ASSUME NEW n \in Nat PROVE \E f : BitsTo(n, f)
  <1> DEFINE T == {m \in Nat : \E f : BitsTo(m, f)}
  <1>1. 0 \in T
    <2> DEFINE g == [i \in 0 .. 0 |-> 1]
    <2>1. BitsTo(0, g)
      BY DEF BitsTo
    <2> HIDE DEF g
    <2> QED
      BY <2>1
  <1>2. ASSUME NEW m \in Nat, m \in T PROVE m + 1 \in T
    <2>1. PICK f : BitsTo(m, f)
      BY <1>2
    <2> DEFINE g == [i \in 0 .. m + 1 |-> IF i = m + 1 THEN 2 * f[m] ELSE f[i]]
    <2>2. ASSUME NEW i \in 0 .. m + 1 PROVE g[i] = IF i = 0 THEN 1 ELSE 2 * g[i - 1]
      <3>1. CASE i = m + 1
        BY <3>1
      <3>2. CASE i # m + 1
        <4>1. i \in 0 .. m /\ (i = 0 \/ i - 1 \in 0 .. m + 1) /\ i - 1 # m + 1
          BY <3>2
        <4>2. f[i] = IF i = 0 THEN 1 ELSE 2 * f[i - 1]
          BY <2>1, <4>1 DEF BitsTo
        <4>3. g[i] = f[i] /\ (i # 0 => g[i - 1] = f[i - 1])
          BY <4>1
        <4> QED
          BY <4>2, <4>3
      <3> QED
        BY <3>1, <3>2
    <2>3. g = [i \in 0 .. m + 1 |-> g[i]]
      OBVIOUS
    <2> HIDE DEF g
    <2>4. BitsTo(m + 1, g)
      BY <2>2, <2>3 DEF BitsTo
    <2> QED
      BY <2>4
  <1> HIDE DEF T
  <1>3. \A m \in Nat : m \in T
    BY <1>1, <1>2, Induction
  <1> QED
    BY <1>3 DEF T

LEMMA BitsAgree ==
  ASSUME NEW n \in Nat, NEW m \in Nat, NEW f, NEW g, BitsTo(n, f), BitsTo(m, g), n <= m
  PROVE  \A i \in 0 .. n : f[i] = g[i]
  <1> DEFINE T == {i \in Nat : i <= n => f[i] = g[i]}
  <1>1. 0 \in T
    BY DEF BitsTo
  <1>2. ASSUME NEW i \in Nat, i \in T PROVE i + 1 \in T
    <2> SUFFICES ASSUME i + 1 <= n PROVE f[i + 1] = g[i + 1]
      OBVIOUS
    <2>1. f[i] = g[i]
      BY <1>2
    <2>2. i + 1 \in 0 .. n /\ i + 1 \in 0 .. m /\ i + 1 # 0 /\ i + 1 - 1 = i
      OBVIOUS
    <2>3. f[i + 1] = 2 * f[i]
      BY <2>2 DEF BitsTo
    <2>4. g[i + 1] = 2 * g[i]
      BY <2>2 DEF BitsTo
    <2> QED
      BY <2>1, <2>3, <2>4
  <1> HIDE DEF T
  <1>3. \A i \in Nat : i \in T
    BY <1>1, <1>2, Induction
  <1> QED
    BY <1>3 DEF T

LEMMA BitUnfolds == Bit[0] = 1 /\ \A k \in Nat : Bit[k + 1] = 2 * Bit[k]
  <1> DEFINE F == [n \in Nat |-> (CHOOSE f : BitsTo(n, f))[n]]
             Rec(f) == f = [shift \in Nat |-> IF shift = 0 THEN 1 ELSE 2 * f[shift - 1]]
  <1>1. ASSUME NEW n \in Nat PROVE F[n] = IF n = 0 THEN 1 ELSE 2 * F[n - 1]
    <2>1. PICK f : f = (CHOOSE h : BitsTo(n, h)) /\ BitsTo(n, f)
      BY BitsExist
    <2>2. F[n] = f[n]
      BY <2>1
    <2>4. n \in 0 .. n
      OBVIOUS
    <2>5. f[n] = IF n = 0 THEN 1 ELSE 2 * f[n - 1]
      BY <2>1, <2>4 DEF BitsTo
    <2>3. CASE n # 0
      <3>1. n - 1 \in Nat /\ n - 1 <= n /\ n - 1 \in 0 .. n - 1
        BY <2>3
      <3>2. PICK g : g = (CHOOSE h : BitsTo(n - 1, h)) /\ BitsTo(n - 1, g)
        BY <3>1, BitsExist
      <3>3. F[n - 1] = g[n - 1]
        BY <3>1, <3>2
      <3>4. g[n - 1] = f[n - 1]
        BY <2>1, <3>1, <3>2, BitsAgree
      <3> QED
        BY <2>2, <2>3, <2>5, <3>3, <3>4
    <2> QED
      BY <2>2, <2>3, <2>5
  <1>2. F = [n \in Nat |-> F[n]]
    OBVIOUS
  <1> HIDE DEF F
  <1>3. Rec(F)
    BY <1>1, <1>2
  <1>4. Bit = CHOOSE f : Rec(f)
    BY DEF Bit
  <1>5. Rec(Bit)
    <2> HIDE DEF Rec
    <2> QED
      BY <1>3, <1>4
  <1> HIDE DEF Bit
  <1>6. Bit[0] = 1
    BY <1>5
  <1>7. ASSUME NEW k \in Nat PROVE Bit[k + 1] = 2 * Bit[k]
    <2>1. k + 1 \in Nat /\ k + 1 # 0 /\ k + 1 - 1 = k
      OBVIOUS
    <2> QED
      BY <1>5, <2>1
  <1> QED
    BY <1>6, <1>7

\* A power of two is beyond its exponent.
LEMMA BitGrows == \A k \in Nat : Bit[k] \in Nat /\ Bit[k] > k
  <1> DEFINE T == {k \in Nat : Bit[k] \in Nat /\ Bit[k] > k}
  <1>1. 0 \in T
    BY BitUnfolds
  <1>2. ASSUME NEW k \in Nat, k \in T PROVE k + 1 \in T
    <2>1. Bit[k + 1] = 2 * Bit[k] /\ Bit[k] \in Nat /\ Bit[k] > k
      BY <1>2, BitUnfolds
    <2> QED
      BY <2>1
  <1> HIDE DEF T
  <1>3. \A k \in Nat : k \in T
    BY <1>1, <1>2, Induction
  <1> QED
    BY <1>3 DEF T

\* A power of two is a multiple of each smaller one.
LEMMA BitMultiple ==
  ASSUME NEW u \in Nat
  PROVE  \A d \in Nat : \E c \in Nat : c > d /\ Bit[u + d] = c * Bit[u]
  <1> DEFINE T == {d \in Nat : \E c \in Nat : c > d /\ Bit[u + d] = c * Bit[u]}
  <1>0. Bit[u] \in Nat
    BY BitGrows
  <1>1. 0 \in T
    <2>1. 1 > 0 /\ Bit[u + 0] = 1 * Bit[u]
      BY <1>0
    <2> QED
      BY <2>1
  <1>2. ASSUME NEW d \in Nat, d \in T PROVE d + 1 \in T
    <2>1. PICK c \in Nat : c > d /\ Bit[u + d] = c * Bit[u]
      BY <1>2
    <2>2. u + d \in Nat /\ u + (d + 1) = u + d + 1
      OBVIOUS
    <2>3. Bit[u + (d + 1)] = 2 * (c * Bit[u])
      BY <2>1, <2>2, BitUnfolds
    <2>4. 2 * (c * Bit[u]) = (2 * c) * Bit[u] /\ 2 * c \in Nat /\ 2 * c > d + 1
      BY <1>0, <2>1
    <2> QED
      BY <2>3, <2>4
  <1> HIDE DEF T
  <1>3. \A d \in Nat : d \in T
    BY <1>1, <1>2, Induction
  <1> QED
    BY <1>3 DEF T

LEMMA BitDivides ==
  ASSUME NEW u \in Nat, NEW k \in Nat, Bit[u] <= Bit[k]
  PROVE  \E c \in Nat \ {0} : Bit[k] = c * Bit[u]
  <1>1. Bit[u] \in Nat /\ Bit[k] \in Nat /\ Bit[u] > 0 /\ Bit[k] > 0
    BY BitGrows
  <1>2. CASE u <= k
    <2>1. k - u \in Nat /\ u + (k - u) = k
      BY <1>2
    <2>2. PICK c \in Nat : c > k - u /\ Bit[u + (k - u)] = c * Bit[u]
      BY <2>1, BitMultiple
    <2> QED
      BY <2>1, <2>2
  <1>3. CASE k < u
    <2>1. u - k \in Nat /\ k + (u - k) = u /\ u - k >= 1
      BY <1>3
    <2>2. PICK c \in Nat : c > u - k /\ Bit[k + (u - k)] = c * Bit[k]
      BY <2>1, BitMultiple
    <2>3. 2 * Bit[k] <= c * Bit[k]
      BY <1>1, <2>1, <2>2, Scaling
    <2> QED
      BY <1>1, <2>1, <2>2, <2>3
  <1> QED
    BY <1>2, <1>3

\* The mask is a power of two less one, and not below what it was made for.
LEMMA MaskIsBits ==
  ASSUME NEW n \in Nat
  PROVE  \E k \in Nat : MaskOf(n) = Bit[k] - 1 /\ n < Bit[k]
  <1> DEFINE Clears(shift) == n < Bit[shift]
             Least(shift)  == Clears(shift) /\ \A s \in 0 .. shift - 1 : ~Clears(s)
             S == {k \in Nat : Clears(k)}
  <1>1. n \in S
    BY BitGrows
  <1>2. PICK k \in S : \A j \in S : k <= j
    BY <1>1, LeastNumber
  <1>3. k \in 0 .. n /\ Least(k)
    <2>1. k <= n /\ k \in Nat /\ Clears(k)
      BY <1>1, <1>2
    <2>2. ASSUME NEW s \in 0 .. k - 1 PROVE ~Clears(s)
      BY <1>2, <2>1
    <2> QED
      BY <2>1, <2>2
  <1>4. MaskOf(n) = Bit[CHOOSE shift \in 0 .. n : Least(shift)] - 1
    BY DEF MaskOf
  <1> HIDE DEF Least
  <1>5. PICK j \in 0 .. n : j = (CHOOSE shift \in 0 .. n : Least(shift)) /\ Least(j)
    BY <1>3
  <1>6. j \in Nat
    OBVIOUS
  <1>7. n < Bit[j]
    BY <1>5 DEF Least
  <1> QED
    BY <1>4, <1>5, <1>6, <1>7

-----------------------------------------------------------------------------
\* The ROM: the vector set_addr() makes, and the pages of it that bank switches show.

RomShaped(rom) ==
  /\ rom.addr \in Int /\ rom.mask \in Nat /\ rom.size \in Nat
  /\ \E n \in Nat \ {0} : rom.size = n * Unit
  /\ \E n \in Nat \ {0} : rom.mask + 1 = n * Unit
  /\ rom.bytes = rom.size - rom.addr + PadExtra
  /\ 0 <= rom.addr + Pad /\ rom.addr + Pad <= rom.size

\* A page of the cartridge that lies in the vector, or the padding in front.
IsPage(rom, offset) ==
  \/ offset = 0
  \/ \E k \in Nat : /\ offset = k * Unit - rom.addr
                    /\ 0 <= offset /\ offset <= rom.bytes - Pad

LEMMA UnitNat == Unit \in Nat \ {0} /\ \E u \in Nat : Unit = Bit[u]
  BY UnitAssumption

LEMMA SetAddrShaped ==
  ASSUME NEW length \in Nat, length > HeaderSize, NEW a \in 0 .. Unit - 1
  PROVE  RomShaped(SetAddr(LoadRom(length, HeaderSize), a))
  <1> DEFINE file == length - HeaderSize
             n    == (a + file + Unit - 1) \div Unit
             size == n * Unit
             rom  == SetAddr(LoadRom(length, HeaderSize), a)
  <1>1. file \in Nat /\ file > 0 /\ a \in Nat /\ a < Unit /\ Unit \in Nat \ {0}
    BY UnitNat DEF HeaderSize
  <1>2. /\ rom.addr = a - Unit - PadExtra /\ rom.size = size /\ rom.mask = MaskOf(size - 1)
        /\ rom.bytes = size - (a - Unit - PadExtra) + PadExtra
    BY DEF SetAddr, LoadRom, NoRom, RoundUp
  <1> HIDE DEF rom, file
  <1>3. n \in Int /\ n * Unit > a + file - 1
    <2>1. a + file + Unit - 1 \in Int
      BY <1>1
    <2>2. /\ n \in Int /\ (a + file + Unit - 1) % Unit \in Int
          /\ a + file + Unit - 1 = n * Unit + ((a + file + Unit - 1) % Unit)
          /\ (a + file + Unit - 1) % Unit < Unit
      BY <1>1, <2>1, Division
    <2> HIDE DEF n
    <2>3. n * Unit \in Int
      BY <1>1, <2>2
    <2> QED
      BY <1>1, <2>2, <2>3
  <1> HIDE DEF n
  <1>4. n \in Nat \ {0}
    <2>1. CASE n <= 0
      <3>1. n * Unit <= 0 * Unit
        BY <1>1, <1>3, <2>1, Scaling
      <3> QED
        BY <1>1, <1>3, <3>1
    <2> QED
      BY <1>3, <2>1
  <1>5. size \in Nat /\ size >= Unit /\ size >= a + file
    <2>1. size \in Int
      BY <1>1, <1>4
    <2>2. n * Unit >= Unit
      BY <1>1, <1>4, Multiples
    <2> QED
      BY <1>1, <1>3, <2>1, <2>2
  <1>6. \E c \in Nat \ {0} : rom.mask + 1 = c * Unit
    <2>1. size - 1 \in Nat
      BY <1>1, <1>5
    <2>2. PICK k \in Nat : MaskOf(size - 1) = Bit[k] - 1 /\ size - 1 < Bit[k]
      BY <2>1, MaskIsBits
    <2>3. PICK u \in Nat : Unit = Bit[u]
      BY UnitNat
    <2>4. Bit[k] \in Nat /\ Bit[u] <= Bit[k]
      BY <1>1, <1>5, <2>2, <2>3, BitGrows
    <2>5. PICK c \in Nat \ {0} : Bit[k] = c * Unit
      BY <2>3, <2>4, BitDivides
    <2>6. rom.mask + 1 = c * Unit
      BY <1>2, <2>2, <2>4, <2>5
    <2> QED
      BY <2>6
  <1>7. rom.mask \in Nat
    <2>1. PICK c \in Nat \ {0} : rom.mask + 1 = c * Unit
      BY <1>6
    <2>2. size - 1 \in Nat
      BY <1>1, <1>5
    <2>3. PICK k \in Nat : MaskOf(size - 1) = Bit[k] - 1
      BY <2>2, MaskIsBits
    <2>4. Bit[k] \in Nat /\ Bit[k] > k
      BY BitGrows
    <2> QED
      BY <1>2, <2>3, <2>4
  <1>8. \E c \in Nat \ {0} : rom.size = c * Unit
    BY <1>2, <1>4
  <1> HIDE DEF size
  <1>9. /\ rom.addr \in Int /\ rom.size \in Nat /\ rom.bytes = rom.size - rom.addr + PadExtra
        /\ 0 <= rom.addr + Pad /\ rom.addr + Pad <= rom.size
    BY <1>1, <1>2, <1>5 DEF Pad, PadExtra
  <1> QED
    BY <1>6, <1>7, <1>8, <1>9 DEF RomShaped, rom

\* Pages wrap around as pages.
LEMMA PagesWrap ==
  ASSUME NEW k \in Nat, NEW n \in Nat \ {0}
  PROVE  \E j \in Nat : (k * Unit) % (n * Unit) = j * Unit
  <1> DEFINE q == k \div n
             r == k % n
             U == Unit
  <1>1. U \in Nat \ {0}
    BY UnitNat
  <1>2. q \in Int /\ r \in Int /\ k = q * n + r /\ 0 <= r /\ r < n
    BY Division
  <1> HIDE DEF q, r, U
  <1> DEFINE N == n * U
             K == k * U
  <1>3. N \in Nat \ {0} /\ K \in Nat
    <2>1. N >= U
      BY <1>1, Multiples
    <2>2. N \in Int /\ K \in Int
      BY <1>1
    <2>3. 0 * U <= k * U
      BY <1>1, Scaling
    <2> QED
      BY <1>1, <2>1, <2>2, <2>3
  <1>4. K = q * N + r * U /\ q * N \in Int /\ r * U \in Int
    <2>1. (q * n + r) * U = q * (n * U) + r * U
      BY <1>1, <1>2
    <2>2. K = (q * n + r) * U
      BY <1>2
    <2>3. q * N \in Int /\ r * U \in Int
      BY <1>1, <1>2, <1>3
    <2> QED
      BY <2>1, <2>2, <2>3
  <1>5. 0 <= r * U /\ r * U < N
    <2>1. 0 * U <= r * U /\ (r + 1) * U <= n * U
      BY <1>1, <1>2, Scaling
    <2>2. (r + 1) * U = r * U + U /\ 0 * U = 0
      BY <1>1, <1>2
    <2> QED
      BY <1>1, <1>3, <1>4, <2>1, <2>2
  <1> HIDE DEF N, K
  <1>6. K \div N = q
    BY <1>2, <1>3, <1>4, <1>5, Quotient
  <1>7. K % N = r * U
    <2> DEFINE qN == q * N
               rU == r * U
    <2>1. K % N \in Int /\ K = (K \div N) * N + (K % N)
      BY <1>3, Division
    <2>2. K = qN + (K % N)
      BY <1>6, <2>1
    <2>3. K = qN + rU /\ qN \in Int /\ rU \in Int
      BY <1>4
    <2> HIDE DEF qN, rU
    <2>4. K % N = rU
      BY <2>1, <2>2, <2>3
    <2> QED
      BY <2>4 DEF rU
  <1>8. r \in Nat
    BY <1>2
  <1> QED
    BY <1>7, <1>8 DEF K, N, U

LEMMA WindowIsPage ==
  ASSUME NEW rom, RomShaped(rom), NEW bank \in Nat
  PROVE  IsPage(rom, AtAddr(rom, MaskAddr(rom, bank * Unit)))
  <1>1. PICK n \in Nat \ {0} : rom.mask + 1 = n * Unit
    BY DEF RomShaped
  <1>2. PICK j \in Nat : MaskAddr(rom, bank * Unit) = j * Unit
    BY <1>1, PagesWrap DEF MaskAddr
  <1>3. PICK k \in Nat : MaskAddr(rom, j * Unit) = k * Unit
    BY <1>1, PagesWrap DEF MaskAddr
  <1> DEFINE offset == k * Unit - rom.addr
  <1>4. AtAddr(rom, MaskAddr(rom, bank * Unit))
          = IF offset < 0 \/ offset > rom.bytes - Pad THEN 0 ELSE offset
    BY <1>2, <1>3 DEF AtAddr
  <1>5. offset \in Int /\ rom.bytes - Pad \in Int
    <2>1. rom.addr \in Int /\ rom.bytes \in Int /\ Pad \in Int /\ k * Unit \in Int
      BY UnitNat DEF RomShaped, Pad, PadExtra
    <2> QED
      BY <2>1
  <1> DEFINE p == AtAddr(rom, MaskAddr(rom, bank * Unit))
  <1>6. p = 0 \/ (p = offset /\ 0 <= offset /\ offset <= rom.bytes - Pad)
    <2> HIDE DEF offset
    <2> QED
      BY <1>4, <1>5
  <1> HIDE DEF p
  <1> QED
    BY <1>6 DEF IsPage, p

\* A page is in the vector with what may be fetched past it, and shows the bytes of its address.
PageShows(rom, offset) ==
  /\ InRom(rom, offset)
  /\ offset > 0 =>
        \E k \in 0 .. rom.size \div Unit - 1 : \A j \in {0, Unit - 1} :
           LET a == k * Unit + j - (rom.addr + Unit + PadExtra)
           IN RomByte(rom, offset + j) = IF a \in 0 .. rom.file - 1 THEN a ELSE Filling

LEMMA PageIsShown ==
  ASSUME NEW rom, RomShaped(rom), NEW offset, IsPage(rom, offset)
  PROVE  PageShows(rom, offset)
  <1>1. /\ rom.addr \in Int /\ rom.size \in Nat /\ rom.bytes = rom.size - rom.addr + PadExtra
        /\ 0 <= rom.addr + Pad /\ rom.addr + Pad <= rom.size /\ Unit \in Nat \ {0}
        /\ Pad = Unit + PadExtra /\ PadExtra = 8
    BY UnitNat DEF RomShaped, Pad, PadExtra
  <1>2. CASE offset = 0
    <2>1. InRom(rom, 0)
      BY <1>1 DEF InRom
    <2> QED
      BY <1>2, <2>1 DEF PageShows
  <1>3. CASE offset # 0
    <2>1. PICK k \in Nat : offset = k * Unit - rom.addr
                           /\ 0 <= offset /\ offset <= rom.bytes - Pad
      BY <1>3 DEF IsPage
    <2>2. PICK n \in Nat \ {0} : rom.size = n * Unit
      BY DEF RomShaped
    <2>3. k * Unit \in Int /\ n * Unit \in Int /\ k * Unit + Unit <= n * Unit
      <3>1. k * Unit \in Int /\ n * Unit \in Int
        BY <1>1
      <3> QED
        BY <1>1, <2>1, <2>2, <3>1
    <2>4. k < n
      <3>1. CASE n <= k
        <4>1. n * Unit <= k * Unit
          BY <1>1, <3>1, Scaling
        <4> QED
          BY <1>1, <2>3, <4>1
      <3> QED
        BY <3>1
    <2>5. rom.size \div Unit = n
      <3>1. n * Unit <= rom.size /\ rom.size < n * Unit + Unit
        BY <1>1, <2>2, <2>3
      <3>2. rom.size \in Int /\ n \in Int
        BY <1>1
      <3> QED
        BY <1>1, <3>1, <3>2, Quotient
    <2>6. k \in 0 .. rom.size \div Unit - 1
      BY <2>4, <2>5
    <2>7. ASSUME NEW j \in {0, Unit - 1}
          PROVE  k * Unit + j - (rom.addr + Unit + PadExtra) = offset + j - Pad
      BY <1>1, <2>1, <2>3
    <2>8. InRom(rom, offset)
      BY <1>1, <2>1, <2>3 DEF InRom
    <2>9. \A j \in {0, Unit - 1} :
             LET a == k * Unit + j - (rom.addr + Unit + PadExtra)
             IN RomByte(rom, offset + j) = IF a \in 0 .. rom.file - 1 THEN a ELSE Filling
      <3> DEFINE a(j) == k * Unit + j - (rom.addr + Unit + PadExtra)
      <3>1. ASSUME NEW j \in {0, Unit - 1}
            PROVE  RomByte(rom, offset + j) = IF a(j) \in 0 .. rom.file - 1 THEN a(j) ELSE Filling
        <4>1. a(j) = offset + j - Pad
          BY <2>7
        <4>2. RomByte(rom, offset + j)
                = IF offset + j - Pad \in 0 .. rom.file - 1 THEN offset + j - Pad ELSE Filling
          <5>1. \A i : RomByte(rom, i) = IF i - Pad \in 0 .. rom.file - 1 THEN i - Pad ELSE Filling
            BY Zenon DEF RomByte
          <5>2. offset + j \in Int /\ Pad \in Int /\ offset \in Int /\ j \in Int
            BY <1>1, <2>1, <2>3
          <5> QED
            BY <5>1, <5>2
        <4> QED
          BY <4>1, <4>2
      <3> QED
        BY <3>1
    <2> QED
      BY <2>6, <2>8, <2>9 DEF PageShows
  <1> QED
    BY <1>2, <1>3

-----------------------------------------------------------------------------
\* What is known of a file: all of it, or nothing.

RomRecord(rom) ==
  rom = [bytes |-> rom.bytes, file |-> rom.file, addr |-> rom.addr, mask |-> rom.mask,
         size |-> rom.size]
FileShaped(e) ==
  /\ e.raw \in Nat /\ (e.tracks = 0 <=> e.raw = 0) /\ RomRecord(e.rom)
  /\ e.raw = 0 => /\ e.rom.bytes = 0 /\ e.chips = {} /\ e.voices = 0 /\ e.list = <<>>
                  /\ e.started = FALSE
  /\ e.raw # 0 => /\ e.chips \subseteq Expansions /\ e.voices = VoiceCount(e.chips)
                  /\ RomShaped(e.rom) /\ e.banks \in [1 .. BankCount -> Nat]
  /\ e.started => /\ DOMAIN e.map = 1 .. BankCount
                  /\ \A i \in 1 .. BankCount : IsPage(e.rom, e.map[i])
\* No change of the effects is passed over, and until there is one the voices are right.
Told(o, e, x) ==
  /\ e.seen \in Nat /\ x.changes \in Nat /\ e.seen <= x.changes
  /\ e.raw # 0 /\ e.seen = x.changes => Follow(o, e, x)

FileInv == FileShaped(emu) /\ OthersSilent(osc, emu) /\ Told(osc, emu, fx)

LEMMA NewEmuShaped ==
  ASSUME NEW g
  PROVE  LET none == [w \in AllOscillators |-> NoBuffer]
         IN /\ FileShaped(NewEmu) /\ RomRecord(NewEmu.rom) /\ EmuShaped(NewEmu)
            /\ OthersSilent(none, NewEmu) /\ Told(none, NewEmu, NewEffects(g))
            /\ NewEmu.seen = 0 /\ NewEffects(g).changes = 2
  <1>1. RomRecord(NoRom) /\ NoRom.bytes = 0
    BY DEF RomRecord, NoRom
  <1>2. /\ NewEmu.raw = 0 /\ NewEmu.tracks = 0 /\ NewEmu.rom = NoRom /\ NewEmu.chips = {}
        /\ NewEmu.voices = 0 /\ NewEmu.list = <<>> /\ NewEmu.started = FALSE /\ NewEmu.seen = 0
        /\ NewEffects(g).changes = 2 /\ EmuShaped(NewEmu)
    BY DEF NewEmu, NewEffects, EmuShaped
  <1> QED
    BY <1>1, <1>2 DEF FileShaped, OthersSilent, Told

LEMMA UnloadShaped ==
  ASSUME NEW e, EmuShaped(e), RomRecord(e.rom)
  PROVE  /\ EmuShaped(Unload(e)) /\ FileShaped(Unload(e)) /\ Unload(e).raw = 0
         /\ Unload(e).started = FALSE /\ Unload(e).seen = e.seen /\ Unload(e).chips = {}
         /\ Unload(e).list = <<>>
  <1>1. PICK r : r = [e.rom EXCEPT !.bytes = 0]
    OBVIOUS
  <1>2. RomRecord(r) /\ r.bytes = 0
    BY <1>1 DEF RomRecord
  <1>3. PICK a : a = [e EXCEPT !.chips = {}, !.rom.bytes = 0, !.voices = 0]
    OBVIOUS
  <1>4. EmuShaped(a) /\ a.rom = r /\ a.chips = {} /\ a.voices = 0 /\ a.seen = e.seen
    BY <1>1, <1>3 DEF EmuShaped
  <1>5. PICK b : b = [a EXCEPT !.track = NoTrack, !.started = FALSE]
    OBVIOUS
  <1>6. EmuShaped(b) /\ b.rom = r /\ b.chips = {} /\ b.voices = 0 /\ b.seen = e.seen
        /\ b.started = FALSE
    BY <1>4, <1>5 DEF EmuShaped
  <1>7. PICK c : c = [b EXCEPT !.list = <<>>, !.tracks = b.raw]
    OBVIOUS
  <1>8. EmuShaped(c) /\ c.rom = r /\ c.chips = {} /\ c.voices = 0 /\ c.seen = e.seen
        /\ c.started = FALSE /\ c.list = <<>>
    BY <1>6, <1>7 DEF EmuShaped
  <1>9. PICK d : d = [c EXCEPT !.tracks = 0, !.raw = 0]
    OBVIOUS
  <1>10. EmuShaped(d) /\ d.rom = r /\ d.chips = {} /\ d.voices = 0 /\ d.seen = e.seen
         /\ d.started = FALSE /\ d.list = <<>> /\ d.tracks = 0 /\ d.raw = 0
    BY <1>8, <1>9 DEF EmuShaped
  <1>11. Unload(e) = d
    BY <1>3, <1>5, <1>7, <1>9 DEF Unload, UnloadFile, ClearPlaylist, ClearTrackVars
  <1>12. FileShaped(d)
    BY <1>2, <1>10 DEF FileShaped
  <1> QED
    BY <1>10, <1>11, <1>12

LEMMA RomsAreRecords ==
  ASSUME NEW length, NEW a
  PROVE  /\ RomRecord(NoRom) /\ RomRecord(LoadRom(length, HeaderSize))
         /\ RomRecord(SetAddr(LoadRom(length, HeaderSize), a))
  <1>1. RomRecord(NoRom)
    BY DEF RomRecord, NoRom
  <1>2. PICK b, f : LoadRom(length, HeaderSize) = [NoRom EXCEPT !.bytes = b, !.file = f]
    BY DEF LoadRom
  <1>3. PICK y : y = LoadRom(length, HeaderSize)
    OBVIOUS
  <1>4. RomRecord(y)
    BY <1>1, <1>2, <1>3 DEF RomRecord
  <1>5. RomRecord(SetAddr(y, a))
    <2> DEFINE rounded == RoundUp(a + y.file)
               start   == a - Unit - PadExtra
               mask    == MaskOf(rounded - 1)
               bytes   == rounded - start + PadExtra
    <2>1. SetAddr(y, a) = [y EXCEPT !.addr = start, !.mask = mask, !.size = rounded,
                                    !.bytes = bytes]
      BY Zenon DEF SetAddr
    <2> HIDE DEF rounded, start, mask, bytes
    <2> QED
      BY <1>4, <2>1 DEF RomRecord
  <1> QED
    BY <1>1, <1>3, <1>4, <1>5

\* The address that a file is loaded at is a number.
LEMMA LoadAddrIs ==
  ASSUME NEW a \in Nat
  PROVE  OrRomBegin(a) \in Nat
  BY DEF OrRomBegin, RomBegin

LEMMA BanksAreNumbers ==
  ASSUME NEW f \in Files, NEW total \in Int
  PROVE  InitialBanks(f, total) \in [1 .. BankCount -> Nat]
  <1>1. f.banks \in [1 .. BankCount -> Nat] /\ OrRomBegin(f.load) \in Nat
    BY FilesAssumption, LoadAddrIs DEF BankCount
  <1> DEFINE first == (OrRomBegin(f.load) - RomBegin) \div Unit
  <1>2. first \in Int
    <2>1. OrRomBegin(f.load) - RomBegin \in Int
      BY <1>1, SMT DEF RomBegin
    <2> QED
      BY <2>1, UnitNat, Division
  <1> HIDE DEF first
  <1>3. [i \in 1 .. BankCount |-> IF i - 1 - first \in 0 .. total - 1 THEN i - 1 - first ELSE 0]
          \in [1 .. BankCount -> Nat]
    BY <1>2 DEF BankCount
  <1> QED
    BY <1>1, <1>3 DEF InitialBanks, first

\* A load leaves a file with all it needs, or no file.
LEMMA LoadShaped ==
  ASSUME NEW e, EmuShaped(e), RomRecord(e.rom), NEW x, NEW f \in Files,
         NEW y, y = PostLoad(LoadNsf(Unload(e), x, f))
  PROVE  /\ FileShaped(y) /\ EmuShaped(y)
         /\ y.raw # 0 => y.seen = x.changes
         /\ y.raw = 0 => y.seen = e.seen
  <1> DEFINE u == Unload(e)
             r == LoadNsf(u, x, f)
             length == f.length
  <1>1. /\ EmuShaped(u) /\ FileShaped(u) /\ u.raw = 0 /\ u.started = FALSE /\ u.seen = e.seen
        /\ u.chips = {} /\ u.list = <<>>
    BY UnloadShaped
  <1>2. /\ f.tracks \in Nat \ {0} /\ f.length \in Nat /\ OrRomBegin(f.load) \in Nat
        /\ f.chips \subseteq Expansions
    BY FilesAssumption, LoadAddrIs DEF Expansions
  <1> DEFINE rom0 == LoadRom(f.length, HeaderSize)
             rom  == SetAddr(rom0, OrRomBegin(f.load) % Unit)
             bs   == InitialBanks(f, rom.size \div Unit)
  <1> HIDE DEF u
  <1>3. CASE r.err # ""
    <2>1. r.emu.seen = u.seen /\ EmuShaped(r.emu) /\ RomRecord(r.emu.rom)
      <3>1. RomRecord(u.rom)
        BY <1>1 DEF FileShaped
      <3>2. PICK a : a = [u EXCEPT !.rom = NoRom]
        OBVIOUS
      <3>3. PICK b : b = [u EXCEPT !.rom = rom0]
        OBVIOUS
      <3>4. PICK c : c = [b EXCEPT !.raw = f.tracks, !.tracks = f.tracks]
        OBVIOUS
      <3>5. PICK d : d = [c EXCEPT !.chips = f.chips, !.voices = VoiceCount(f.chips)]
        OBVIOUS
      <3>6. PICK err : r.err = err /\ (r.emu = a \/ r.emu = c \/ r.emu = d)
        BY <1>3, <3>2, <3>3, <3>4, <3>5 DEF LoadNsf
      <3> HIDE DEF r
      <3>7. RomRecord(NoRom) /\ RomRecord(rom0)
        BY RomsAreRecords
      <3> HIDE DEF rom0
      <3>8. EmuShaped(a) /\ a.seen = u.seen /\ a.rom = NoRom
        BY <1>1, <3>2 DEF EmuShaped
      <3>9. EmuShaped(b) /\ b.seen = u.seen /\ b.rom = rom0
        BY <1>1, <3>3 DEF EmuShaped
      <3>10. EmuShaped(c) /\ c.seen = u.seen /\ c.rom = rom0
        BY <3>4, <3>9 DEF EmuShaped
      <3>11. EmuShaped(d) /\ d.seen = u.seen /\ d.rom = rom0
        BY <3>5, <3>10 DEF EmuShaped
      <3> QED
        BY <3>6, <3>7, <3>8, <3>10, <3>11
    <2>2. y = Unload(r.emu)
      BY <1>3 DEF PostLoad, u
    <2> HIDE DEF r
    <2>3. PICK z : z = r.emu
      OBVIOUS
    <2>4. EmuShaped(z) /\ RomRecord(z.rom) /\ z.seen = u.seen /\ y = Unload(z)
      BY <2>1, <2>2, <2>3
    <2>5. FileShaped(y) /\ EmuShaped(y) /\ y.raw = 0 /\ y.seen = z.seen
      BY <2>4, UnloadShaped
    <2> QED
      BY <1>1, <2>4, <2>5
  <1>4. CASE r.err = ""
    <2>1. PICK clock : y = [u EXCEPT !.rom = rom, !.raw = f.tracks, !.tracks = f.tracks,
                                     !.chips = f.chips, !.voices = VoiceCount(f.chips),
                                     !.pal = f.pal, !.clock = clock, !.banks = bs,
                                     !.seen = x.changes]
                      /\ f.length > HeaderSize
      <3>1. PICK v : v = [[[u EXCEPT !.rom = rom0] EXCEPT !.raw = f.tracks, !.tracks = f.tracks]
                             EXCEPT !.chips = f.chips, !.voices = VoiceCount(f.chips)]
        OBVIOUS
      <3>2. y = r.emu
        BY <1>4 DEF PostLoad, u
      <3>3. /\ r.emu = [v EXCEPT !.rom = rom, !.pal = f.pal, !.clock = ClockRate(f.pal),
                                 !.banks = bs, !.seen = x.changes]
            /\ ~(f.length <= HeaderSize)
        BY <1>4, <3>1 DEF LoadNsf
      <3> HIDE DEF r, rom, bs, rom0
      <3>4. y = [u EXCEPT !.rom = rom, !.raw = f.tracks, !.tracks = f.tracks,
                          !.chips = f.chips, !.voices = VoiceCount(f.chips),
                          !.pal = f.pal, !.clock = ClockRate(f.pal), !.banks = bs,
                          !.seen = x.changes]
        BY <1>1, <3>1, <3>2, <3>3 DEF EmuShaped
      <3>5. f.length > HeaderSize
        BY <1>2, <3>3 DEF HeaderSize
      <3> QED
        BY <3>4, <3>5
    <2>2. OrRomBegin(f.load) % Unit \in 0 .. Unit - 1
      BY <1>2, UnitNat, Division
    <2>3. RomShaped(rom) /\ RomRecord(rom)
      BY <1>2, <2>1, <2>2, SetAddrShaped, RomsAreRecords
    <2>4. bs \in [1 .. BankCount -> Nat]
      <3>1. rom.size \div Unit \in Int
        BY <2>3, UnitNat, Division DEF RomShaped
      <3> QED
        BY <3>1, BanksAreNumbers
    <2> HIDE DEF rom, bs, rom0, r
    <2>5. /\ EmuShaped(y) /\ y.rom = rom /\ y.raw = f.tracks /\ y.tracks = f.tracks
          /\ y.chips = f.chips /\ y.voices = VoiceCount(f.chips) /\ y.banks = bs
          /\ y.seen = x.changes /\ y.started = FALSE
      BY <1>1, <2>1 DEF EmuShaped
    <2>6. FileShaped(y)
      BY <1>2, <2>3, <2>4, <2>5 DEF FileShaped
    <2> QED
      BY <1>2, <2>5, <2>6
  <1> QED
    BY <1>3, <1>4

-----------------------------------------------------------------------------
\* Nothing but chips, masks and effects decides where an oscillator goes.
LEMMA FollowSame ==
  ASSUME NEW o, NEW e, NEW x, NEW d, NEW y, d.chips = e.chips, d.muted = e.muted,
         y.groups = x.groups, y.config = x.config, Follow(o, e, x)
  PROVE  Follow(o, d, y)
  <1>1. \A i, beyond : Wanted(d, y, i, beyond) = Wanted(e, x, i, beyond)
    BY DEF Wanted, Center
  <1> QED
    BY <1>1, Zenon DEF Follow

LEMMA OthersSame ==
  ASSUME NEW o, NEW e, NEW d, d.chips = e.chips, OthersSilent(o, e)
  PROVE  OthersSilent(o, d)
  BY DEF OthersSilent

LEMMA UnloadOscSilent ==
  ASSUME NEW o, NEW e PROVE OthersSilent(UnloadOsc(o), e)
  <1>1. UnloadOsc(o) = [w \in AllOscillators |-> IF w[1] = "apu" THEN o[w] ELSE NoBuffer]
    BY DEF UnloadOsc
  <1>2. \A w \in AllOscillators : w[1] \notin Chips(e.chips) => w[1] # "apu"
    BY DEF Chips
  <1> QED
    BY <1>1, <1>2 DEF OthersSilent

LEMMA LoadIntoKeeps ==
  ASSUME NEW e, EmuShaped(e), RomRecord(e.rom), e.seen \in Nat,
         NEW x, x.changes \in Nat, e.seen <= x.changes, NEW o, NEW f \in Files,
         LoadInto(e, x, o, f)
  PROVE  FileShaped(emu') /\ OthersSilent(osc', emu') /\ Told(osc', emu', x)
  <1>1. PICK beyond, y :
           /\ beyond \in BeyondTypes
           /\ y = PostLoad(LoadNsf(Unload(e), x, f)) /\ emu' = y
           /\ osc' = MuteVoices(y, x, UnloadOsc(o), beyond)
    BY DEF LoadInto
  <1>2. FileShaped(y) /\ (y.raw # 0 => y.seen = x.changes) /\ (y.raw = 0 => y.seen = e.seen)
    BY <1>1, LoadShaped
  <1>3. OthersSilent(UnloadOsc(o), y)
    BY UnloadOscSilent
  <1>4. CASE y.raw = 0
    <2>1. y.voices = 0
      BY <1>2, <1>4 DEF FileShaped
    <2>2. OthersSilent(osc', y)
      BY <1>1, <1>3, <2>1, MuteOfNone
    <2> QED
      BY <1>1, <1>2, <1>4, <2>2 DEF Told
  <1>5. CASE y.raw # 0
    <2>1. y.chips \subseteq Expansions /\ y.voices = VoiceCount(y.chips)
      BY <1>2, <1>5 DEF FileShaped
    <2>2. OthersSilent(osc', y) /\ Follow(osc', y, x)
      BY <1>1, <1>3, <2>1, MuteReaches
    <2> QED
      BY <1>1, <1>2, <1>5, <2>2 DEF Told
  <1> QED
    BY <1>4, <1>5

\* The window of a bank is a page of the ROM.
LEMMA WindowsArePages ==
  ASSUME NEW e, RomShaped(e.rom), NEW bank \in Nat
  PROVE  IsPage(e.rom, Window(e, bank))
  BY WindowIsPage DEF Window

LEMMA LifeKeepsFile ==
  ASSUME FileInv, IInv, \/ \E g \in Groups : New(g)
                        \/ \E f \in Files, by_path \in BOOLEAN : Open(f, by_path)
                        \/ Delete
  PROVE  FileInv'
  <1> DEFINE none == [w \in AllOscillators |-> NoBuffer]
  <1>1. ASSUME NEW g, emu' = NewEmu, osc' = none, fx' = NewEffects(g)
        PROVE  FileInv'
    <2>1. FileShaped(NewEmu) /\ OthersSilent(none, NewEmu) /\ Told(none, NewEmu, NewEffects(g))
      BY NewEmuShaped
    <2> QED
      BY <1>1, <2>1 DEF FileInv
  <1>2. CASE \E g \in Groups : New(g)
    BY <1>1, <1>2 DEF New, Renewed
  <1>3. CASE Delete
    BY <1>1, <1>3 DEF Delete, Renewed
  <1>4. CASE \E f \in Files, by_path \in BOOLEAN : Open(f, by_path)
    <2>1. PICK f \in Files, by_path \in BOOLEAN : Open(f, by_path)
      BY <1>4
    <2>2. CASE UNCHANGED <<alive, emu, osc, fx, remain, due, read>>
      BY <2>2 DEF FileInv
    <2>3. CASE Renewed(1) /\ LoadInto(NewEmu, NewEffects(1), none, f)
      <3>1. /\ EmuShaped(NewEmu) /\ RomRecord(NewEmu.rom) /\ NewEmu.seen = 0
            /\ NewEffects(1).changes = 2
        BY NewEmuShaped
      <3>2. FileShaped(emu') /\ OthersSilent(osc', emu') /\ Told(osc', emu', NewEffects(1))
        BY <2>3, <3>1, LoadIntoKeeps
      <3>3. fx' = NewEffects(1)
        BY <2>3 DEF Renewed
      <3> QED
        BY <3>2, <3>3 DEF FileInv
    <2> QED
      BY <2>1, <2>2, <2>3 DEF Open
  <1> QED
    BY <1>2, <1>3, <1>4

LEMMA LoadsKeepFile ==
  ASSUME FileInv, IInv, (\E f \in Files : Load(f)) \/ LoadNothing
  PROVE  FileInv'
  <1>1. EmuShaped(emu) /\ RomRecord(emu.rom) /\ emu.seen \in Nat /\ fx.changes \in Nat
        /\ emu.seen <= fx.changes
    BY DEF IInv, EmuTyped, FileInv, FileShaped, Told
  <1>2. fx' = fx
    BY DEF Load, LoadNothing, SameSound
  <1>3. CASE \E f \in Files : Load(f)
    <2>1. PICK f \in Files : LoadInto(emu, fx, osc, f)
      BY <1>3 DEF Load
    <2>2. FileShaped(emu') /\ OthersSilent(osc', emu') /\ Told(osc', emu', fx)
      BY <1>1, <2>1, LoadIntoKeeps
    <2> QED
      BY <1>2, <2>2 DEF FileInv
  <1>4. CASE LoadNothing
    <2>1. emu' = Unload(emu) /\ osc' = UnloadOsc(osc)
      BY <1>4 DEF LoadNothing
    <2>2. FileShaped(emu') /\ emu'.raw = 0 /\ emu'.seen = emu.seen
      BY <1>1, <2>1, UnloadShaped
    <2>3. OthersSilent(osc', emu')
      BY <2>1, UnloadOscSilent
    <2>4. Told(osc', emu', fx')
      BY <1>1, <1>2, <2>2 DEF Told
    <2> QED
      BY <2>2, <2>3, <2>4 DEF FileInv
  <1> QED
    BY <1>3, <1>4

\* A change of the file's fields that the voices do not depend on.
LEMMA SameVoices ==
  ASSUME FileInv, FileShaped(emu'), osc' = osc, emu'.chips = emu.chips, emu'.muted = emu.muted,
         emu'.seen = emu.seen, emu'.raw = emu.raw, fx'.changes = fx.changes,
         fx'.groups = fx.groups, fx'.config = fx.config
  PROVE  FileInv'
  <1>1. OthersSilent(osc, emu')
    BY OthersSame DEF FileInv
  <1>2. Follow(osc, emu, fx) => Follow(osc, emu', fx')
    BY FollowSame
  <1> QED
    BY <1>1, <1>2 DEF FileInv, Told

LEMMA ListsKeepFile ==
  ASSUME FileInv, IInv, (\E p \in Playlists : LoadM3u(p)) \/ DropPlaylist
  PROVE  FileInv'
  <1>1. EmuShaped(emu) /\ FileShaped(emu)
    BY DEF IInv, EmuTyped, FileInv
  <1>2. fx' = fx /\ osc' = osc
    BY DEF LoadM3u, DropPlaylist, SameSound
  <1>3. CASE \E p \in Playlists : LoadM3u(p)
    <2>1. PICK p \in Playlists : LoadM3u(p)
      BY <1>3
    <2> DEFINE list == IF p[1] = "unread" THEN emu.list ELSE M3u!Parse(p[2]).entries
               ok   == p[1] = "read" /\ M3u!Parse(p[2]).err = ""
               n    == IF ok THEN Len(list) ELSE emu.tracks
    <2>2. emu' = [emu EXCEPT !.list = list, !.tracks = IF ok THEN Len(list) ELSE @]
          /\ emu.raw > 0
      BY <2>1 DEF LoadM3u
    \* A text that parses has entries.
    <2>3. ok => Len(list) # 0
      <3>1. M3u!Parse(p[2]).err = "" => Len(M3u!Parse(p[2]).entries) # 0
        BY DEF M3u!Parse, M3u!NotAPlaylist
      <3>2. ok => list = M3u!Parse(p[2]).entries
        OBVIOUS
      <3> QED
        BY <3>1, <3>2
    <2> HIDE DEF list, ok
    <2>4. emu' = [emu EXCEPT !.list = list, !.tracks = n]
      BY <1>1, <2>2 DEF EmuShaped
    <2>5. emu.tracks # 0 /\ emu.raw # 0 /\ n # 0
      BY <1>1, <2>2, <2>3 DEF FileShaped
    <2> HIDE DEF n
    <2>6. /\ emu'.raw = emu.raw /\ emu'.tracks = n /\ emu'.rom = emu.rom /\ emu'.chips = emu.chips
          /\ emu'.voices = emu.voices /\ emu'.banks = emu.banks /\ emu'.started = emu.started
          /\ emu'.map = emu.map /\ emu'.muted = emu.muted /\ emu'.seen = emu.seen
      BY <1>1, <2>4 DEF EmuShaped
    <2>7. FileShaped(emu')
      BY <1>1, <2>5, <2>6 DEF FileShaped
    <2> QED
      BY <1>2, <2>6, <2>7, SameVoices
  <1>4. CASE DropPlaylist
    <2>1. emu' = [emu EXCEPT !.list = <<>>, !.tracks = emu.raw]
      BY <1>1, <1>4 DEF DropPlaylist, ClearPlaylist, EmuShaped
    <2>2. /\ emu'.raw = emu.raw /\ emu'.tracks = emu.raw /\ emu'.rom = emu.rom
          /\ emu'.chips = emu.chips /\ emu'.list = <<>>
          /\ emu'.voices = emu.voices /\ emu'.banks = emu.banks /\ emu'.started = emu.started
          /\ emu'.map = emu.map /\ emu'.muted = emu.muted /\ emu'.seen = emu.seen
      BY <1>1, <2>1 DEF EmuShaped
    <2>3. FileShaped(emu')
      BY <1>1, <2>2 DEF FileShaped
    <2> QED
      BY <1>2, <2>2, <2>3, SameVoices
  <1> QED
    BY <1>3, <1>4

LEMMA StartKeepsFile ==
  ASSUME FileInv, IInv, NEW n \in 0 .. 3, StartTrack(n)
  PROVE  FileInv'
  <1>1. EmuShaped(emu) /\ FileShaped(emu) /\ FxTyped(fx)
    BY DEF IInv, InTime, EmuTyped, FileInv
  <1>2. PICK stopped : stopped = [emu EXCEPT !.track = NoTrack, !.started = FALSE]
    OBVIOUS
  <1>3. /\ EmuShaped(stopped) /\ stopped.started = FALSE
        /\ stopped.raw = emu.raw /\ stopped.tracks = emu.tracks /\ stopped.rom = emu.rom
        /\ stopped.chips = emu.chips /\ stopped.list = emu.list /\ stopped.voices = emu.voices
        /\ stopped.banks = emu.banks /\ stopped.muted = emu.muted /\ stopped.seen = emu.seen
    BY <1>1, <1>2 DEF EmuShaped
  <1>4. osc' = osc /\ ClearTrackVars(emu) = stopped
    BY <1>2 DEF StartTrack, ClearTrackVars
  <1>5. CASE RemapTrack(emu, n) = InvalidTrack
    <2>1. emu' = stopped /\ fx' = fx
      BY <1>4, <1>5 DEF StartTrack, SameSound
    <2>2. FileShaped(stopped)
      BY <1>1, <1>3 DEF FileShaped
    <2> QED
      BY <1>3, <1>4, <2>1, <2>2, SameVoices
  <1>6. CASE RemapTrack(emu, n) # InvalidTrack
    <2>1. PICK mine, map :
             /\ emu' = [stopped EXCEPT !.track = mine, !.started = TRUE, !.map = map]
             /\ map = [i \in 1 .. BankCount |-> Window(emu, emu.banks[i])]
      BY <1>4, <1>6 DEF StartTrack
    <2>2. fx' = ClearAll(fx)
      BY <1>6 DEF StartTrack
    <2>3. emu.raw # 0
      <3>1. emu.tracks # 0
        BY <1>6 DEF RemapTrack
      <3> QED
        BY <1>1, <3>1 DEF FileShaped
    <2>4. \A i \in 1 .. BankCount : IsPage(emu.rom, map[i])
      <3>1. RomShaped(emu.rom) /\ emu.banks \in [1 .. BankCount -> Nat]
        BY <1>1, <2>3 DEF FileShaped
      <3> QED
        BY <2>1, <3>1, WindowsArePages
    <2>5. /\ emu'.raw = emu.raw /\ emu'.tracks = emu.tracks /\ emu'.rom = emu.rom
          /\ emu'.chips = emu.chips /\ emu'.voices = emu.voices /\ emu'.banks = emu.banks
          /\ emu'.map = map /\ emu'.muted = emu.muted /\ emu'.seen = emu.seen
      BY <1>3, <2>1 DEF EmuShaped
    <2>6. FileShaped(emu')
      BY <1>1, <2>1, <2>3, <2>4, <2>5 DEF FileShaped
    <2>7. fx'.groups = fx.groups /\ fx'.config = fx.config /\ fx'.changes = fx.changes
      BY <1>1, <2>2 DEF ClearAll, FxTyped
    <2> QED
      BY <1>4, <2>5, <2>6, <2>7, SameVoices
  <1> QED
    BY <1>5, <1>6

LEMMA SettingsKeepFile ==
  ASSUME FileInv, IInv, \/ \E mask \in Masks : Mute(mask)
                        \/ \E on \in BOOLEAN : SetStereoDepth(on)
                        \/ \E block \in Blocks : Play(block)
                        \/ ReadSamples
  PROVE  FileInv'
  <1>1. EmuShaped(emu) /\ FileShaped(emu) /\ FxTyped(fx)
    BY DEF IInv, InTime, EmuTyped, FileInv
  <1>2. CASE \E mask \in Masks : Mute(mask)
    <2>1. PICK mask, beyond, e :
             /\ mask \in Masks /\ beyond \in BeyondTypes
             /\ e = [emu EXCEPT !.muted = mask] /\ emu' = e
             /\ osc' = MuteVoices(e, fx, osc, beyond) /\ fx' = fx
      BY <1>2 DEF Mute, SameSound
    <2>2. /\ e.raw = emu.raw /\ e.tracks = emu.tracks /\ e.rom = emu.rom
          /\ e.chips = emu.chips /\ e.list = emu.list /\ e.map = emu.map
          /\ e.voices = emu.voices /\ e.banks = emu.banks /\ e.started = emu.started
          /\ e.seen = emu.seen
      BY <1>1, <2>1 DEF EmuShaped
    <2>3. FileShaped(e)
      BY <1>1, <2>2 DEF FileShaped
    <2>4. OthersSilent(osc, e)
      BY <2>2, OthersSame DEF FileInv
    <2>5. OthersSilent(osc', e) /\ Told(osc', e, fx)
      <3>1. CASE e.raw = 0
        <4>1. e.voices = 0
          BY <2>3, <3>1 DEF FileShaped
        <4> QED
          BY <2>1, <2>2, <2>4, <3>1, <4>1, MuteOfNone DEF FileInv, Told
      <3>2. CASE e.raw # 0
        <4>1. e.chips \subseteq Expansions /\ e.voices = VoiceCount(e.chips)
          BY <2>3, <3>2 DEF FileShaped
        <4>2. OthersSilent(osc', e) /\ Follow(osc', e, fx)
          BY <2>1, <2>4, <4>1, MuteReaches
        <4> QED
          BY <2>2, <4>2 DEF FileInv, Told
      <3> QED
        BY <3>1, <3>2
    <2> QED
      BY <2>1, <2>3, <2>5 DEF FileInv
  <1>3. CASE \E on \in BOOLEAN : SetStereoDepth(on)
    <2>1. PICK on \in BOOLEAN : fx' = [fx EXCEPT !.config = on, !.changes = @ + 1]
                                /\ emu' = emu /\ osc' = osc
      BY <1>3 DEF SetStereoDepth, SetDepth
    <2>2. fx'.changes = fx.changes + 1
      BY <1>1, <2>1 DEF FxTyped
    <2>3. Told(osc', emu', fx')
      BY <2>1, <2>2 DEF FileInv, Told
    <2> QED
      BY <2>1, <2>3 DEF FileInv
  <1>4. CASE \E block \in Blocks : Play(block)
    BY <1>4 DEF Play, FileInv
  <1>5. CASE ReadSamples
    <2>1. PICK n : fx' = ReadChunk(fx, n) /\ emu' = emu /\ osc' = osc
      BY <1>5 DEF ReadSamples
    <2>2. fx'.groups = fx.groups /\ fx'.config = fx.config /\ fx'.changes = fx.changes
      BY <1>1, <2>1 DEF ReadChunk, FxTyped
    <2> QED
      BY <1>1, <2>1, <2>2, SameVoices
  <1> QED
    BY <1>2, <1>3, <1>4, <1>5

\* At a frame the voices are told of the effects of now, if they have not been.
LEMMA FrameFollows ==
  ASSUME FileInv, IInv, NEW over \in Overshoot, NEW w \in BankWrites, Frame(over, w)
  PROVE  /\ OthersSilent(osc', emu) /\ Follow(osc', emu, fx)
         /\ emu.chips \subseteq Expansions /\ emu.voices = VoiceCount(emu.chips) /\ emu.raw # 0
  <1>1. emu.started = TRUE /\ FileShaped(emu)
    BY DEF IInv, FileInv, Frame, EmuTyped
  <1>2. emu.raw # 0 /\ emu.chips \subseteq Expansions /\ emu.voices = VoiceCount(emu.chips)
    BY <1>1 DEF FileShaped
  <1>3. osc' \in IF emu.seen # fx.changes
                 THEN {MuteVoices(emu, fx, osc, beyond) : beyond \in BeyondTypes} ELSE {osc}
    BY DEF Frame
  <1>4. CASE emu.seen # fx.changes
    <2>1. PICK beyond \in BeyondTypes : osc' = MuteVoices(emu, fx, osc, beyond)
      BY <1>3, <1>4
    <2> QED
      BY <1>2, <2>1, MuteReaches DEF FileInv
  <1>5. CASE emu.seen = fx.changes
    <2>1. osc' = osc
      BY <1>3, <1>5
    <2> QED
      BY <1>2, <1>5, <2>1 DEF FileInv, Told
  <1> QED
    BY <1>4, <1>5

LEMMA FrameKeepsFile ==
  ASSUME FileInv, IInv, NEW over \in Overshoot, NEW w \in BankWrites, Frame(over, w)
  PROVE  FileInv'
  <1>1. EmuShaped(emu) /\ FileShaped(emu) /\ FxTyped(fx) /\ emu.started = TRUE
    BY DEF IInv, InTime, EmuTyped, FileInv, Frame
  <1>2. OthersSilent(osc', emu) /\ Follow(osc', emu, fx) /\ emu.raw # 0 /\ RomShaped(emu.rom)
    BY <1>1, FrameFollows DEF FileShaped
  <1>3. w[1] \in 1 .. BankCount /\ w[2] \in Nat
    BY BankWritesAssumption DEF BankCount
  <1>4. PICK e : e = [emu EXCEPT !.seen = fx.changes]
    OBVIOUS
  <1>5. /\ EmuShaped(e) /\ e.rom = emu.rom /\ e.map = emu.map /\ e.seen = fx.changes
        /\ e.raw = emu.raw /\ e.tracks = emu.tracks /\ e.chips = emu.chips /\ e.list = emu.list
        /\ e.voices = emu.voices /\ e.banks = emu.banks /\ e.started = emu.started
        /\ e.muted = emu.muted
    BY <1>1, <1>4 DEF EmuShaped
  <1>6. PICK map : map = [e.map EXCEPT ![w[1]] = Window(e, w[2])]
    OBVIOUS
  <1>7. emu' = [e EXCEPT !.map = map]
    BY <1>4, <1>5, <1>6 DEF Frame, SwitchBank, EmuShaped
  <1>8. DOMAIN map = 1 .. BankCount /\ \A i \in 1 .. BankCount : IsPage(emu.rom, map[i])
    <2>1. DOMAIN e.map = 1 .. BankCount /\ \A i \in 1 .. BankCount : IsPage(emu.rom, e.map[i])
      BY <1>1, <1>5 DEF FileShaped
    <2>2. IsPage(emu.rom, Window(e, w[2]))
      BY <1>2, <1>3, <1>5, WindowsArePages
    <2> QED
      BY <1>3, <1>6, <2>1, <2>2
  <1>9. /\ emu'.rom = emu.rom /\ emu'.map = map /\ emu'.seen = fx.changes
        /\ emu'.raw = emu.raw /\ emu'.tracks = emu.tracks /\ emu'.chips = emu.chips
        /\ emu'.voices = emu.voices /\ emu'.banks = emu.banks /\ emu'.started = emu.started
        /\ emu'.muted = emu.muted /\ emu'.list = emu.list
    BY <1>5, <1>7 DEF EmuShaped
  <1>10. FileShaped(emu')
    BY <1>1, <1>8, <1>9 DEF FileShaped
  <1>11. fx'.groups = fx.groups /\ fx'.config = fx.config /\ fx'.changes = fx.changes
    <2>1. PICK b, z : z = [fx EXCEPT !.bufs = b] /\ \E M, t, f : fx' = EndEffectsFrame(z, M, t, f)
      BY DEF Frame
    <2>2. /\ z = [groups |-> z.groups, bufs |-> z.bufs, enabled |-> z.enabled,
                  config |-> z.config, stereo |-> z.stereo, effect |-> z.effect,
                  changes |-> z.changes]
          /\ z.groups = fx.groups /\ z.config = fx.config /\ z.changes = fx.changes
      BY <1>1, <2>1 DEF FxTyped
    <2>3. PICK M, t, f : fx' = EndEffectsFrame(z, M, t, f)
      BY <2>1
    <2>4. PICK b1, b2, b3, b4 :
             fx' = [z EXCEPT !.bufs = b1, !.stereo = b2, !.effect = b3, !.enabled = b4]
      BY <2>3, Zenon DEF EndEffectsFrame
    <2> QED
      BY <2>2, <2>4
  <1>12. OthersSilent(osc', emu') /\ Follow(osc', emu', fx')
    BY <1>2, <1>9, <1>11, FollowSame, OthersSame
  <1>13. Told(osc', emu', fx')
    BY <1>9, <1>11, <1>12 DEF FileInv, Told
  <1> QED
    BY <1>10, <1>12, <1>13 DEF FileInv

LEMMA NextFileInv == IInv /\ FileInv /\ [Next]_vars => FileInv'
  <1>1. FileInv /\ UNCHANGED vars => FileInv'
    BY DEF FileInv, vars
  <1>2. IInv /\ FileInv /\ PlayOn => FileInv'
    BY SettingsKeepFile, FrameKeepsFile DEF PlayOn
  <1> QED
    BY <1>1, <1>2, LifeKeepsFile, LoadsKeepFile, ListsKeepFile, StartKeepsFile, SettingsKeepFile
       DEF Next

\* The invariant of the file, its voices and its banks.
THEOREM FileInvariant == Spec => []FileInv
  <1>1. Init => FileInv
    <2> SUFFICES ASSUME Init PROVE FileInv
      OBVIOUS
    <2>1. PICK g \in Groups : fx = NewEffects(g)
      BY DEF Init
    <2>2. emu = NewEmu /\ osc = [w \in AllOscillators |-> NoBuffer]
      BY DEF Init
    <2> QED
      BY <2>1, <2>2, NewEmuShaped DEF FileInv
  <1> QED
    BY <1>1, NextFileInv, EmuInvariant, PTL DEF Spec

-----------------------------------------------------------------------------
\* Whatever step of a load fails, nothing of the file is left, nor of the one before.
THEOREM NothingIsLeft == Spec => []FailedLoadLeavesNothing
  <1>1. IInv /\ FileInv => FailedLoadLeavesNothing
    <2> SUFFICES ASSUME IInv, FileInv, emu.tracks = 0
                 PROVE  /\ emu.rom.bytes = 0 /\ emu.chips = {} /\ emu.voices = 0
                        /\ emu.list = <<>> /\ emu.raw = 0 /\ ~emu.started
                        /\ \A w \in AllOscillators : w[1] # "apu" => osc[w] = NoBuffer
      BY DEF FailedLoadLeavesNothing
    <2>1. /\ emu.raw = 0 /\ emu.rom.bytes = 0 /\ emu.chips = {} /\ emu.voices = 0
          /\ emu.list = <<>> /\ emu.started = FALSE
      BY DEF FileInv, FileShaped
    <2>2. \A w \in AllOscillators : w[1] # "apu" => osc[w] = NoBuffer
      BY <2>1 DEF FileInv, OthersSilent, Chips
    <2> QED
      BY <2>1, <2>2
  <1> QED
    BY <1>1, EmuInvariant, FileInvariant, PTL

\* While a tune runs each of its pages lies in the ROM and shows the file's own bytes.
THEOREM BanksShowTheFile == Spec => []BanksAreInRom
  <1>1. IInv /\ FileInv => BanksAreInRom
    <2> SUFFICES ASSUME IInv, FileInv, emu.started, NEW i \in 1 .. BankCount
                 PROVE  PageShows(emu.rom, emu.map[i])
      BY Zenon DEF BanksAreInRom, PageShows
    <2>1. RomShaped(emu.rom) /\ IsPage(emu.rom, emu.map[i])
      BY DEF IInv, EmuTyped, FileInv, FileShaped
    <2> QED
      BY <2>1, PageIsShown
  <1> QED
    BY <1>1, EmuInvariant, FileInvariant, PTL

\* At every frame each oscillator adds to the buffer that its voice has by the masks and the
\* effects of now.
THEOREM VoicesAreUpToDate == Spec => VoicesFollowConfig
  <1> DEFINE UpToDate == \A w \in UNION {Oscillators(chip) : chip \in emu.chips \cup {"apu"}} :
                           \E i \in 0 .. emu.voices - 1, beyond \in BeyondTypes :
                             VoiceOsc(emu.chips, i) = w /\ osc'[w] = Wanted(emu, fx, i, beyond)
  <1>1. ASSUME IInv, FileInv, NEW over \in Overshoot, NEW w \in BankWrites, Frame(over, w)
        PROVE  UpToDate
    <2>1. Follow(osc', emu, fx) /\ emu.chips \subseteq Expansions
          /\ emu.voices = VoiceCount(emu.chips)
      BY <1>1, FrameFollows
    <2> SUFFICES ASSUME NEW c \in Chips(emu.chips), NEW v \in Oscillators(c)
                 PROVE  \E i \in 0 .. emu.voices - 1, beyond \in BeyondTypes :
                           VoiceOsc(emu.chips, i) = v /\ osc'[v] = Wanted(emu, fx, i, beyond)
      BY DEF Chips
    <2> DEFINE i == VoiceOf(emu.chips, v)
    <2>2. i \in 0 .. emu.voices - 1 /\ VoiceOsc(emu.chips, i) = v
      BY <2>1, OneVoice
    <2>3. PICK beyond \in BeyondTypes : osc'[v] = Wanted(emu, fx, i, beyond)
      BY <2>1 DEF Follow
    <2> HIDE DEF i
    <2> QED
      BY <2>2, <2>3
  <1> HIDE DEF UpToDate
  <1>2. ASSUME IInv, FileInv, Next, due' > due PROVE UpToDate
    <2>1. due \in Nat
      BY <1>2 DEF IInv, InTime
    <2>2. ~(due' = due) /\ ~(due' = 0)
      BY <1>2, <2>1
    <2>3. /\ \A g \in Groups : ~New(g)
          /\ \A f \in Files, by_path \in BOOLEAN : ~Open(f, by_path)
          /\ ~Delete
      BY <2>2 DEF New, Open, Delete, Renewed
    <2>4. /\ (\A f \in Files : ~Load(f)) /\ ~LoadNothing
          /\ (\A p \in Playlists : ~LoadM3u(p)) /\ ~DropPlaylist
          /\ (\A mask \in Masks : ~Mute(mask))
      BY <2>2 DEF Load, LoadNothing, LoadM3u, DropPlaylist, Mute, SameSound
    <2>5. /\ (\A n \in 0 .. 3 : ~StartTrack(n))
          /\ (\A on \in BOOLEAN : ~SetStereoDepth(on)) /\ (\A block \in Blocks : ~Play(block))
          /\ ~ReadSamples
      BY <2>2 DEF StartTrack, SetStereoDepth, Play, ReadSamples, SameSound
    <2>6. \E over \in Overshoot, w \in BankWrites : Frame(over, w)
      BY <1>2, <2>3, <2>4, <2>5, Zenon DEF Next, PlayOn
    <2> QED
      BY <1>1, <1>2, <2>6
  <1>3. IInv /\ FileInv /\ [Next]_vars => [due' > due => UpToDate]_vars
    BY <1>2
  <1> QED
    BY <1>3, EmuInvariant, FileInvariant, PTL DEF Spec, VoicesFollowConfig, UpToDate

-----------------------------------------------------------------------------
\* Where the sound is that has not been delivered. The four side buffers of a group never
\* have any; a channel's own buffers (1 and 2) have it only while the effects' mixer, which is
\* the one that hears them, has as long to run, and, once the effects are off, none of it
\* reaches past the samples that this mixer will take.
Quiet(x) ==
  \A b \in DOMAIN x.bufs :
    /\ Side(b) > 2 => x.bufs[b].dirty = 0
    /\ Side(b) \in {1, 2} /\ x.bufs[b].dirty > 0 =>
         /\ x.effect >= Avail(x.bufs[b]) + Latency
         /\ x.bufs[b].dirty <= Avail(x.bufs[b]) + Widest
         /\ x.enabled \/ x.bufs[b].dirty <= Avail(x.bufs[b])

QuietInv == Quiet(fx)

LEMMA SidesOfSeven == \A b \in Int : Side(b) \in 0 .. 6
  BY DEF Side, PerVoice

\* The buffers of a track that has begun, or of a new emulator, are empty.
LEMMA EmptyIsQuiet ==
  ASSUME NEW x, \A b \in DOMAIN x.bufs : x.bufs[b] = NewBlip
  PROVE  Quiet(x)
  BY DEF Quiet, NewBlip

LEMMA TypesOfVoices ==
  ASSUME NEW i \in Nat, NEW beyond \in BeyondTypes
  PROVE  TypeOf(i, beyond) \in [noise : BOOLEAN, index : Int]
  <1> DEFINE T == [noise : BOOLEAN, index : Int]
  <1>1. beyond \in T
    BY BeyondAssumption
  <1>2. Types \in Seq(T)
    <2>1. <<Wave(1), Wave(2), Wave(0), Noise(0), Noise(1)>> \in Seq(T)
      <3>1. \A n \in Int : Wave(n) \in T /\ Noise(n) \in T
        BY DEF Wave, Noise
      <3> HIDE DEF T
      <3> QED
        BY <3>1
    <2>2. [n \in 1 .. 11 |-> Wave(n + 2)] \in Seq(T)
      <3>1. \A n \in 1 .. 11 : Wave(n + 2) \in T
        BY DEF Wave
      <3> HIDE DEF T
      <3>2. [n \in 1 .. 11 |-> Wave(n + 2)] \in [1 .. 11 -> T]
        BY <3>1
      <3> QED
        BY <3>2
    <2> HIDE DEF T
    <2> QED
      BY <2>1, <2>2 DEF Types
  <1> HIDE DEF T
  <1>3. CASE i < Len(Types)
    <2>1. i + 1 \in 1 .. Len(Types)
      BY <1>2, <1>3
    <2>2. Types[i + 1] \in T
      BY <1>2, <2>1
    <2> QED
      BY <1>3, <2>2 DEF TypeOf, T
  <1> QED
    BY <1>1, <1>3 DEF TypeOf, T

LEMMA CentersAreFront ==
  ASSUME NEW x, x.groups \in {1, 8}, NEW i \in Nat, NEW beyond \in BeyondTypes
  PROVE  /\ Side(Center(x, i, TypeOf(i, beyond))) \in 0 .. 2
         /\ ~x.config => Side(Center(x, i, TypeOf(i, beyond))) = 0
  <1> DEFINE type == TypeOf(i, beyond)
             k == Output(i, type)
             g == i % x.groups
  <1>1. type \in [noise : BOOLEAN, index : Int]
    BY TypesOfVoices
  <1> HIDE DEF type
  <1>2. k \in 0 .. 2
    <2>1. type.index \in Int /\ i % 5 \in 0 .. 4 /\ type.index % 2 \in 0 .. 1
      BY <1>1
    <2> QED
      BY <2>1 DEF Output
  <1>3. g \in Nat
    OBVIOUS
  <1> HIDE DEF k, g
  <1>4. Center(x, i, type) = IF x.config THEN g * 7 + k ELSE g * 7 + 0
    BY DEF Center, Index, PerVoice, k, g
  <1>5. \A n \in 0 .. 2 : Side(g * 7 + n) = n
    BY <1>3 DEF Side, PerVoice
  <1> QED
    BY <1>2, <1>4, <1>5 DEF type

\* Every oscillator that is connected adds to a center.
LEMMA ModifiedAreFront ==
  ASSUME NEW o, NEW e, NEW x, x.groups \in {1, 8}, e.chips \subseteq Expansions,
         Follow(o, e, x), OthersSilent(o, e), NEW b \in Modified(o)
  PROVE  Side(b) \in 0 .. 2 /\ (~x.config => Side(b) = 0)
  <1>1. PICK w \in AllOscillators : b = o[w] /\ o[w] # NoBuffer
    BY DEF Modified
  <1>2. w[1] \in Chips(e.chips) /\ w \in Oscillators(w[1])
    BY <1>1, OscNames DEF OthersSilent
  <1> DEFINE i == VoiceOf(e.chips, w)
  <1>3. PICK beyond \in BeyondTypes : o[w] = Wanted(e, x, i, beyond)
    BY <1>2 DEF Follow
  <1>4. i \in Nat
    <2>1. i \in 0 .. VoiceCount(e.chips) - 1
      BY <1>2, OneVoice
    <2> QED
      BY <2>1
  <1> HIDE DEF i
  <1>5. b = Center(x, i, TypeOf(i, beyond))
    BY <1>1, <1>3 DEF Wanted
  <1> QED
    BY <1>4, <1>5, CentersAreFront

LEMMA BuffersInTime ==
  ASSUME IInv
  PROVE  /\ FxTyped(fx) /\ fx.groups \in {1, 8} /\ fx.effect \in Int
         /\ DOMAIN fx.bufs \subseteq Int /\ due - read * One \in Int /\ 0 <= due - read * One
         /\ Synced(fx, due - read * One)
         /\ \A b \in DOMAIN fx.bufs :
               /\ fx.bufs[b] \in Blip /\ fx.bufs[b].offset = due - read * One
               /\ fx.bufs[b].dirty \in Nat
  <1>1. FxTyped(fx) /\ Synced(fx, due - read * One) /\ 0 <= due - read * One
    BY DEF IInv, InTime
  <1>2. due - read * One \in Int
    BY OneNat DEF IInv, InTime
  <1>3. /\ DOMAIN fx.bufs = 0 .. fx.groups * PerVoice - 1
        /\ fx.groups \in {1, 8} /\ fx.effect \in Int
        /\ \A b \in DOMAIN fx.bufs : fx.bufs[b] \in Blip
    BY <1>1 DEF FxTyped
  <1>4. \A b \in DOMAIN fx.bufs : fx.bufs[b].dirty \in Nat
    BY <1>3 DEF Blip
  <1>5. \A b \in DOMAIN fx.bufs : fx.bufs[b].offset = due - read * One
    BY <1>1 DEF Synced
  <1> QED
    BY <1>1, <1>2, <1>3, <1>4, <1>5

LEMMA FrameIsQuiet ==
  ASSUME IInv, FileInv, Quiet(fx), NEW over \in Overshoot, NEW w \in BankWrites, Frame(over, w)
  PROVE  Quiet(fx')
  <1> DEFINE time == due - read * One
  <1>1. PICK d \in Nat :
           /\ d >= 16 * One /\ Synced(fx', time + d) /\ time < One
           /\ DOMAIN fx'.bufs = DOMAIN fx.bufs /\ fx'.enabled = fx.config
           /\ fx.enabled \/ fx.config => fx'.effect >= (time + d) \div One + Latency
           /\ \A b \in DOMAIN fx.bufs :
                 fx'.bufs[b].dirty = IF b \in Modified(osc') THEN (time + d) \div One + Widest
                                                            ELSE fx.bufs[b].dirty
    BY FrameStep
  <1>2. time \in Int /\ 0 <= time /\ fx.groups \in {1, 8} /\ Synced(fx, time)
        /\ DOMAIN fx.bufs \subseteq Int /\ \A b \in DOMAIN fx.bufs : fx.bufs[b].dirty \in Nat
    BY BuffersInTime
  <1> HIDE DEF time
  <1>3. \A b \in Modified(osc') : Side(b) \in 0 .. 2 /\ (~fx.config => Side(b) = 0)
    <2>1. OthersSilent(osc', emu) /\ Follow(osc', emu, fx) /\ emu.chips \subseteq Expansions
      BY FrameFollows
    <2> QED
      BY <1>2, <2>1, ModifiedAreFront
  <1> DEFINE a == (time + d) \div One
  <1>4. a \in Int /\ a >= 16
    <2>1. time + d \in Int /\ time + d >= 16 * One /\ 16 * One \in Int
      BY <1>1, <1>2, OneNat
    <2>2. /\ a \in Int /\ (time + d) % One \in Int
          /\ time + d = a * One + ((time + d) % One) /\ (time + d) % One < One
      BY <2>1, OneNat, Division
    <2> HIDE DEF a
    <2>3. CASE a <= 15
      <3>1. a * One <= 15 * One
        BY <2>2, <2>3, OneNat, Scaling
      <3>2. a * One \in Int /\ 15 * One = 16 * One - One
        BY <2>2, OneNat
      <3> QED
        BY <2>1, <2>2, <3>1, <3>2, OneNat
    <2> QED
      BY <2>2, <2>3
  <1>5. \A b \in DOMAIN fx.bufs : Avail(fx'.bufs[b]) = a /\ Avail(fx.bufs[b]) = 0
    <2>1. time \div One = 0
      BY <1>1, <1>2, OneNat
    <2> QED
      BY <1>1, <1>2, <2>1 DEF Synced, Avail
  <1> HIDE DEF a
  <1> SUFFICES ASSUME NEW b \in DOMAIN fx.bufs
               PROVE  /\ Side(b) > 2 => fx'.bufs[b].dirty = 0
                      /\ Side(b) \in {1, 2} /\ fx'.bufs[b].dirty > 0 =>
                           /\ fx'.effect >= a + Latency
                           /\ fx'.bufs[b].dirty <= a + Widest
                           /\ fx.config \/ fx'.bufs[b].dirty <= a
    BY <1>1, <1>5, Zenon DEF Quiet
  <1>6. CASE b \in Modified(osc')
    <2>1. Side(b) \in 0 .. 2 /\ (~fx.config => Side(b) = 0) /\ fx'.bufs[b].dirty = a + Widest
      BY <1>1, <1>3, <1>6 DEF a
    <2>2. fx.config => fx'.effect >= a + Latency
      BY <1>1 DEF a
    <2> QED
      BY <1>4, <2>1, <2>2, ExtraNat
  <1>7. CASE b \notin Modified(osc')
    <2>1. fx'.bufs[b].dirty = fx.bufs[b].dirty /\ fx.bufs[b].dirty \in Nat
      BY <1>1, <1>2, <1>7
    <2>2. /\ Side(b) > 2 => fx.bufs[b].dirty = 0
          /\ Side(b) \in {1, 2} /\ fx.bufs[b].dirty > 0 =>
               fx.bufs[b].dirty <= 0 + Widest /\ (fx.enabled \/ fx.bufs[b].dirty <= 0)
      BY <1>5 DEF Quiet
    <2>3. fx.enabled => fx'.effect >= a + Latency
      BY <1>1 DEF a
    <2>4. Widest = 16
      BY SMT DEF Widest
    <2> QED
      BY <1>4, <2>1, <2>2, <2>3, <2>4
  <1> QED
    BY <1>6, <1>7

\* While such a buffer has sound, the mixer takes the samples of its group's first three.
LEMMA ReadIsQuiet ==
  ASSUME IInv, Quiet(fx), ReadSamples
  PROVE  Quiet(fx')
  <1> DEFINE n    == Count(fx, remain)
             time == due - read * One
             D    == DOMAIN fx.bufs
  <1>1. fx' = ReadChunk(fx, n) /\ n > 0
    BY DEF ReadSamples
  <1>2. n \in Nat /\ n <= Avail(fx.bufs[0])
    BY CountBounds
  <1>3. /\ D \subseteq Int /\ fx.effect \in Int /\ time \in Int /\ FxTyped(fx) /\ 0 \in D
        /\ \A b \in D : fx.bufs[b] \in Blip /\ fx.bufs[b].offset = time
    BY BuffersInTime, Available
  <1> HIDE DEF n, time
  <1> DEFINE a == time \div One
  <1>4. a \in Int /\ n <= a /\ \A b \in D : Avail(fx.bufs[b]) = a
    <2>1. \A b \in D : Avail(fx.bufs[b]) = a
      BY <1>3 DEF Avail
    <2> QED
      BY <1>2, <1>3, <2>1, OneNat, Division
  <1>5. PICK y : y = ReadChunk(fx, n)
    OBVIOUS
  <1>6. /\ y.bufs = [b \in D |-> IF Side(b) < Mixer(fx).active THEN RemoveSamples(fx.bufs[b], n)
                                                           ELSE RemoveSilence(fx.bufs[b], n)]
        /\ y.effect = IF fx.effect > n THEN fx.effect - n ELSE 0
        /\ y.enabled = fx.enabled
    BY <1>3, <1>5 DEF ReadChunk, FxTyped
  <1>7. (time - n * One) \div One = a - n
    <2>1. n * One \in Int /\ time - n * One \in Int
      BY <1>2, <1>3, OneNat
    <2>2. /\ a \in Int /\ time % One \in Int /\ time = a * One + (time % One)
          /\ 0 <= time % One /\ time % One < One
      BY <1>3, OneNat, Division
    <2> DEFINE q == (time - n * One) \div One
               r == (time - n * One) % One
    <2>3. q \in Int /\ r \in Int /\ time - n * One = q * One + r /\ 0 <= r /\ r < One
      BY <2>1, OneNat, Division
    <2> HIDE DEF a, q, r
    <2>4. a - n \in Int /\ (a - n) * One = a * One - n * One /\ a * One \in Int /\ q * One \in Int
          /\ (a - n) * One \in Int
      BY <1>2, <2>2, <2>3, OneNat
    <2>5. q * One < (a - n) * One + One /\ (a - n) * One < q * One + One
      BY <2>1, <2>2, <2>3, <2>4, OneNat
    <2>6. CASE q > a - n
      <3>1. (a - n + 1) * One <= q * One /\ (a - n + 1) * One = (a - n) * One + One
        BY <2>3, <2>4, <2>6, OneNat, Scaling
      <3> QED
        BY <2>4, <2>5, <3>1, OneNat
    <2>7. CASE q < a - n
      <3>1. (q + 1) * One <= (a - n) * One /\ (q + 1) * One = q * One + One
        BY <2>3, <2>4, <2>7, OneNat, Scaling
      <3> QED
        BY <2>4, <2>5, <3>1, OneNat
    <2> QED
      BY <2>3, <2>4, <2>6, <2>7 DEF q
  <1> HIDE DEF a
  <1>8. ASSUME NEW b \in D
        PROVE  /\ Avail(y.bufs[b]) = a - n
               /\ y.bufs[b].dirty = IF Side(b) < Mixer(fx).active
                                    THEN IF fx.bufs[b].dirty > n THEN fx.bufs[b].dirty - n ELSE 0
                                    ELSE fx.bufs[b].dirty
    <2>1. PICK r \in Blip : r = fx.bufs[b] /\ r.offset = time
      BY <1>3
    <2> DEFINE silent == RemoveSilence(r, n)
    <2>2. n * One \in Int
      BY <1>2, OneNat
    <2>3. silent.offset = time - n * One /\ silent.dirty = r.dirty
          /\ silent = [offset |-> silent.offset, dirty |-> silent.dirty]
      <3>1. silent = [r EXCEPT !.offset = @ - n * One]
        BY DEF RemoveSilence
      <3> HIDE DEF silent
      <3> QED
        BY <2>1, <2>2, <3>1 DEF Blip
    <2> HIDE DEF silent
    <2>4. RemoveSamples(r, n) = [silent EXCEPT !.dirty = IF @ > n THEN @ - n ELSE 0]
      BY <1>1 DEF RemoveSamples, silent
    <2>5. /\ RemoveSamples(r, n).offset = time - n * One
          /\ RemoveSamples(r, n).dirty = IF r.dirty > n THEN r.dirty - n ELSE 0
      BY <2>3, <2>4
    <2>6. y.bufs[b] = IF Side(b) < Mixer(fx).active THEN RemoveSamples(r, n) ELSE silent
      BY <1>6, <2>1 DEF silent
    <2> QED
      BY <1>7, <2>1, <2>3, <2>5, <2>6 DEF Avail
  <1>9. fx.effect > 0 => Mixer(fx).active >= 3
    BY DEF Mixer, PerVoice
  <1> SUFFICES ASSUME NEW b \in D
               PROVE  /\ Side(b) > 2 => y.bufs[b].dirty = 0
                      /\ Side(b) \in {1, 2} /\ y.bufs[b].dirty > 0 =>
                           /\ y.effect >= a - n + Latency
                           /\ y.bufs[b].dirty <= a - n + Widest
                           /\ y.enabled \/ y.bufs[b].dirty <= a - n
    <2>1. DOMAIN y.bufs = D
      BY <1>6
    <2> QED
      BY <1>1, <1>5, <1>8, <2>1, Zenon DEF Quiet
  <1>10. /\ Side(b) > 2 => fx.bufs[b].dirty = 0
         /\ Side(b) \in {1, 2} /\ fx.bufs[b].dirty > 0 =>
              /\ fx.effect >= a + Latency
              /\ fx.bufs[b].dirty <= a + Widest
              /\ fx.enabled \/ fx.bufs[b].dirty <= a
    BY <1>4 DEF Quiet
  <1>11. fx.bufs[b].dirty \in Nat /\ Side(b) \in Int
    BY <1>3, SidesOfSeven DEF Blip
  <1>12. CASE fx.bufs[b].dirty = 0
    <2>1. y.bufs[b].dirty = 0
      BY <1>2, <1>8, <1>12
    <2> QED
      BY <2>1
  <1>13. CASE fx.bufs[b].dirty > 0 /\ Side(b) \in {1, 2}
    <2>1. Latency = 8 /\ Widest = 16
      BY SMT DEF Latency, Widest
    <2>2. fx.effect >= a + 8 /\ fx.effect > 0
      BY <1>1, <1>2, <1>3, <1>4, <1>10, <1>13, <2>1
    <2>3. y.bufs[b].dirty = IF fx.bufs[b].dirty > n THEN fx.bufs[b].dirty - n ELSE 0
      <3>1. Side(b) < Mixer(fx).active
        <4>1. Mixer(fx).active = 3 \/ Mixer(fx).active = 7
          BY <2>2 DEF Mixer, PerVoice
        <4> QED
          BY <1>13, <4>1
      <3> QED
        BY <1>8, <3>1
    <2>4. y.effect = fx.effect - n
      BY <1>2, <1>3, <1>4, <1>6, <2>2
    <2> QED
      BY <1>2, <1>3, <1>4, <1>6, <1>10, <1>11, <1>13, <2>1, <2>2, <2>3, <2>4
  <1>14. CASE fx.bufs[b].dirty > 0 /\ Side(b) \notin {1, 2}
    BY <1>10, <1>11, <1>14
  <1> QED
    BY <1>11, <1>12, <1>13, <1>14

LEMMA NextQuiet == IInv /\ FileInv /\ QuietInv /\ [Next]_vars => QuietInv'
  <1> SUFFICES ASSUME IInv, FileInv, Quiet(fx), [Next]_vars PROVE Quiet(fx')
    BY DEF QuietInv
  <1>1. ASSUME fx' = fx PROVE Quiet(fx')
    BY <1>1
  <1>2. ASSUME NEW g, fx' = NewEffects(g) PROVE Quiet(fx')
    <2>1. \A b \in DOMAIN fx'.bufs : fx'.bufs[b] = NewBlip
      BY <1>2 DEF NewEffects
    <2> QED
      BY <2>1, EmptyIsQuiet
  <1>3. FxTyped(fx)
    BY DEF IInv, InTime
  <1>4. ASSUME fx' = ClearAll(fx) PROVE Quiet(fx')
    <2>1. \A b \in DOMAIN fx'.bufs : fx'.bufs[b] = NewBlip
      BY <1>3, <1>4 DEF ClearAll, FxTyped
    <2> QED
      BY <2>1, EmptyIsQuiet
  <1>5. ASSUME NEW on, fx' = SetDepth(fx, on) PROVE Quiet(fx')
    <2>1. fx'.bufs = fx.bufs /\ fx'.effect = fx.effect /\ fx'.enabled = fx.enabled
      BY <1>3, <1>5 DEF SetDepth, FxTyped
    <2> QED
      BY <2>1, Zenon DEF Quiet
  <1>6. CASE UNCHANGED vars
    BY <1>1, <1>6 DEF vars
  <1>7. ASSUME \/ \E g \in Groups : New(g)
               \/ \E f \in Files, by_path \in BOOLEAN : Open(f, by_path)
               \/ Delete
        PROVE  Quiet(fx')
    BY <1>1, <1>2, <1>7, Zenon DEF New, Open, Delete, Renewed
  <1>8. ASSUME \/ \E f \in Files : Load(f)
               \/ LoadNothing
               \/ \E p \in Playlists : LoadM3u(p)
               \/ DropPlaylist
               \/ \E mask \in Masks : Mute(mask)
               \/ \E block \in Blocks : Play(block)
        PROVE  Quiet(fx')
    BY <1>1, <1>8 DEF Load, LoadNothing, LoadM3u, DropPlaylist, Mute, Play, SameSound
  <1>9. ASSUME NEW n \in 0 .. 3, StartTrack(n) PROVE Quiet(fx')
    BY <1>1, <1>4, <1>9 DEF StartTrack, SameSound
  <1>10. ASSUME NEW on \in BOOLEAN, SetStereoDepth(on) PROVE Quiet(fx')
    BY <1>5, <1>10 DEF SetStereoDepth
  <1>11. CASE PlayOn
    BY <1>11, ReadIsQuiet, FrameIsQuiet DEF PlayOn
  <1> QED
    BY <1>6, <1>7, <1>8, <1>9, <1>10, <1>11, Zenon DEF Next

\* Whatever a chip has added to a buffer is in one of those the next mixer takes samples from.
THEOREM SoundIsHeard == Spec => []NothingIsSkipped
  <1>1. Init => QuietInv
    <2> SUFFICES ASSUME Init PROVE Quiet(fx)
      BY DEF QuietInv
    <2>1. PICK g \in Groups : fx = NewEffects(g)
      BY DEF Init
    <2>2. \A b \in DOMAIN fx.bufs : fx.bufs[b] = NewBlip
      BY <2>1 DEF NewEffects
    <2> QED
      BY <2>2, EmptyIsQuiet
  <1>2. IInv /\ QuietInv => NothingIsSkipped
    <2> SUFFICES ASSUME IInv, Quiet(fx), NEW b \in DOMAIN fx.bufs,
                        fx.bufs[b].dirty > 0, Avail(fx.bufs[b]) > 0
                 PROVE  Side(b) \in Mixer(fx).heard
      BY DEF NothingIsSkipped, QuietInv
    <2>1. b \in Int /\ fx.effect \in Int /\ fx.bufs[b].offset \in Int
      BY BuffersInTime
    <2>2. Avail(fx.bufs[b]) \in Int
      BY <2>1, OneNat, Division DEF Avail
    <2>3. Side(b) \in 0 .. 2
      BY <2>1, SidesOfSeven DEF Quiet
    <2>4. CASE Side(b) = 0
      BY <2>4 DEF Mixer, MixEnhanced, MixMonoEnhanced, MixStereo, MixMono
    <2>5. CASE Side(b) \in {1, 2}
      <3>1. fx.effect >= Avail(fx.bufs[b]) + Latency /\ Latency = 8
        BY <2>5, SMT DEF Quiet, Latency, Widest
      <3>2. fx.effect > 0
        BY <2>1, <2>2, <3>1
      <3> QED
        BY <2>5, <3>2 DEF Mixer, MixEnhanced, MixMonoEnhanced
    <2> QED
      BY <2>3, <2>4, <2>5
  <1> QED
    BY <1>1, <1>2, NextQuiet, EmuInvariant, FileInvariant, PTL DEF Spec
=============================================================================
