-------------------------- MODULE CpuLockstepProofs --------------------------
(***************************************************************************)
(* The two 6502 cores do the same, for every tune, until it leaves what    *)
(* both players give it (apart in CpuLockstep), and for every way to cut   *)
(* it into runs; their clocks differ by what the operands cost.            *)
(*                                                                         *)
(* Alike relates a state within run() to one of the stepping core: lazy    *)
(* flags to flags, a stack address to a stack byte, memory to memory. Each *)
(* class of instructions has a lemma (AluStep, ...) that its step in one   *)
(* core's switch and the step in the other's keep the two alike; StepAlike *)
(* puts them together. The lemmas on time (AluTime, ...) say what a class  *)
(* adds to the clocks of the table.                                        *)
(***************************************************************************)
EXTENDS CpuLockstep, SequenceTheorems, TLAPS

-----------------------------------------------------------------------------
(* Flags *)

\* The flags p of one core are the ones the other has in status, nz and c.
FlagsAre(p, status, nz, c) ==
    /\ nz \in Word /\ c \in Word /\ status = p \cap {"V", "D", "I"}
    /\ p \subseteq FlagNames
    /\ "N" \in p <=> BitOf(nz, 7) = 1 \/ BitOf(nz, 15) = 1
    /\ "Z" \in p <=> U8(nz) = 0
    /\ "C" \in p <=> BitOf(c, 8) = 1

\* What UpdateNz leaves of the flags p after the result k.
Updated(p, k) == WithFlag(WithFlag(p, "Z", k = 0), "N", BitOf(k, 7) = 1)

\* UpdateNz changes N and Z only, by the sign of the result and by its being 0.
LEMMA UpdatedIs ==
    ASSUME NEW p, NEW k
    PROVE  /\ "N" \in Updated(p, k) <=> BitOf(k, 7) = 1
           /\ "Z" \in Updated(p, k) <=> k = 0
           /\ \A f : f \notin {"N", "Z"} => (f \in Updated(p, k) <=> f \in p)
  BY DEF Updated, WithFlag

\* A byte is a word; its low byte is the byte and its bit 15 is clear.
LEMMA BitsOfByte ==
    ASSUME NEW k \in Byte
    PROVE  k \in Word /\ (U8(k) = 0 <=> k = 0) /\ BitOf(k, 15) # 1
  <1>1. k \in Word
    BY DEF Byte, Word
  <1>2. U8(k) = 0 <=> k = 0
    BY DEF Byte, U8
  <1>3. BitOf(k, 15) # 1
    BY DEF Byte, BitOf
  <1> QED
    BY <1>1, <1>2, <1>3

\* N and Z of nz are those of the byte k.
NzOf(nz, k) == /\ nz \in Word
               /\ BitOf(nz, 7) = 1 \/ BitOf(nz, 15) = 1 <=> BitOf(k, 7) = 1
               /\ U8(nz) = 0 <=> k = 0

\* A result in nz gives both cores the same N and Z, and leaves the other flags alike.
LEMMA ResultFlags ==
    ASSUME NEW p, NEW s, NEW k, NEW nz, NEW c,
           s = p \cap {"V", "D", "I"}, p \subseteq FlagNames,
           c \in Word, "C" \in p <=> BitOf(c, 8) = 1,
           NzOf(nz, k)
    PROVE  FlagsAre(Updated(p, k), s, nz, c)
  <1>1. Updated(p, k) \subseteq FlagNames /\ s = Updated(p, k) \cap {"V", "D", "I"}
    BY UpdatedIs DEF FlagNames
  <1>2. "C" \in Updated(p, k) <=> BitOf(c, 8) = 1
    BY UpdatedIs DEF FlagNames
  <1> QED
    BY <1>1, <1>2, UpdatedIs DEF FlagsAre, NzOf

\* A byte in nz stands for its own N and Z.
LEMMA ByteNz == ASSUME NEW k \in Byte PROVE NzOf(k, k)
  BY BitsOfByte DEF NzOf

\* A byte that is loaded leaves both cores with the same flags.
LEMMA LoadFlags ==
    ASSUME NEW p, NEW s, NEW nz, NEW c, FlagsAre(p, s, nz, c), NEW k, NEW new, NzOf(new, k)
    PROVE  FlagsAre(Updated(p, k), s, new, c)
  <1>1. /\ s = p \cap {"V", "D", "I"} /\ p \subseteq FlagNames
        /\ c \in Word /\ ("C" \in p <=> BitOf(c, 8) = 1)
    BY DEF FlagsAre
  <1> QED
    BY <1>1, ResultFlags

\* INC keeps its sum in nz without taking its low byte: N and Z are still those of the byte.
LEMMA NzPlus ==
    ASSUME NEW k \in Byte
    PROVE  NzOf(k + 1, U8(k + 1)) /\ k + 1 \in Word /\ U16(k + 1) = k + 1 /\ U8(k + 1) \in Byte
  <1>1. k + 1 \in Word
    BY DEF Byte, Word
  <1>5. U16(k + 1) = k + 1
    BY DEF Byte, U16
  <1>6. U8(k + 1) \in Byte
    BY DEF Byte, U8
  <1>2. U8(k + 1) = 0 <=> U8(k + 1) = 0
    OBVIOUS
  <1>3. BitOf(k + 1, 7) = BitOf(U8(k + 1), 7)
    BY DEF U8, BitOf, Byte
  <1>4. BitOf(k + 1, 15) # 1
    BY DEF BitOf, Byte
  <1> QED
    BY <1>1, <1>3, <1>4, <1>5, <1>6 DEF NzOf

\* DEC keeps its difference in nz as a uint16_t: N and Z are still those of the byte.
LEMMA NzMinus ==
    ASSUME NEW k \in Byte
    PROVE  NzOf(U16(k - 1), U8(k - 1)) /\ U8(k - 1) \in Byte /\ U8(U16(k - 1)) = U8(k - 1)
  <1>1. CASE k < 1
    <2> DEFINE m == U16(k - 1)
               b == U8(k - 1)
    <2>1. m = 65535
      BY <1>1 DEF U16, Byte
    <2>2. b = 255
      BY <1>1 DEF U8, Byte
    <2>3. BitOf(65535, 7) = 1 /\ BitOf(255, 7) = 1
      BY DEF BitOf
    <2>4. U8(65535) = 255 
      BY DEF U8
    <2>5. 65535 \in Word /\ 255 \in Byte
      BY DEF Word, Byte
    <2> HIDE DEF m, b
    <2> QED
      BY <2>1, <2>2, <2>3, <2>4, <2>5 DEF NzOf, m, b
  <1>2. CASE ~(k < 1)
    <2>1. k - 1 \in Byte
      BY <1>2 DEF Byte
    <2>2. U8(k - 1) = k - 1
      BY <1>2 DEF U8, Byte
    <2>3. U16(k - 1) = k - 1
      BY <1>2 DEF U16, Byte
    <2> QED
      BY <2>1, <2>2, <2>3, ByteNz
  <1> QED
    BY <1>1, <1>2

\* The carry of a comparison: bit 8 of the complement is set unless the byte was larger.
LEMMA CompareValues ==
    ASSUME NEW a \in Byte, NEW k \in Byte
    PROVE  /\ U8(a - k) \in Byte /\ 65535 - U16(a - k) \in Word
           /\ BitOf(65535 - U16(a - k), 8) = 1 <=> a >= k
  <1>1. CASE a >= k
    <2> DEFINE d == a - k
    <2>1. d \in Byte /\ U16(a - k) = d
      BY <1>1 DEF Byte, U16
    <2> HIDE DEF d
    <2>2. BitOf(65535 - d, 8) = 1
      BY <2>1 DEF Byte, BitOf
    <2>3. U8(d) \in Byte
      BY <2>1 DEF Byte, U8
    <2>4. 65535 - d \in Word
      BY <2>1 DEF Byte, Word
    <2> QED
      BY <1>1, <2>1, <2>2, <2>3, <2>4 DEF d
  <1>2. CASE ~(a >= k)
    <2> DEFINE d == k - a - 1
    <2>1. d \in Byte /\ 255 - d \in Byte /\ d \in Word
      BY <1>2 DEF Byte, Word
    <2>2. U16(a - k) = 65535 - d 
      BY <1>2 DEF Byte, U16
    <2>3. U8(a - k) = 255 - d
      BY <1>2 DEF Byte, U8
    <2> HIDE DEF d
    <2>4. BitOf(d, 8) # 1
      BY <2>1 DEF Byte, BitOf
    <2>5. 65535 - U16(a - k) = d
      BY <2>1, <2>2 DEF Byte
    <2> QED
      BY <1>2, <2>1, <2>3, <2>4, <2>5
  <1> QED
    BY <1>1, <1>2
Compared(p, s, a, k) ==
    FlagsAre(Updated(WithFlag(p, "C", a >= k), U8(a - k)), s, U8(a - k), 65535 - U16(a - k))

\* A comparison leaves both cores with the same flags.
LEMMA CompareFlags ==
    ASSUME NEW p, NEW s, NEW nz, NEW c, FlagsAre(p, s, nz, c), NEW a \in Byte, NEW k \in Byte
    PROVE  Compared(p, s, a, k)
  <1> DEFINE q == WithFlag(p, "C", a >= k)
  <1>1. s = q \cap {"V", "D", "I"} /\ q \subseteq FlagNames /\ ("C" \in q <=> a >= k)
    BY DEF FlagsAre, WithFlag, FlagNames
  <1> HIDE DEF q
  <1>2. "C" \in q <=> BitOf(65535 - U16(a - k), 8) = 1
    BY <1>1, CompareValues
  <1> QED
    BY <1>1, <1>2, CompareValues, ResultFlags, ByteNz DEF q, Compared

\* a ^ 0x80 moves a byte by half of its range.
LEMMA XorTop ==
    ASSUME NEW a \in Byte
    PROVE  XorB(a, 128) = IF a < 128 THEN a + 128 ELSE a - 128
  BY DEF Byte, XorB, OfBits, BitOf

\* &, | and ^ of two bytes are bytes.
LEMMA LogicBytes ==
    ASSUME NEW a \in Byte, NEW k \in Byte
    PROVE  AndB(a, k) \in Byte /\ OrB(a, k) \in Byte /\ XorB(a, k) \in Byte
  <1>1. AndB(a, k) \in Byte
    BY DEF Byte, AndB, OfBits, BitOf
  <1>2. OrB(a, k) \in Byte
    BY DEF Byte, OrB, OfBits, BitOf
  <1>3. XorB(a, k) \in Byte
    BY DEF Byte, XorB, OfBits, BitOf
  <1> QED
    BY <1>1, <1>2, <1>3

\* Nothing is left of a byte masked with 0.
LEMMA AndZero ==
    ASSUME NEW a \in Byte
    PROVE  AndB(a, 0) = 0
    BY DEF Byte, AndB, OfBits, BitOf

\* A status byte taken apart (SET_STATUS) gives both cores the same flags.
LEMMA StatusFlags ==
    ASSUME NEW k \in Byte
    PROVE  FlagsAre((FlagsOf(k) \ {"B"}) \cup {"U"}, FlagsOf(k) \cap {"V", "D", "I"},
                    k * 256 + (IF "Z" \in FlagsOf(k) THEN 0 ELSE 2), k * 256)
  <1> DEFINE z == IF "Z" \in FlagsOf(k) THEN 0 ELSE 2
             nz == k * 256 + z
  <1>1. z \in {0, 2} /\ ("Z" \in FlagsOf(k) <=> z = 0)
    OBVIOUS
  <1>2. "N" \in FlagsOf(k) <=> (k \div 128) % 2 = 1
    BY DEF FlagsOf, FlagNames, Weight
  <1>3. "C" \in FlagsOf(k) <=> (k \div 1) % 2 = 1
    BY DEF FlagsOf, FlagNames, Weight
  <1> HIDE DEF z
  <1>4. nz \in Word
    BY <1>1 DEF Byte, Word
  <1>5. U8(nz) = z
    BY <1>1 DEF Byte, U8
  <1>6. BitOf(nz, 7) # 1 
    BY <1>1 DEF Byte, BitOf
  <1>7. BitOf(nz, 15) = (k \div 128) % 2
    BY <1>1 DEF Byte, BitOf
  <1>8. k * 256 \in Word
    BY DEF Byte, Word
  <1>9. BitOf(k * 256, 8) = (k \div 1) % 2
    BY DEF Byte, BitOf
  <1>10. FlagsOf(k) \subseteq FlagNames
    BY DEF FlagsOf
  <1> HIDE DEF nz
  <1>11. FlagsAre((FlagsOf(k) \ {"B"}) \cup {"U"}, FlagsOf(k) \cap {"V", "D", "I"}, nz, k * 256)
    BY <1>1, <1>2, <1>3, <1>4, <1>5, <1>6, <1>7, <1>8, <1>9, <1>10 DEF FlagsAre, FlagNames
  <1> QED
    BY <1>11 DEF nz, z

\* Any set of flags makes a byte.
LEMMA ByteOfIs ==
    ASSUME NEW S
    PROVE  ByteOf(S) \in Byte
  BY DEF ByteOf, Weight, Byte

\* The flags of the byte made from a set of flags are that set.
LEMMA FlagsOfByte ==
    ASSUME NEW S
    PROVE  FlagsOf(ByteOf(S)) = S \cap FlagNames
  <1> DEFINE W(f) == IF f \in S THEN Weight[f] ELSE 0
  <1>1. /\ W("N") = IF "N" \in S THEN 128 ELSE 0
        /\ W("V") = IF "V" \in S THEN 64 ELSE 0
        /\ W("U") = IF "U" \in S THEN 32 ELSE 0
        /\ W("B") = IF "B" \in S THEN 16 ELSE 0
        /\ W("D") = IF "D" \in S THEN 8 ELSE 0
        /\ W("I") = IF "I" \in S THEN 4 ELSE 0
        /\ W("Z") = IF "Z" \in S THEN 2 ELSE 0
        /\ W("C") = IF "C" \in S THEN 1 ELSE 0
    BY DEF Weight
  <1>2. ByteOf(S) = W("N") + W("V") + W("U") + W("B") + W("D") + W("I") + W("Z") + W("C")
    BY DEF ByteOf
  <1> HIDE DEF W
  <1>3. /\ (ByteOf(S) \div 128) % 2 = 1 <=> "N" \in S
        /\ (ByteOf(S) \div 64) % 2 = 1 <=> "V" \in S
        /\ (ByteOf(S) \div 32) % 2 = 1 <=> "U" \in S
        /\ (ByteOf(S) \div 16) % 2 = 1 <=> "B" \in S
        /\ (ByteOf(S) \div 8) % 2 = 1 <=> "D" \in S
        /\ (ByteOf(S) \div 4) % 2 = 1 <=> "I" \in S
        /\ (ByteOf(S) \div 2) % 2 = 1 <=> "Z" \in S
        /\ (ByteOf(S) \div 1) % 2 = 1 <=> "C" \in S
    BY <1>1, <1>2
  <1>4. \A f \in FlagNames : (ByteOf(S) \div Weight[f]) % 2 = 1 <=> f \in S
    BY <1>3 DEF FlagNames, Weight
  <1> QED
    BY <1>4 DEF FlagsOf

\* The V of an addition: game-music-emu finds it in bit 8 of a sum of biased bytes, the other
\* core by comparing signs.
LEMMA Overflow ==
    ASSUME NEW a \in Byte, NEW k \in Byte, NEW c \in 0 .. 1
    PROVE  BitOf(U16(XorB(a, 128) + c + S8(k)), 8) = 1
             <=> BitOf(a, 7) = BitOf(k, 7) /\ BitOf(a, 7) # BitOf(a + k + c, 7)
  <1> DEFINE sa == IF a < 128 THEN a ELSE a - 256
             sk == IF k < 128 THEN k ELSE k - 256
             t == sa + sk + c
  <1>1. XorB(a, 128) = sa + 128
    BY XorTop DEF Byte
  <1>2. S8(k) = sk
    BY DEF S8, Byte
  <1>3. sa \in -128 .. 127 /\ sk \in -128 .. 127 /\ t \in -256 .. 255
    BY DEF Byte
  <1>4. BitOf(U16(t + 128), 8) = 1 <=> t < -128 \/ t > 127
    <2> HIDE DEF t
    <2>1. CASE t < -128
      BY <1>3, <2>1 DEF U16, BitOf
    <2>2. CASE t >= -128
      BY <1>3, <2>2 DEF U16, BitOf
    <2> QED
      BY <1>3, <2>1, <2>2
  <1>5. /\ BitOf(a, 7) = IF a < 128 THEN 0 ELSE 1
        /\ BitOf(k, 7) = IF k < 128 THEN 0 ELSE 1
    BY DEF BitOf, Byte
  <1>6. BitOf(a + k + c, 7) = ((a + k + c) \div 128) % 2
    BY DEF BitOf, Byte
  <1>7. t < -128 \/ t > 127 <=> BitOf(a, 7) = BitOf(k, 7) /\ BitOf(a, 7) # BitOf(a + k + c, 7)
    BY <1>5, <1>6 DEF Byte
  <1>9. t = sa + sk + c /\ sa \in Int /\ sk \in Int
    BY <1>3
  <1> HIDE DEF sa, sk, t
  <1>8. XorB(a, 128) + c + S8(k) = t + 128
    BY <1>1, <1>2, <1>9
  <1> HIDE DEF t
  <1> QED
    BY <1>4, <1>7, <1>8

\* The sum of an addition is a word, and carries when it is more than 255.
LEMMA AdcValues ==
    ASSUME NEW a \in Byte, NEW k \in Byte, NEW c \in 0 .. 1
    PROVE  /\ a + k + c \in Word /\ U8(a + k + c) \in Byte
           /\ NzOf(a + k + c, U8(a + k + c))
           /\ BitOf(a + k + c, 8) = 1 <=> a + k + c > 255
  <1> DEFINE s == a + k + c
  <1>1. s \in 0 .. 511
    BY DEF Byte
  <1> HIDE DEF s
  <1>2. s \in Word
    BY <1>1 DEF Word
  <1>3. U8(s) \in Byte
    BY <1>1 DEF U8, Byte
  <1>4. BitOf(s, 8) = 1 <=> s > 255
    BY <1>1 DEF BitOf
  <1>5. BitOf(s, 15) # 1
    BY <1>1 DEF BitOf
  <1>6. BitOf(s, 7) = BitOf(U8(s), 7)
    BY <1>1 DEF BitOf, U8
  <1> QED
    BY <1>2, <1>3, <1>4, <1>5, <1>6 DEF s, NzOf

\* An addition leaves both cores with the same flags.
LEMMA AdcFlags ==
    ASSUME NEW p, NEW s, NEW nz, NEW c, FlagsAre(p, s, nz, c), NEW sum \in Word, NEW over \in BOOLEAN,
           NzOf(sum, U8(sum)), BitOf(sum, 8) = 1 <=> sum > 255
    PROVE  FlagsAre(Updated(WithFlag(WithFlag(p, "C", sum > 255), "V", over), U8(sum)),
                    WithFlag(s, "V", over), sum, sum)
  <1> DEFINE q == WithFlag(WithFlag(p, "C", sum > 255), "V", over)
  <1>1. WithFlag(s, "V", over) = q \cap {"V", "D", "I"}
    BY DEF FlagsAre, WithFlag
  <1>2. q \subseteq FlagNames /\ ("C" \in q <=> sum > 255)
    BY DEF FlagsAre, WithFlag, FlagNames
  <1> HIDE DEF q
  <1>3. FlagsAre(Updated(q, U8(sum)), WithFlag(s, "V", over), sum, sum)
    BY <1>1, <1>2, ResultFlags
  <1> QED
    BY <1>3 DEF q

\* BIT leaves both cores with the same flags: with a result of 0, nz has the byte's sign in bit 15.
LEMMA BitFlags ==
    ASSUME NEW p, NEW s, NEW nz, NEW c, FlagsAre(p, s, nz, c), NEW a \in Byte, NEW k \in Byte
    PROVE  FlagsAre(WithFlag(WithFlag(WithFlag(p, "Z", AndB(a, k) = 0), "V", BitOf(k, 6) = 1), "N", BitOf(k, 7) = 1),
                    WithFlag(s, "V", BitOf(k, 6) = 1),
                    IF AndB(a, k) # 0 THEN k ELSE U16(k * 256), c)
  <1> DEFINE z == AndB(a, k) = 0
             v == BitOf(k, 6) = 1
             new == IF AndB(a, k) # 0 THEN k ELSE U16(k * 256)
             q == WithFlag(WithFlag(WithFlag(p, "Z", z), "V", v), "N", BitOf(k, 7) = 1)
  <1>1. WithFlag(s, "V", v) = q \cap {"V", "D", "I"}
    BY DEF FlagsAre, WithFlag
  <1>2. q \subseteq FlagNames /\ ("C" \in q <=> BitOf(c, 8) = 1) /\ ("Z" \in q <=> z)
        /\ ("N" \in q <=> BitOf(k, 7) = 1)
    BY DEF FlagsAre, WithFlag, FlagNames
  <1>3. U16(k * 256) \in Word /\ U8(U16(k * 256)) = 0
    BY DEF U16, U8, Byte, Word
  <1>4. BitOf(U16(k * 256), 7) # 1 /\ BitOf(U16(k * 256), 15) = BitOf(k, 7)
    BY DEF U16, BitOf, Byte
  <1>5. ~z => k # 0
    BY AndZero
  <1>6. /\ new \in Word /\ (BitOf(new, 7) = 1 \/ BitOf(new, 15) = 1 <=> BitOf(k, 7) = 1)
        /\ U8(new) = 0 <=> z
    BY <1>3, <1>4, <1>5, BitsOfByte
  <1> QED
    BY <1>1, <1>2, <1>6 DEF FlagsAre

\* A shift kind
Kind == [ASL |-> 0, ROL |-> 32, LSR |-> 64, ROR |-> 96]

\* A shift has the same result and carry on both cores.
LEMMA ShiftAgrees ==
    ASSUME NEW ins \in {"ASL", "ROL", "LSR", "ROR"}, NEW op, ShiftBase(op) = Kind[ins],
           NEW k \in Byte, NEW cin \in 0 .. 1
    PROVE  LET s == Shifted(op, k, cin)
               t == ShiftResult(ins, k, cin)
           IN  /\ t.v \in Byte /\ U8(s.nz) = t.v /\ NzOf(s.nz, t.v)
               /\ s.c \in Word /\ (BitOf(s.c, 8) = 1 <=> t.c = 1)
  <1> DEFINE s == Shifted(op, k, cin)
             t == ShiftResult(ins, k, cin)
  <1>1. CASE ins \in {"ASL", "ROL"}
    <2> DEFINE b == IF ins = "ASL" THEN 0 ELSE cin
    <2>1. s.nz = 2 * k + b /\ s.c = 2 * k
      BY <1>1 DEF Shifted, Kind
    <2>0. U8(2 * k) + 0 = U8(2 * k)
      BY DEF U8, Byte
    <2>2. t.v = U8(2 * k) + b /\ t.c = BitOf(k, 7)
      BY <1>1, <2>0 DEF ShiftResult
    <2>3. b \in 0 .. 1
      BY <1>1
    <2> HIDE DEF b
    <2>4. U8(2 * k + b) = U8(2 * k) + b
      BY <2>3 DEF U8, Byte
    <2>5. U8(2 * k) + b \in Byte
      BY <2>3 DEF U8, Byte
    <2>6. 2 * k \in Word /\ 2 * k + b \in Word
      BY <2>3 DEF Byte, Word
    <2>7. BitOf(2 * k, 8) = BitOf(k, 7)
      BY DEF Byte, BitOf
    <2>8. BitOf(2 * k + b, 7) = BitOf(U8(2 * k + b), 7) /\ BitOf(2 * k + b, 15) # 1
      BY <2>3 DEF Byte, BitOf, U8
    <2>9. NzOf(s.nz, t.v)
      BY <2>1, <2>2, <2>4, <2>6, <2>8 DEF NzOf
    <2> QED
      BY <2>1, <2>2, <2>4, <2>5, <2>6, <2>7, <2>9
  <1>2. CASE ins \in {"LSR", "ROR"}
    <2> DEFINE b == IF ins = "LSR" THEN 0 ELSE cin
               w == k \div 2 + 128 * b
    <2>1. s.nz = w /\ s.c = 256 * k
      BY <1>2 DEF Shifted, Kind
    <2>2. t.v = w /\ t.c = BitOf(k, 0)
      BY <1>2 DEF ShiftResult, Byte
    <2>3. b \in 0 .. 1
      BY <1>2
    <2>4. w \in Byte
      BY <2>3 DEF Byte
    <2> HIDE DEF w
    <2>5. U8(w) = w
      BY <2>4 DEF Byte, U8
    <2>6. 256 * k \in Word
      BY DEF Byte, Word
    <2>7. BitOf(256 * k, 8) = BitOf(k, 0)
      BY DEF Byte, BitOf
    <2>8. NzOf(w, w)
      BY <2>4, ByteNz
    <2> QED
      BY <2>1, <2>2, <2>4, <2>5, <2>6, <2>7, <2>8
  <1> QED
    BY <1>1, <1>2

(* Memory *)
IsMemory(m) == DOMAIN m \subseteq Word /\ \A a \in Word : At(m, a) \in Byte
SameMemory(m, k) == IsMemory(m) /\ IsMemory(k) /\ \A a \in Word \ ApuRegs : At(m, a) = At(k, a)

\* What a memory holds after a store.
LEMMA PutIs ==
    ASSUME NEW m, NEW a, NEW k
    PROVE  /\ DOMAIN Put(m, a, k) = DOMAIN m \cup {a}
           /\ \A b : At(Put(m, a, k), b) = IF b = a THEN k ELSE At(m, b)
  BY DEF Put, At

\* A memory of bytes stays one.
LEMMA PutBytes ==
    ASSUME NEW m, IsMemory(m), NEW a \in Word, NEW k \in Byte
    PROVE  IsMemory(Put(m, a, k))
  <1>1. DOMAIN Put(m, a, k) \subseteq Word
    BY DEF Put, IsMemory
  <1>2. ASSUME NEW b \in Word PROVE At(Put(m, a, k), b) \in Byte
    <2>1. At(Put(m, a, k), b) = IF b = a THEN k ELSE At(m, b)
      BY DEF Put, At
    <2> QED
      BY <2>1 DEF IsMemory
  <1> QED
    BY <1>1, <1>2 DEF IsMemory

\* The same store keeps two memories the same.
LEMMA PutSame ==
    ASSUME NEW m, NEW h, SameMemory(m, h), NEW a \in Word, NEW k \in Byte
    PROVE  SameMemory(Put(m, a, k), Put(h, a, k))
  <1>1. ASSUME NEW b \in Word \ ApuRegs PROVE At(Put(m, a, k), b) = At(Put(h, a, k), b)
    <2>1. /\ At(Put(m, a, k), b) = IF b = a THEN k ELSE At(m, b)
          /\ At(Put(h, a, k), b) = IF b = a THEN k ELSE At(h, b)
      BY DEF Put, At
    <2> QED
      BY <2>1 DEF SameMemory
  <1> QED
    BY <1>1, PutBytes DEF SameMemory

\* A register of the sound chip is kept in the memory of one core only, and is not compared.
LEMMA PutApart ==
    ASSUME NEW m, NEW h, SameMemory(m, h), NEW a \in ApuRegs, a \in Word, NEW k \in Byte
    PROVE  SameMemory(m, Put(h, a, k))
  <1>1. ASSUME NEW b \in Word \ ApuRegs PROVE At(m, b) = At(Put(h, a, k), b)
    <2>1. At(Put(h, a, k), b) = IF b = a THEN k ELSE At(h, b)
      BY DEF Put, At
    <2> QED
      BY <2>1 DEF SameMemory
  <1> QED
    BY <1>1, PutBytes DEF SameMemory

\* Where the RAM, the cartridge and the registers of the sound chip lie, and how game-music-emu
\* tells them apart.
LEMMA Places ==
    /\ \A a \in LowRam : /\ a \in Word \ ApuRegs /\ a \notin Sram
                         /\ a < 8192 /\ a % 2048 = a /\ a \notin Cartridge /\ ~(a > 65535)
    /\ \A a \in Cartridge : a \in Word \ ApuRegs /\ ~(a < 8192) /\ ~(a > 65535)
    /\ \A a \in Sram : a \in Word \ ApuRegs /\ ~(a < 8192)
    /\ \A a \in ApuRegs : a \in Word /\ ~(a < 8192) /\ a \notin Sram
  <1>1. ASSUME NEW a \in LowRam
        PROVE  /\ a \in Word \ ApuRegs /\ a \notin Sram
               /\ a < 8192 /\ a % 2048 = a /\ a \notin Cartridge /\ ~(a > 65535)
    <2>1. a \in Int /\ 0 <= a /\ a < 2048
      BY DEF LowRam
    <2>2. a \in Word
      BY <2>1 DEF Word
    <2>3. a \notin ApuRegs
      BY <2>1 DEF ApuRegs
    <2>4. a \notin Sram
      BY <2>1 DEF Sram
    <2>5. a \notin Cartridge
      BY <2>1 DEF Cartridge
    <2> QED
      BY <2>1, <2>2, <2>3, <2>4, <2>5
  <1>2. ASSUME NEW a \in Cartridge
        PROVE  a \in Word \ ApuRegs /\ ~(a < 8192) /\ ~(a > 65535)
    <2>1. a \in Int /\ 24576 <= a /\ a < 65536
      BY DEF Cartridge, Word
    <2>2. a \in Word
      BY DEF Cartridge
    <2>3. a \notin ApuRegs
      BY <2>1 DEF ApuRegs
    <2> QED
      BY <2>1, <2>2, <2>3
  <1>3. ASSUME NEW a \in Sram
        PROVE  a \in Word \ ApuRegs /\ ~(a < 8192)
    <2>1. a \in Int /\ 24576 <= a /\ a < 32768
      BY DEF Sram, Word
    <2>2. a \in Word
      BY DEF Sram
    <2>3. a \notin ApuRegs
      BY <2>1 DEF ApuRegs
    <2> QED
      BY <2>1, <2>2, <2>3
  <1>4. ASSUME NEW a \in ApuRegs
        PROVE  a \in Word /\ ~(a < 8192) /\ a \notin Sram
    <2>1. a \in Int /\ 16384 <= a /\ a < 16408
      BY DEF ApuRegs
    <2>2. a \in Word
      BY <2>1 DEF Word
    <2>3. a \notin Sram
      BY <2>1 DEF Sram
    <2> QED
      BY <2>1, <2>2, <2>3
  <1> QED
    BY <1>1, <1>2, <1>3, <1>4

\* A stack pointer kept as the address last pushed and one kept as a byte name the same places.
LEMMA StackPlaces ==
    ASSUME NEW s \in Byte, NEW i \in -3 .. 3
    PROVE  /\ U8(s + i) \in Byte
           /\ InStack(s + i) = 256 + U8(s + i)
           /\ 256 + U8(s + i) \in Word \ ApuRegs
           /\ InStack(SetSp(s) + i) = 256 + U8(s + i + 1)
           /\ U8(SetSp(s) + i) = U8(s + i + 1)
  <1>1. U8(s + i) \in Byte
    BY DEF U8, Byte
  <1>2. InStack(s + i) = 256 + U8(s + i)
    BY DEF InStack, U8, Byte
  <1>3. 256 + U8(s + i) \in Word \ ApuRegs
    <2>1. 256 + U8(s + i) \in 0 .. 511
      BY <1>1 DEF Byte
    <2>2. 256 + U8(s + i) \in Word
      BY <2>1 DEF Word
    <2>3. 256 + U8(s + i) \notin ApuRegs
      BY <2>1 DEF ApuRegs
    <2> QED
      BY <2>2, <2>3
  <1>4. InStack(SetSp(s) + i) = 256 + U8(s + i + 1)
    BY DEF InStack, SetSp, U8, Byte
  <1>5. U8(SetSp(s) + i) = U8(s + i + 1)
    BY DEF InStack, SetSp, U8, Byte
  <1> QED
    BY <1>1, <1>2, <1>3, <1>4, <1>5

GFields == {"pc", "a", "x", "y", "sp", "status", "nz", "c", "s_time", "base", "end_time",
            "mem", "apu", "errors", "stopped"}
NFields == {"pc", "a", "x", "y", "sp", "p", "mem", "apu", "cycles", "halted", "reads", "writes"}

SameRegs(u, v) ==
    /\ v.pc \in Word /\ v.a \in Byte /\ v.x \in Byte /\ v.y \in Byte /\ v.sp \in Byte
    /\ u.pc = v.pc /\ u.a = v.a /\ u.x = v.x /\ u.y = v.y
    /\ u.sp = SetSp(v.sp)
Alike(u, v) ==
    /\ DOMAIN u = GFields /\ DOMAIN v = NFields
    /\ SameRegs(u, v)
    /\ FlagsAre(v.p, u.status, u.nz, u.c)
    /\ SameMemory(u.mem, v.mem) /\ u.apu = v.apu

\* What both players can read lies in the RAM or in the cartridge.
LEMMA ReadablePlaces == \A a \in Readable : a \in LowRam \cup Cartridge
  <1>1. ASSUME NEW a \in Rom PROVE a \in Cartridge
    <2>1. a \in Word /\ 32768 <= a
      BY FileAssumption
    <2>2. 24576 <= a
      BY <2>1 DEF Word
    <2> QED
      BY <2>1, <2>2 DEF Cartridge
  <1>2. \A a \in Sram : a \in Cartridge
    BY DEF Sram, Cartridge
  <1> QED
    BY <1>1, <1>2 DEF Readable

\* CPU_READ finds the byte the other core's memory holds.
LEMMA ReadSame ==
    ASSUME NEW u, NEW v, SameMemory(u.mem, v.mem), NEW a \in Readable
    PROVE  CpuRead(u, a) = At(v.mem, a) /\ At(v.mem, a) \in Byte
  <1>1. a \in Word \ ApuRegs
    BY Places, ReadablePlaces
  <1>2. At(u.mem, a) = At(v.mem, a) /\ At(v.mem, a) \in Byte
    BY <1>1 DEF SameMemory, IsMemory
  <1>3. CASE a \in LowRam
    <2>1. a < 8192 /\ a % 2048 = a /\ ~(a > 65535) /\ ~(a \in Cartridge)
      BY <1>3, Places
    <2> QED
      BY <2>1, <1>2 DEF CpuRead
  <1>4. CASE a \in Cartridge
    <2>1. ~(a < 8192) /\ ~(a > 65535)
      BY <1>4, Places
    <2> QED
      BY <2>1, <1>2, <1>4 DEF CpuRead
  <1> QED
    BY <1>3, <1>4, ReadablePlaces

\* READ_LOW finds the byte the other core's memory holds.
LEMMA LowSame ==
    ASSUME NEW u, NEW v, SameMemory(u.mem, v.mem), NEW a \in Int
    PROVE  /\ Low(u, a) = At(v.mem, U8(a)) /\ At(v.mem, U8(a)) \in Byte
  <1>1. U8(a) \in 0 .. 255
    BY DEF U8
  <1>2. U8(a) \in Word \ ApuRegs
    <2>1. U8(a) \in Word
      BY <1>1 DEF Word
    <2>2. U8(a) \notin ApuRegs
      BY <1>1 DEF ApuRegs
    <2> QED
      BY <2>1, <2>2
  <1> QED
    BY <1>2 DEF SameMemory, IsMemory, Low

\* A store where both cores hold the same keeps them alike, and reaches the sound chip on both.
LEMMA WriteSame ==
    ASSUME NEW u, NEW v, Alike(u, v), NEW a \in Writable, NEW k \in Byte
    PROVE  Alike(CpuWrite(u, a, k), MemWrite(v, a, k))
  <1> DEFINE w == MemWrite(v, a, k)
  <1>1. /\ DOMAIN w = NFields /\ w.mem = Put(v.mem, a, k)
        /\ w.apu = IF a \in ApuRegs THEN Append(v.apu, <<a, k>>) ELSE v.apu
        /\ \A f \in NFields \ {"mem", "apu", "writes"} : w[f] = v[f]
    BY DEF MemWrite, Alike, NFields
  <1>2. a \in Word
    BY Places DEF Writable
  <1>3. CASE a \in LowRam \cup Sram
    <2>1. a \notin ApuRegs /\ CpuWrite(u, a, k) = [u EXCEPT !.mem = Put(@, a, k)]
      <3>1. CASE a \in LowRam
        <4>1. a < 8192 /\ a % 2048 = a /\ a \notin Sram /\ a \notin ApuRegs
          BY <3>1, Places
        <4> QED
          BY <4>1 DEF CpuWrite
      <3>2. CASE a \in Sram
        <4>1. ~(a < 8192) /\ a \notin ApuRegs
          BY <3>2, Places
        <4> QED
          BY <3>2, <4>1 DEF CpuWrite
      <3> QED
        BY <1>3, <3>1, <3>2
    <2> DEFINE h == [u EXCEPT !.mem = Put(@, a, k)]
    <2>2. DOMAIN h = GFields /\ h.mem = Put(u.mem, a, k) /\ \A f \in GFields \ {"mem"} : h[f] = u[f]
      BY DEF Alike, GFields
    <2>3. SameMemory(h.mem, w.mem)
      BY <1>1, <1>2, <2>2, PutSame DEF Alike
    <2> HIDE DEF h, w
    <2>4. SameRegs(h, w) /\ FlagsAre(w.p, h.status, h.nz, h.c) /\ h.apu = w.apu
      BY <1>1, <2>1, <2>2 DEF Alike, SameRegs, NFields, GFields
    <2> QED
      BY <1>1, <2>1, <2>2, <2>3, <2>4 DEF Alike, h, w
  <1>4. CASE a \in ApuRegs
    <2>1. CpuWrite(u, a, k) = [u EXCEPT !.apu = Append(@, <<a, k>>)]
      <3>1. ~(a < 8192) /\ a \notin Sram
        BY <1>4, Places
      <3> QED
        BY <1>4, <3>1 DEF CpuWrite
    <2> DEFINE h == [u EXCEPT !.apu = Append(@, <<a, k>>)]
    <2>2. DOMAIN h = GFields /\ h.apu = Append(u.apu, <<a, k>>) /\ \A f \in GFields \ {"apu"} : h[f] = u[f]
      BY DEF Alike, GFields
    <2>3. SameMemory(h.mem, w.mem)
      BY <1>1, <1>2, <1>4, <2>2, PutApart DEF Alike, GFields
    <2> HIDE DEF h, w
    <2>4. SameRegs(h, w) /\ FlagsAre(w.p, h.status, h.nz, h.c) /\ h.apu = w.apu
      BY <1>1, <1>4, <2>2 DEF Alike, SameRegs, NFields, GFields
    <2> QED
      BY <1>1, <2>1, <2>2, <2>3, <2>4 DEF Alike, h, w
  <1> QED
    BY <1>3, <1>4 DEF Writable

-----------------------------------------------------------------------------
(* Operations on registers *)

\* h is u with pc moved and time passed; w is v likewise.
Moved(h, u, k) ==
    /\ DOMAIN h = GFields /\ h.pc = U16(u.pc + k)
    /\ \A f \in GFields \ {"pc", "s_time"} : h[f] = u[f]
Passed(w, v, k) ==
    /\ DOMAIN w = NFields /\ w.pc = U16(v.pc + k)
    /\ \A f \in NFields \ {"pc", "cycles", "reads", "writes"} : w[f] = v[f]

\* Both cores pass the same bytes of the instruction.
LEMMA MovedAlike ==
    ASSUME NEW u, NEW v, Alike(u, v), NEW k \in Int, NEW h, NEW w, Moved(h, u, k), Passed(w, v, k)
    PROVE  Alike(h, w)
  <1>1. U16(v.pc + k) \in Word /\ U16(u.pc + k) = U16(v.pc + k)
    BY DEF Alike, SameRegs, U16, Word
  <1>2. SameRegs(h, w)
    BY <1>1 DEF Moved, Passed, Alike, SameRegs, GFields, NFields
  <1>3. h.mem = u.mem /\ h.apu = u.apu /\ w.mem = v.mem /\ w.apu = v.apu
    BY DEF Moved, Passed, GFields, NFields
  <1>4. h.status = u.status /\ h.nz = u.nz /\ h.c = u.c /\ w.p = v.p
    BY DEF Moved, Passed, GFields, NFields
  <1> QED
    BY <1>2, <1>3, <1>4 DEF Moved, Passed, Alike

\* A register and its flags.
Loaded(h, u, f, k, nz) ==
    /\ DOMAIN h = GFields /\ h.nz = nz /\ h[f] = k
    /\ \A e \in GFields \ {f, "nz"} : h[e] = u[e]
LoadedN(w, v, f, k) ==
    /\ DOMAIN w = NFields /\ w.p = Updated(v.p, k) /\ w[f] = k
    /\ \A e \in NFields \ {f, "p"} : w[e] = v[e]

\* Both cores load the same byte into the same register.
LEMMA LoadedAlike ==
    ASSUME NEW u, NEW v, Alike(u, v), NEW k \in Byte, NEW nz, NzOf(nz, k),
           NEW f \in {"a", "x", "y"}, NEW h, NEW w, Loaded(h, u, f, k, nz), LoadedN(w, v, f, k)
    PROVE  Alike(h, w)
  <1>1. FlagsAre(Updated(v.p, k), u.status, nz, u.c)
    BY LoadFlags DEF Alike
  <1>2. SameRegs(h, w)
    BY DEF Loaded, LoadedN, Alike, SameRegs, GFields, NFields
  <1>3. /\ h.status = u.status /\ h.c = u.c /\ h.mem = u.mem /\ h.apu = u.apu
        /\ w.mem = v.mem /\ w.apu = v.apu
    BY DEF Loaded, LoadedN, GFields, NFields
  <1> QED
    BY <1>1, <1>2, <1>3 DEF Loaded, LoadedN, Alike

\* Both cores load the same byte into A, X or Y.
LEMMA LoadSame ==
    ASSUME NEW u, NEW v, Alike(u, v), NEW k \in Byte, NEW nz, NzOf(nz, k)
    PROVE  /\ Alike([u EXCEPT !.a = k, !.nz = nz], UpdateNz([v EXCEPT !.a = k], k))
           /\ Alike([u EXCEPT !.x = k, !.nz = nz], UpdateNz([v EXCEPT !.x = k], k))
           /\ Alike([u EXCEPT !.y = k, !.nz = nz], UpdateNz([v EXCEPT !.y = k], k))
  <1>1. /\ Loaded([u EXCEPT !.a = k, !.nz = nz], u, "a", k, nz)
        /\ Loaded([u EXCEPT !.x = k, !.nz = nz], u, "x", k, nz)
        /\ Loaded([u EXCEPT !.y = k, !.nz = nz], u, "y", k, nz)
    BY DEF Alike, Loaded, GFields
  <1>2. /\ LoadedN(UpdateNz([v EXCEPT !.a = k], k), v, "a", k)
        /\ LoadedN(UpdateNz([v EXCEPT !.x = k], k), v, "x", k)
        /\ LoadedN(UpdateNz([v EXCEPT !.y = k], k), v, "y", k)
    BY DEF Alike, LoadedN, UpdateNz, Updated, NFields
  <1> QED
    BY <1>1, <1>2, LoadedAlike

\* CMP, CPX, CPY
FlagsOnly(h, u) == /\ DOMAIN h = GFields
                   /\ \A e \in GFields \ {"status", "nz", "c"} : h[e] = u[e]
POnly(w, v) == DOMAIN w = NFields /\ \A e \in NFields \ {"p"} : w[e] = v[e]

\* Both cores change nothing but flags, to the same ones.
LEMMA FlagsAlike ==
    ASSUME NEW u, NEW v, Alike(u, v), NEW h, NEW w, FlagsOnly(h, u), POnly(w, v),
           FlagsAre(w.p, h.status, h.nz, h.c)
    PROVE  Alike(h, w)
  BY DEF FlagsOnly, POnly, Alike, SameRegs, GFields, NFields

\* CMP, CPX and CPY of the same bytes keep the cores alike.
LEMMA CompareSame ==
    ASSUME NEW u, NEW v, Alike(u, v), NEW a \in Byte, NEW k \in Byte
    PROVE  Alike(Compare(u, a, k), OpCmp(v, a, k))
  <1> DEFINE h == Compare(u, a, k)
             w == OpCmp(v, a, k)
             nz == U8(a - k)
             c == 65535 - U16(a - k)
  <1>0. h = [u EXCEPT !.nz = nz, !.c = c]
    BY DEF Compare
  <1> HIDE DEF nz, c
  <1>1. FlagsOnly(h, u) /\ h.status = u.status /\ h.nz = nz /\ h.c = c
    BY <1>0 DEF Alike, FlagsOnly, GFields
  <1>2. POnly(w, v) /\ w.p = Updated(WithFlag(v.p, "C", a >= k), U8(a - k))
    BY DEF OpCmp, SetFlag, UpdateNz, Updated, Alike, POnly, NFields
  <1>3. Compared(v.p, u.status, a, k)
    BY CompareFlags DEF Alike
  <1>4. FlagsAre(w.p, h.status, h.nz, h.c)
    BY <1>1, <1>2, <1>3 DEF Compared, nz, c
  <1> QED
    BY <1>1, <1>2, <1>4, FlagsAlike

\* The carry is the same bit on both.
CarryIn(v) == IF "C" \in v.p THEN 1 ELSE 0

\* The carry that an addition or a shift takes in is the same bit on both.
LEMMA CarryIs ==
    ASSUME NEW u, NEW v, Alike(u, v)
    PROVE  Carry(u) = CarryIn(v) /\ CarryIn(v) \in 0 .. 1
  <1>1. u.c \in Word /\ ("C" \in v.p <=> BitOf(u.c, 8) = 1)
    BY DEF Alike, FlagsAre
  <1>2. BitOf(u.c, 8) \in {0, 1}
    BY <1>1 DEF BitOf, Word
  <1> QED
    BY <1>1, <1>2 DEF Carry, CarryIn

\* An addition of the same byte keeps the cores alike.
LEMMA AdcSame ==
    ASSUME NEW u, NEW v, Alike(u, v), NEW k \in Byte
    PROVE  Alike(Adc(u, k), OpAdc(v, k))
  <1> DEFINE h == Adc(u, k)
             w == OpAdc(v, k)
             c == CarryIn(v)
             sum == v.a + k + c
             over == BitOf(v.a, 7) = BitOf(k, 7) /\ BitOf(v.a, 7) # BitOf(sum, 7)
             ov == BitOf(U16(XorB(v.a, 128) + c + S8(k)), 8) = 1
  <1>1. v.a \in Byte /\ u.a = v.a /\ Carry(u) = c /\ c \in 0 .. 1
    BY CarryIs DEF Alike, SameRegs
  <1>2. /\ DOMAIN h = GFields /\ h.status = WithFlag(u.status, "V", ov)
        /\ h.nz = sum /\ h.c = sum /\ h.a = U8(sum)
        /\ \A e \in GFields \ {"status", "nz", "c", "a"} : h[e] = u[e]
    BY <1>1 DEF Adc, Alike, GFields
  <1>3. /\ DOMAIN w = NFields
        /\ w.p = Updated(WithFlag(WithFlag(v.p, "C", sum > 255), "V", over), U8(sum))
        /\ w.a = U8(sum)
        /\ \A e \in NFields \ {"p", "a"} : w[e] = v[e]
    BY <1>1 DEF OpAdc, SetFlag, UpdateNz, Updated, Alike, NFields, CarryIn
  <1>4. ov <=> over
    BY <1>1, Overflow
  <1>5. sum \in Word /\ U8(sum) \in Byte /\ NzOf(sum, U8(sum)) /\ (BitOf(sum, 8) = 1 <=> sum > 255)
    BY <1>1, AdcValues
  <1> HIDE DEF sum, over, ov
  <1>6. WithFlag(u.status, "V", ov) = WithFlag(u.status, "V", over)
    BY <1>4 DEF WithFlag
  <1>7. over \in BOOLEAN
    BY DEF over
  <1>8. FlagsAre(Updated(WithFlag(WithFlag(v.p, "C", sum > 255), "V", over), U8(sum)),
                 WithFlag(u.status, "V", over), sum, sum)
    BY <1>5, <1>7, AdcFlags DEF Alike
  <1> HIDE DEF h, w
  <1>9. SameRegs(h, w)
    BY <1>2, <1>3, <1>5 DEF Alike, SameRegs, GFields, NFields
  <1>10. h.mem = u.mem /\ h.apu = u.apu /\ w.mem = v.mem /\ w.apu = v.apu
    BY <1>2, <1>3 DEF GFields, NFields
  <1> QED
    BY <1>2, <1>3, <1>6, <1>8, <1>9, <1>10 DEF Alike, h, w

\* What Alike looks at.
Timely(h, u) == /\ DOMAIN h = GFields
                /\ \A e \in GFields \ {"s_time", "base", "end_time", "errors", "stopped"} : h[e] = u[e]
Counted(w, v) == /\ DOMAIN w = NFields
                 /\ \A e \in NFields \ {"cycles", "halted", "reads", "writes"} : w[e] = v[e]

\* Time, errors and what was read and written do not tell the cores apart.
LEMMA TimelyAlike ==
    ASSUME NEW u, NEW v, Alike(u, v), NEW h, NEW w, Timely(h, u), Counted(w, v)
    PROVE  Alike(h, w)
  <1>1. SameRegs(h, w)
    BY DEF Timely, Counted, Alike, SameRegs, GFields, NFields
  <1>2. /\ h.mem = u.mem /\ h.apu = u.apu /\ w.mem = v.mem /\ w.apu = v.apu
        /\ h.status = u.status /\ h.nz = u.nz /\ h.c = u.c /\ w.p = v.p
    BY DEF Timely, Counted, GFields, NFields
  <1> QED
    BY <1>1, <1>2 DEF Timely, Counted, Alike

\* BIT on both.
BitsAlike(u, v, k) ==
    Alike([u EXCEPT !.status = WithFlag(@, "V", BitOf(k, 6) = 1),
                    !.nz = IF AndB(u.a, k) # 0 THEN k ELSE U16(k * 256)],
          SetFlag(SetFlag(SetFlag(v, "Z", AndB(v.a, k) = 0), "V", BitOf(k, 6) = 1),
                  "N", BitOf(k, 7) = 1))

\* BIT of the same byte keeps the cores alike.
LEMMA BitSame ==
    ASSUME NEW u, NEW v, Alike(u, v), NEW k \in Byte
    PROVE  BitsAlike(u, v, k)
  <1> DEFINE over == BitOf(k, 6) = 1
             nz == IF AndB(u.a, k) # 0 THEN k ELSE U16(k * 256)
             h == [u EXCEPT !.status = WithFlag(@, "V", over), !.nz = nz]
             p == WithFlag(WithFlag(WithFlag(v.p, "Z", AndB(v.a, k) = 0), "V", over), "N", BitOf(k, 7) = 1)
             w == SetFlag(SetFlag(SetFlag(v, "Z", AndB(v.a, k) = 0), "V", over), "N", BitOf(k, 7) = 1)
  <1>1. v.a \in Byte /\ u.a = v.a
    BY DEF Alike, SameRegs
  <1>2. FlagsAre(p, WithFlag(u.status, "V", over), nz, u.c)
    BY <1>1, BitFlags DEF Alike
  <1>3. POnly(w, v) /\ w.p = p
    BY DEF SetFlag, Alike, POnly, NFields
  <1> HIDE DEF over, nz, p
  <1>4. FlagsOnly(h, u) /\ h.status = WithFlag(u.status, "V", over) /\ h.nz = nz /\ h.c = u.c
    BY DEF Alike, FlagsOnly, GFields
  <1>5. Alike(h, w)
    BY <1>2, <1>3, <1>4, FlagsAlike
  <1> QED
    BY <1>5 DEF over, nz, BitsAlike

\* A status byte that is pulled keeps the cores alike.
LEMMA StatusSame ==
    ASSUME NEW u, NEW v, Alike(u, v), NEW k \in Byte
    PROVE  Alike(SetStatus(u, k), SetP(v, k))
  <1> DEFINE s == FlagsOf(k) \cap {"V", "D", "I"}
             p == (FlagsOf(k) \ {"B"}) \cup {"U"}
             c == k * 256
             nz == k * 256 + (IF "Z" \in FlagsOf(k) THEN 0 ELSE 2)
  <1>1. SetStatus(u, k) = [u EXCEPT !.status = s, !.c = c, !.nz = nz]
    BY DEF SetStatus
  <1>2. SetP(v, k) = [v EXCEPT !.p = p]
    BY DEF SetP
  <1>3. FlagsAre(p, s, nz, c)
    BY StatusFlags
  <1> HIDE DEF s, p, c, nz
  <1>4. /\ FlagsOnly(SetStatus(u, k), u) /\ SetStatus(u, k).status = s
        /\ SetStatus(u, k).nz = nz /\ SetStatus(u, k).c = c
    BY <1>1 DEF Alike, FlagsOnly, GFields
  <1>5. POnly(SetP(v, k), v) /\ SetP(v, k).p = p
    BY <1>2 DEF Alike, POnly, NFields
  <1> QED
    BY <1>3, <1>4, <1>5, FlagsAlike

\* Each flag that a branch or a push looks at is the same on both.
LEMMA FlagsSame ==
    ASSUME NEW u, NEW v, Alike(u, v)
    PROVE  /\ "N" \in v.p <=> IsNeg(u)
           /\ "Z" \in v.p <=> IsZero(u)
           /\ "C" \in v.p <=> Carry(u) = 1
           /\ Carry(u) = 0 \/ Carry(u) = 1
           /\ \A f \in {"V", "D", "I"} : f \in u.status <=> f \in v.p
           /\ CalcStatus(u) = v.p \ {"U", "B"}
  <1>1. /\ "N" \in v.p <=> IsNeg(u)
        /\ "Z" \in v.p <=> IsZero(u)
        /\ "C" \in v.p <=> Carry(u) = 1
        /\ \A f \in {"V", "D", "I"} : f \in u.status <=> f \in v.p
    BY DEF Alike, FlagsAre, IsNeg, IsZero, Carry
  <1>2. u.status = v.p \cap {"V", "D", "I"} /\ v.p \subseteq FlagNames
    BY DEF Alike, FlagsAre
  <1>3. CalcStatus(u) = v.p \ {"U", "B"}
    BY <1>1, <1>2 DEF CalcStatus, FlagNames
  <1>4. Carry(u) = 0 \/ Carry(u) = 1
    BY CarryIs
  <1> QED
    BY <1>1, <1>3, <1>4

\* A flag set or cleared, on both.
FlagAlike(u, v, f) ==
    /\ Alike([u EXCEPT !.status = @ \cup {f}], [v EXCEPT !.p = @ \cup {f}])
    /\ Alike([u EXCEPT !.status = @ \ {f}], [v EXCEPT !.p = @ \ {f}])
CarryAlike(u, v) ==
    /\ Alike([u EXCEPT !.c = 65535], [v EXCEPT !.p = @ \cup {"C"}])
    /\ Alike([u EXCEPT !.c = 0], [v EXCEPT !.p = @ \ {"C"}])

\* SEC and CLC keep the cores alike.
LEMMA CarrySame ==
    ASSUME NEW u, NEW v, Alike(u, v)
    PROVE  CarryAlike(u, v)
  <1>1. ASSUME NEW c \in Word, NEW p, p \subseteq FlagNames, p \ {"C"} = v.p \ {"C"},
               "C" \in p <=> BitOf(c, 8) = 1
        PROVE  Alike([u EXCEPT !.c = c], [v EXCEPT !.p = p])
    <2> DEFINE h == [u EXCEPT !.c = c]
               w == [v EXCEPT !.p = p]
    <2>1. FlagsOnly(h, u) /\ h.status = u.status /\ h.nz = u.nz /\ h.c = c
      BY DEF Alike, FlagsOnly, GFields
    <2>2. POnly(w, v) /\ w.p = p
      BY DEF Alike, POnly, NFields
    <2>3. FlagsAre(v.p, u.status, u.nz, u.c)
      BY DEF Alike
    <2>4. \A f : f # "C" => (f \in p <=> f \in v.p)
      BY <1>1
    <2>5. p \cap {"V", "D", "I"} = v.p \cap {"V", "D", "I"}
      BY <2>4
    <2>6. FlagsAre(p, u.status, u.nz, c)
      BY <1>1, <2>3, <2>4, <2>5 DEF FlagsAre
    <2> QED
      BY <2>1, <2>2, <2>6, FlagsAlike
  <1>2. 65535 \in Word /\ 0 \in Word
    BY DEF Word
  <1>3. BitOf(65535, 8) = 1 /\ BitOf(0, 8) # 1
    BY DEF BitOf
  <1>4. v.p \subseteq FlagNames
    BY DEF Alike, FlagsAre
  <1> DEFINE p1 == v.p \cup {"C"}
             p0 == v.p \ {"C"}
  <1>5. p1 \subseteq FlagNames /\ p1 \ {"C"} = v.p \ {"C"} /\ "C" \in p1
    BY <1>4 DEF FlagNames
  <1>6. p0 \subseteq FlagNames /\ p0 \ {"C"} = v.p \ {"C"} /\ "C" \notin p0
    BY <1>4
  <1> HIDE DEF p1, p0
  <1>7. Alike([u EXCEPT !.c = 65535], [v EXCEPT !.p = p1])
    BY <1>1, <1>2, <1>3, <1>5
  <1>8. Alike([u EXCEPT !.c = 0], [v EXCEPT !.p = p0])
    BY <1>1, <1>2, <1>3, <1>6
  <1> QED
    BY <1>7, <1>8 DEF CarryAlike, p1, p0

\* Setting or clearing V, D or I keeps the cores alike.
LEMMA FlagSame ==
    ASSUME NEW u, NEW v, Alike(u, v), NEW f \in {"V", "D", "I"}
    PROVE  FlagAlike(u, v, f)
  <1>1. ASSUME NEW s, NEW p, p \subseteq FlagNames, p \ {f} = v.p \ {f}, s = p \cap {"V", "D", "I"}
        PROVE  Alike([u EXCEPT !.status = s], [v EXCEPT !.p = p])
    <2> DEFINE h == [u EXCEPT !.status = s]
               w == [v EXCEPT !.p = p]
    <2>1. FlagsOnly(h, u) /\ h.status = s /\ h.nz = u.nz /\ h.c = u.c
      BY DEF Alike, FlagsOnly, GFields
    <2>2. POnly(w, v) /\ w.p = p
      BY DEF Alike, POnly, NFields
    <2>3. FlagsAre(v.p, u.status, u.nz, u.c)
      BY DEF Alike
    <2>4. \A e : e # f => (e \in p <=> e \in v.p)
      BY <1>1
    <2>5. FlagsAre(p, s, u.nz, u.c)
      BY <1>1, <2>3, <2>4 DEF FlagsAre
    <2> QED
      BY <2>1, <2>2, <2>5, FlagsAlike
  <1>2. v.p \subseteq FlagNames /\ u.status = v.p \cap {"V", "D", "I"}
    BY DEF Alike, FlagsAre
  <1> DEFINE p1 == v.p \cup {f}
             p0 == v.p \ {f}
             s1 == u.status \cup {f}
             s0 == u.status \ {f}
  <1>3. p1 \subseteq FlagNames /\ p1 \ {f} = v.p \ {f} /\ s1 = p1 \cap {"V", "D", "I"}
    BY <1>2 DEF FlagNames
  <1>4. p0 \subseteq FlagNames /\ p0 \ {f} = v.p \ {f} /\ s0 = p0 \cap {"V", "D", "I"}
    BY <1>2
  <1> HIDE DEF p1, p0, s1, s0
  <1>5. Alike([u EXCEPT !.status = s1], [v EXCEPT !.p = p1])
    BY <1>1, <1>3
  <1>6. Alike([u EXCEPT !.status = s0], [v EXCEPT !.p = p0])
    BY <1>1, <1>4
  <1> QED
    BY <1>5, <1>6 DEF FlagAlike, p1, p0, s1, s0

-----------------------------------------------------------------------------
(* Jumps, the stack and results *)

PcOnly(h, u, pc) == /\ DOMAIN h = DOMAIN u /\ h.pc = pc
                    /\ \A e \in (DOMAIN u) \ {"pc"} : h[e] = u[e]

\* A jump to the same place keeps the cores alike.
LEMMA PcSame ==
    ASSUME NEW u, NEW v, Alike(u, v), NEW pc \in Word
    PROVE  Alike([u EXCEPT !.pc = pc], [v EXCEPT !.pc = pc])
  <1> DEFINE h == [u EXCEPT !.pc = pc]
             w == [v EXCEPT !.pc = pc]
  <1>1. /\ DOMAIN h = GFields /\ h.pc = pc /\ \A e \in GFields \ {"pc"} : h[e] = u[e]
        /\ DOMAIN w = NFields /\ w.pc = pc /\ \A e \in NFields \ {"pc"} : w[e] = v[e]
    BY DEF Alike, GFields, NFields
  <1> HIDE DEF h, w
  <1>2. SameRegs(h, w)
    BY <1>1 DEF Alike, SameRegs, GFields, NFields
  <1>3. /\ h.mem = u.mem /\ h.apu = u.apu /\ w.mem = v.mem /\ w.apu = v.apu
        /\ h.status = u.status /\ h.nz = u.nz /\ h.c = u.c /\ w.p = v.p
    BY <1>1 DEF GFields, NFields
  <1>4. Alike(h, w)
    BY <1>1, <1>2, <1>3 DEF Alike
  <1> QED
    BY <1>4 DEF h, w

\* A push of the same byte keeps the cores alike.
LEMMA PushSame ==
    ASSUME NEW u, NEW v, Alike(u, v), NEW k \in Byte
    PROVE  Alike(Push(u, k), Push8(v, k))
  <1> DEFINE a == 256 + v.sp
             s == U8(v.sp - 1)
             g1 == InStack(u.sp - 1)
             h == [u EXCEPT !.sp = g1, !.mem = Put(@, g1, k)]
             w == [v EXCEPT !.mem = Put(@, a, k), !.sp = s]
  <1>1. v.sp \in Byte /\ u.sp = SetSp(v.sp)
    BY DEF Alike, SameRegs
  <1>2. s \in Byte /\ SetSp(s) = a /\ g1 = a
    BY <1>1 DEF SetSp, InStack, U8, Byte
  <1>3. a \in Word
    BY <1>1 DEF Byte, Word
  <1>4. h = Push(u, k) /\ w = Push8(v, k)
    BY DEF Push, Push8
  <1> HIDE DEF a, s, g1
  <1>5. /\ DOMAIN h = GFields /\ h.sp = g1 /\ h.mem = Put(u.mem, g1, k)
        /\ \A e \in GFields \ {"sp", "mem"} : h[e] = u[e]
    BY DEF Alike, GFields
  <1>6. /\ DOMAIN w = NFields /\ w.sp = s /\ w.mem = Put(v.mem, a, k)
        /\ \A e \in NFields \ {"sp", "mem"} : w[e] = v[e]
    BY DEF Alike, NFields
  <1> HIDE DEF h, w
  <1>7. SameMemory(h.mem, w.mem)
    BY <1>2, <1>3, <1>5, <1>6, PutSame DEF Alike
  <1>8. SameRegs(h, w)
    BY <1>2, <1>5, <1>6 DEF Alike, SameRegs, GFields, NFields
  <1>9. /\ h.apu = u.apu /\ w.apu = v.apu
        /\ h.status = u.status /\ h.nz = u.nz /\ h.c = u.c /\ w.p = v.p
    BY <1>5, <1>6 DEF GFields, NFields
  <1>10. Alike(h, w)
    BY <1>5, <1>6, <1>7, <1>8, <1>9 DEF Alike
  <1> QED
    BY <1>4, <1>10

\* A stack pointer moved past the same bytes keeps the cores alike.
LEMMA PullSame ==
    ASSUME NEW u, NEW v, Alike(u, v), NEW i \in 1 .. 3
    PROVE  Alike(Drop(u, i), Pull(v, i))
  <1> DEFINE s == U8(v.sp + i)
             g1 == InStack(u.sp + i)
             h == [u EXCEPT !.sp = g1]
             w == [v EXCEPT !.sp = s]
  <1>1. v.sp \in Byte /\ u.sp = SetSp(v.sp)
    BY DEF Alike, SameRegs
  <1>2. s \in Byte /\ SetSp(s) = g1
    BY <1>1 DEF SetSp, InStack, U8, Byte
  <1>4. h = Drop(u, i) /\ w = Pull(v, i)
    BY DEF Drop, Pull
  <1> HIDE DEF s, g1
  <1>5. DOMAIN h = GFields /\ h.sp = g1 /\ \A e \in GFields \ {"sp"} : h[e] = u[e]
    BY DEF Alike, GFields
  <1>6. DOMAIN w = NFields /\ w.sp = s /\ \A e \in NFields \ {"sp"} : w[e] = v[e]
    BY DEF Alike, NFields
  <1> HIDE DEF h, w
  <1>8. SameRegs(h, w)
    BY <1>2, <1>5, <1>6 DEF Alike, SameRegs, GFields, NFields
  <1>9. /\ h.apu = u.apu /\ w.apu = v.apu /\ h.mem = u.mem /\ w.mem = v.mem
        /\ h.status = u.status /\ h.nz = u.nz /\ h.c = u.c /\ w.p = v.p
    BY <1>5, <1>6 DEF GFields, NFields
  <1>10. Alike(h, w)
    BY <1>5, <1>6, <1>8, <1>9 DEF Alike
  <1> QED
    BY <1>4, <1>10

\* A byte pulled is the same on both.
LEMMA TopSame ==
    ASSUME NEW u, NEW v, Alike(u, v), NEW i \in 1 .. 3
    PROVE  Top(u, i) = Pulled(v, i) /\ Pulled(v, i) \in Byte
  <1> DEFINE a == 256 + U8(v.sp + i)
  <1>1. v.sp \in Byte /\ u.sp = SetSp(v.sp)
    BY DEF Alike, SameRegs
  <1>2. InStack(u.sp + i - 1) = a
    BY <1>1 DEF SetSp, InStack, U8, Byte
  <1>3. a \in 0 .. 511
    BY <1>1 DEF U8, Byte
  <1>4. a \in Word
    BY <1>3 DEF Word
  <1>5. a \notin ApuRegs
    BY <1>3 DEF ApuRegs
  <1>6. Top(u, i) = At(u.mem, a) /\ Pulled(v, i) = At(v.mem, a)
    BY <1>2 DEF Top, Pulled
  <1> HIDE DEF a
  <1> QED
    BY <1>4, <1>5, <1>6 DEF Alike, SameMemory, IsMemory

\* A shift's result and carry keep the cores alike.
LEMMA NewFlags ==
    ASSUME NEW u, NEW v, Alike(u, v), NEW k \in Byte, NEW nz, NzOf(nz, k),
           NEW c \in Word, NEW on \in BOOLEAN, BitOf(c, 8) = 1 <=> on
    PROVE  Alike([u EXCEPT !.nz = nz, !.c = c], UpdateNz(SetFlag(v, "C", on), k))
  <1> DEFINE h == [u EXCEPT !.nz = nz, !.c = c]
             q == WithFlag(v.p, "C", on)
             w == UpdateNz(SetFlag(v, "C", on), k)
  <1>1. FlagsOnly(h, u) /\ h.status = u.status /\ h.nz = nz /\ h.c = c
    BY DEF Alike, FlagsOnly, GFields
  <1>2. POnly(w, v) /\ w.p = Updated(q, k)
    BY DEF SetFlag, UpdateNz, Updated, Alike, POnly, NFields
  <1>3. u.status = q \cap {"V", "D", "I"} /\ q \subseteq FlagNames /\ ("C" \in q <=> BitOf(c, 8) = 1)
    BY DEF Alike, FlagsAre, WithFlag, FlagNames
  <1> HIDE DEF q
  <1>4. FlagsAre(Updated(q, k), u.status, nz, c)
    BY <1>3, ResultFlags
  <1> QED
    BY <1>1, <1>2, <1>4, FlagsAlike

\* The result of INC or DEC, which leaves the carry, keeps the cores alike.
LEMMA OldCarry ==
    ASSUME NEW u, NEW v, Alike(u, v), NEW k \in Byte, NEW nz, NzOf(nz, k)
    PROVE  Alike([u EXCEPT !.nz = nz], UpdateNz(v, k))
  <1> DEFINE h == [u EXCEPT !.nz = nz]
             w == UpdateNz(v, k)
  <1>1. FlagsOnly(h, u) /\ h.status = u.status /\ h.nz = nz /\ h.c = u.c
    BY DEF Alike, FlagsOnly, GFields
  <1>2. POnly(w, v) /\ w.p = Updated(v.p, k)
    BY DEF UpdateNz, Updated, Alike, POnly, NFields
  <1>4. FlagsAre(Updated(v.p, k), u.status, nz, u.c)
    BY LoadFlags DEF Alike
  <1> QED
    BY <1>1, <1>2, <1>4, FlagsAlike

\* The order of a store and of the flags of the byte stored does not matter.
LEMMA StoreThenFlags ==
    ASSUME NEW v, DOMAIN v = NFields, NEW a, NEW b, NEW k
    PROVE  Counted(UpdateNz(MemWrite(v, a, b), k), MemWrite(UpdateNz(v, k), a, b))
  <1> DEFINE p == WithFlag(WithFlag(v.p, "Z", k = 0), "N", BitOf(k, 7) = 1)
             m == Put(v.mem, a, b)
             t == IF a \in ApuRegs THEN Append(v.apu, <<a, b>>) ELSE v.apu
             w1 == UpdateNz(MemWrite(v, a, b), k)
             w2 == MemWrite(UpdateNz(v, k), a, b)
  <1>1. /\ DOMAIN w1 = NFields /\ w1.p = p /\ w1.mem = m /\ w1.apu = t
        /\ \A e \in NFields \ {"p", "mem", "apu", "writes"} : w1[e] = v[e]
    BY DEF UpdateNz, MemWrite, NFields
  <1>2. /\ DOMAIN w2 = NFields /\ w2.p = p /\ w2.mem = m /\ w2.apu = t
        /\ \A e \in NFields \ {"p", "mem", "apu", "writes"} : w2[e] = v[e]
    BY DEF UpdateNz, MemWrite, NFields
  <1> HIDE DEF w1, w2
  <1>3. Counted(w1, w2)
    BY <1>1, <1>2 DEF Counted, NFields
  <1> QED
    BY <1>3 DEF w1, w2

-----------------------------------------------------------------------------
(* Operands *)

\* Moving a 16-bit pc twice moves it by the sum.
LEMMA SkipTwice ==
    ASSUME NEW a \in Int, NEW i \in Int, NEW j \in Int
    PROVE  U16(U16(a + i) + j) = U16(a + (i + j))
  BY DEF U16

\* The ways in which game-music-emu passes the bytes of an instruction.
LEMMA MovedForms ==
    ASSUME NEW u, DOMAIN u = GFields, u.pc \in Word, NEW s
    PROVE  /\ Moved(Skip(u, 1), u, 1)
           /\ Moved(Skip(Late(u, s), 1), u, 1)
           /\ Moved(Skip(Skip(u, 1), 1), u, 2)
           /\ Moved(Skip(Late(Skip(u, 1), s), 1), u, 2)
           /\ Moved(Skip(u, 2), u, 2)
           /\ Moved(Late(Skip(u, 2), s), u, 2)
  <1>1. u.pc \in Int
    BY DEF Word
  <1>2. U16(U16(u.pc + 1) + 1) = U16(u.pc + 2)
    BY <1>1 DEF U16
  <1> USE DEF Moved, Skip, Late, GFields
  <1>3. Moved(Skip(u, 1), u, 1) /\ Moved(Skip(u, 2), u, 2)
    OBVIOUS
  <1>4. Moved(Skip(Late(u, s), 1), u, 1) /\ Moved(Late(Skip(u, 2), s), u, 2)
    OBVIOUS
  <1>5. Moved(Skip(Skip(u, 1), 1), u, 2)
    BY <1>2
  <1>6. Moved(Skip(Late(Skip(u, 1), s), 1), u, 2)
    BY <1>2
  <1> QED
    BY <1>3, <1>4, <1>5, <1>6

AluModes == {"imm", "zp", "zpx", "abs", "abx", "aby", "izx", "izy"}
\* The name of a mode in the other core.
GmeMode == [imm |-> "imm", zp |-> "zp", zpx |-> "zpx", abs |-> "abs", abx |-> "absx",
            aby |-> "absy", izx |-> "izx", izy |-> "izy"]

\* The operand of both.
Value(v, mode, d, msb) == IF mode = "imm" THEN d ELSE At(v.mem, Addr(v, mode, d, msb))
Reachable(v, mode, d, msb) == mode = "imm" \/ Addr(v, mode, d, msb) \in Readable

\* A pointer on the zero page is the same word on both.
LEMMA PointerSame ==
    ASSUME NEW u, NEW v, Alike(u, v), NEW d \in Int
    PROVE  /\ 256 * Low(u, d + 1) + Low(u, d) = Pointer(v, d)
           /\ Pointer(v, d) \in 0 .. 2^16 - 1
           /\ Low(u, d) \in Byte
  <1>1. SameMemory(u.mem, v.mem)
    BY DEF Alike
  <1>2. d \in Int /\ d + 1 \in Int
    OBVIOUS
  <1> DEFINE lo == At(v.mem, U8(d))
             hi == At(v.mem, U8(d + 1))
  <1>3. Low(u, d) = lo /\ lo \in Byte
    BY <1>1, <1>2, LowSame
  <1>4. Low(u, d + 1) = hi /\ hi \in Byte
    BY <1>1, <1>2, LowSame
  <1>5. Pointer(v, d) = lo + 256 * hi
    BY DEF Pointer
  <1> HIDE DEF lo, hi
  <1> QED
    BY <1>3, <1>4, <1>5 DEF Byte

\* What a uint16_t keeps is a word.
LEMMA U16Word == ASSUME NEW a \in Int PROVE U16(a) \in Word
  BY DEF Word, U16

\* A uint16_t keeps a word as it is.
LEMMA WordMod == ASSUME NEW a \in Word PROVE U16(a) = a
  BY DEF Word, U16

GotOperand(o, u, v, mode, d, msb) ==
    /\ Moved(Skip(o.h, 1), u, Bytes(mode))
    /\ o.v = Value(v, mode, d, msb) /\ o.v \in Byte
    /\ o = [h |-> o.h, v |-> o.v]

\* The operand of each addressing mode of ARITH_ADDR_MODES is the byte the other core reads.
LEMMA OperandSame ==
    ASSUME NEW u, NEW v, Alike(u, v), NEW mode \in AluModes, NEW d \in Byte, NEW msb \in Byte,
           Reachable(v, mode, d, msb)
    PROVE  GotOperand(Operand(u, GmeMode[mode], d, msb), u, v, mode, d, msb)
  <1> DEFINE o == Operand(u, GmeMode[mode], d, msb)
             a == Addr(v, mode, d, msb)
  <1>0. /\ SameMemory(u.mem, v.mem) /\ DOMAIN u = GFields /\ u.pc \in Word
        /\ u.x = v.x /\ u.y = v.y /\ v.x \in Byte /\ v.y \in Byte
    BY DEF Alike, SameRegs
  <1>1. ASSUME NEW h, h.mem = u.mem, NEW b, b \in Readable PROVE CpuRead(h, b) = At(v.mem, b) /\ At(v.mem, b) \in Byte
    BY <1>0, <1>1, ReadSame
  <1>2. CASE mode = "imm"
    <2>1. o = [h |-> u, v |-> d]
      BY <1>2 DEF Operand, GmeMode
    <2>2. Bytes(mode) = 1 /\ Value(v, mode, d, msb) = d
      BY <1>2 DEF Bytes, Value
    <2> QED
      BY <1>0, <2>1, <2>2, MovedForms DEF GotOperand
  <1>3. CASE mode = "zp"
    <2>1. o = [h |-> u, v |-> Low(u, d)]
      BY <1>3 DEF Operand, GmeMode
    <2>2. Bytes(mode) = 1 /\ Value(v, mode, d, msb) = At(v.mem, d)
      BY <1>3 DEF Bytes, Value, Addr
    <2>3. U8(d) = d /\ d \in Int
      BY DEF U8, Byte
    <2>4. Low(u, d) = At(v.mem, d) /\ At(v.mem, d) \in Byte
      BY <1>0, <2>3, LowSame
    <2> QED
      BY <1>0, <2>1, <2>2, <2>4, MovedForms DEF GotOperand
  <1>4. CASE mode = "zpx"
    <2>1. o = [h |-> u, v |-> Low(u, d + u.x)]
      BY <1>4 DEF Operand, GmeMode
    <2>2. Bytes(mode) = 1 /\ Value(v, mode, d, msb) = At(v.mem, U8(d + v.x))
      BY <1>4 DEF Bytes, Value, Addr
    <2>3. d + v.x \in Int
      BY <1>0 DEF Byte
    <2>4. Low(u, d + v.x) = At(v.mem, U8(d + v.x)) /\ At(v.mem, U8(d + v.x)) \in Byte
      BY <1>0, <2>3, LowSame
    <2> QED
      BY <1>0, <2>1, <2>2, <2>4, MovedForms DEF GotOperand
  <1>5. CASE mode \in {"abs", "abx", "aby"}
    <2> DEFINE i == IF mode = "abs" THEN 0 ELSE IF mode = "abx" THEN v.x ELSE v.y
               sum == d + i
               h == Late(Skip(u, 1), sum)
    <2>1. i \in Byte
      BY <1>0 DEF Byte
    <2>2. sum + 256 * msb \in Int /\ (mode = "abs" => d + 256 * msb \in Word /\ sum = d)
      BY <2>1 DEF Byte, Word
    <2>3. a = U16(sum + 256 * msb)
      <3>1. CASE mode = "abs"
        <4>1. a = d + 256 * msb
          BY <3>1 DEF Addr
        <4> QED
          BY <3>1, <4>1, <2>2, WordMod
      <3>2. CASE mode = "abx"
        <4>1. a = U16(d + 256 * msb + v.x)
          BY <3>2 DEF Addr
        <4>2. d + 256 * msb + v.x = sum + 256 * msb
          BY <3>2, <1>0 DEF Byte
        <4> QED
          BY <4>1, <4>2
      <3>3. CASE mode = "aby"
        <4>1. a = U16(d + 256 * msb + v.y)
          BY <3>3 DEF Addr
        <4>2. d + 256 * msb + v.y = sum + 256 * msb
          BY <3>3, <1>0 DEF Byte
        <4> QED
          BY <4>1, <4>2
      <3> QED
        BY <1>5, <3>1, <3>2, <3>3
    <2>4. o = [h |-> h, v |-> CpuRead(h, a)]
      <3>1. o = [h |-> h, v |-> CpuRead(h, U16(sum + 256 * msb))]
        <4>1. CASE mode = "abs"
          <5>1. sum = d
            BY <4>1, <2>2
          <5> QED
            BY <4>1, <5>1 DEF Operand, GmeMode
        <4>2. CASE mode = "abx"
          BY <4>2, <1>0 DEF Operand, GmeMode
        <4>3. CASE mode = "aby"
          BY <4>3, <1>0 DEF Operand, GmeMode
        <4> QED
          BY <1>5, <4>1, <4>2, <4>3
      <3> QED
        BY <3>1, <2>3
    <2>5. h.mem = u.mem
      BY <1>0 DEF Late, Skip, GFields
    <2>6. a \in Readable /\ Value(v, mode, d, msb) = At(v.mem, a) /\ Bytes(mode) = 2
      BY <1>5 DEF Reachable, Value, Bytes
    <2> HIDE DEF a, o
    <2>7. Moved(Skip(h, 1), u, 2)
      BY <1>0, MovedForms
    <2> HIDE DEF h
    <2>8. o.v = At(v.mem, a) /\ At(v.mem, a) \in Byte /\ o.h = h /\ o = [h |-> o.h, v |-> o.v]
      BY <1>1, <2>4, <2>5, <2>6
    <2>9. GotOperand(o, u, v, mode, d, msb)
      BY <2>6, <2>7, <2>8 DEF GotOperand
    <2> QED
      BY <2>9 DEF o
  <1>6. CASE mode = "izx"
    <2>1. o = [h |-> u, v |-> CpuRead(u, U16(IndX(u, d)))]
      BY <1>6 DEF Operand, GmeMode
    <2>2. d + u.x \in Int /\ d + u.x = d + v.x /\ d + u.x + 1 = (d + u.x) + 1
      BY <1>0 DEF Byte
    <2>3. IndX(u, d) = Pointer(v, d + v.x) /\ Pointer(v, d + v.x) \in Word
      BY <2>2, PointerSame DEF IndX, Word
    <2>4. a = Pointer(v, d + v.x) /\ a \in Readable /\ Value(v, mode, d, msb) = At(v.mem, a) /\ Bytes(mode) = 1
      BY <1>6 DEF Addr, Reachable, Value, Bytes
    <2>5. U16(IndX(u, d)) = a
      BY <2>3, <2>4, WordMod
    <2>6. CpuRead(u, a) = At(v.mem, a) /\ At(v.mem, a) \in Byte
      BY <1>0, <2>4, ReadSame
    <2> QED
      BY <1>0, <2>1, <2>4, <2>5, <2>6, MovedForms DEF GotOperand
  <1>7. CASE mode = "izy"
    <2> DEFINE h == Late(u, Low(u, d) + u.y)
    <2>1. o = [h |-> h, v |-> CpuRead(h, U16(IndY(u, d)))]
      BY <1>7 DEF Operand, GmeMode
    <2>2. d \in Int /\ h.mem = u.mem
      BY <1>0 DEF Byte, Late, GFields
    <2>3. IndY(u, d) = U16(Pointer(v, d) + v.y)
      BY <1>0, <2>2, PointerSame DEF IndY
    <2>9. Pointer(v, d) \in Word
      BY <2>2, PointerSame DEF Word
    <2>10. Pointer(v, d) + v.y \in Int
      BY <1>0, <2>9 DEF Word, Byte
    <2>4. U16(Pointer(v, d) + v.y) \in Word
      BY <2>10, U16Word
    <2>5. a = U16(Pointer(v, d) + v.y) /\ a \in Readable /\ Value(v, mode, d, msb) = At(v.mem, a) /\ Bytes(mode) = 1
      BY <1>7 DEF Addr, Reachable, Value, Bytes
    <2>6. U16(IndY(u, d)) = a
      BY <2>3, <2>4, <2>5, WordMod
    <2>7. CpuRead(h, a) = At(v.mem, a) /\ At(v.mem, a) \in Byte
      BY <1>1, <2>2, <2>5
    <2>8. Moved(Skip(h, 1), u, 1)
      BY <1>0, MovedForms
    <2> QED
      BY <2>1, <2>5, <2>6, <2>7, <2>8 DEF GotOperand
  <1> QED
    BY <1>2, <1>3, <1>4, <1>5, <1>6, <1>7 DEF AluModes

-----------------------------------------------------------------------------
(* The instructions, class by class *)

\* An official opcode selects its own case.
LEMMA CaseIs ==
    ASSUME NEW c \in Cases
    PROVE  CaseOf[c[1]] = c /\ c[1] \in Byte /\ c[1] \in Official
  <1>1. c[1] \in 0 .. 255
    BY DEF Cases
  <1>2. c[1] \in Official
    BY DEF Official
  <1>3. \A e \in Cases : e[1] = c[1] => e = c
    BY DEF Cases
  <1>4. (CHOOSE e \in Cases : e[1] = c[1]) = c
    BY <1>3
  <1> QED
    BY <1>1, <1>2, <1>4 DEF CaseOf, Byte

AluBase == [LDA |-> 165, CMP |-> 197, AND |-> 37, EOR |-> 69, ORA |-> 5, SBC |-> 229, ADC |-> 101]

\* The eight opcodes of an operation on A lie where ARITH_ADDR_MODES expects them.
LEMMA AluRows ==
    ASSUME NEW c \in Cases, c[2] \in DOMAIN AluBase
    PROVE  /\ c[1] = AluBase[c[2]] + Offset[GmeMode[c[3]]] /\ c[3] \in AluModes
           /\ c[1] # 0 /\ c[1] # 235
  BY DEF Cases, AluBase, Offset, GmeMode, AluModes

\* An opcode of ARITH_ADDR_MODES belongs to one operation, in one mode.
LEMMA ArithIs ==
    ASSUME NEW b \in ArithOps \cup {165}, NEW mode \in AluModes, NEW op,
           op = b + Offset[GmeMode[mode]]
    PROVE  /\ IsArith(op, b) /\ ArithMode(op, b) = GmeMode[mode]
           /\ \A e \in ArithOps \cup {165} : IsArith(op, e) => e = b
  <1>1. GmeMode[mode] \in DOMAIN Offset
    BY DEF AluModes, GmeMode, Offset
  <1>2. \A m \in DOMAIN Offset : op = b + Offset[m] => m = GmeMode[mode]
    BY DEF AluModes, GmeMode, Offset, ArithOps
  <1>3. \A e \in ArithOps \cup {165} : IsArith(op, e) => e = b
    BY DEF AluModes, GmeMode, Offset, ArithOps, IsArith
  <1> QED
    BY <1>1, <1>2, <1>3 DEF IsArith, ArithMode

\* The two cores sort the official opcodes into the same classes.
LEMMA Classes ==
    ASSUME NEW c \in Cases
    PROVE  /\ c[1] = 0 <=> c[2] = "BRK"
           /\ c[1] # 235
           /\ (\E b \in ArithOps : IsArith(c[1], b))
                <=> c[2] \in {"CMP", "AND", "EOR", "ORA", "SBC", "ADC"}
           /\ IsArith(c[1], 165) <=> c[2] = "LDA"
           /\ c[1] \in LoadXYOps <=> c[2] \in {"LDX", "LDY"}
           /\ c[1] \in {224, 228, 236, 192, 196, 204} <=> c[2] \in {"CPX", "CPY"}
           /\ c[1] \in StoreOps <=> c[2] \in Stores
           /\ c[1] \in {36, 44} <=> c[2] = "BIT"
           /\ c[1] \in ShiftAOps <=> c[3] = "acc"
           /\ c[1] \in ShiftMOps <=> c[2] \in {"ASL", "LSR", "ROL", "ROR"} /\ c[3] # "acc"
           /\ c[1] \in IncDecMOps <=> c[2] \in {"INC", "DEC"}
           /\ c[1] \in RegisterOps <=> c[2] \in Transfers \cup IncDecs
           /\ c[1] \in StackOps <=> c[2] \in {"PHA", "PLA", "PHP", "PLP"}
           /\ c[1] \in FlagOps <=> c[2] \in {"SEC", "CLC", "CLV", "CLD", "SED", "CLI", "SEI"}
           /\ c[1] \in BranchOps <=> c[2] \in Branches
           /\ c[1] \in JumpOps <=> c[2] \in {"JSR", "JMP", "RTS", "RTI"}
           /\ c[3] = "acc" => c[2] \in {"ASL", "LSR", "ROL", "ROR"}
  <1>1. c[1] \in 0 .. 255 /\ (c[1] = 0 <=> c[2] = "BRK") /\ c[1] # 235
    BY DEF Cases
  <1>2. (\E b \in ArithOps : IsArith(c[1], b))
                <=> c[2] \in {"CMP", "AND", "EOR", "ORA", "SBC", "ADC"}
    <2>1. c[2] \in {"CMP", "AND", "EOR", "ORA", "SBC", "ADC"} => \E b \in ArithOps : IsArith(c[1], b)
      BY AluRows, ArithIs DEF AluBase, ArithOps
    <2>2. ASSUME c[2] \notin {"CMP", "AND", "EOR", "ORA", "SBC", "ADC"}, NEW b \in ArithOps, IsArith(c[1], b)
          PROVE  FALSE
      BY <2>2 DEF Cases, IsArith, ArithOps, Offset
    <2> QED
      BY <2>1, <2>2
  <1>3. IsArith(c[1], 165) <=> c[2] = "LDA"
    BY DEF Cases, IsArith, Offset
  <1>4. /\ c[1] \in LoadXYOps <=> c[2] \in {"LDX", "LDY"}
        /\ c[1] \in {224, 228, 236, 192, 196, 204} <=> c[2] \in {"CPX", "CPY"}
    BY DEF Cases, LoadXYOps
  <1>5. /\ c[1] \in StoreOps <=> c[2] \in Stores
        /\ c[1] \in {36, 44} <=> c[2] = "BIT"
    BY DEF Cases, StoreOps, Stores
  <1>6. /\ c[1] \in ShiftAOps <=> c[3] = "acc"
        /\ c[3] = "acc" => c[2] \in {"ASL", "LSR", "ROL", "ROR"}
    BY DEF Cases, ShiftAOps
  <1>7. c[1] \in ShiftMOps <=> c[2] \in {"ASL", "LSR", "ROL", "ROR"} /\ c[3] # "acc"
    BY DEF Cases, ShiftMOps
  <1>8. c[1] \in IncDecMOps <=> c[2] \in {"INC", "DEC"}
    BY DEF Cases, IncDecMOps
  <1>9. c[1] \in RegisterOps <=> c[2] \in Transfers \cup IncDecs
    BY DEF Cases, RegisterOps, Transfers, IncDecs
  <1>10. /\ c[1] \in StackOps <=> c[2] \in {"PHA", "PLA", "PHP", "PLP"}
         /\ c[1] \in FlagOps <=> c[2] \in {"SEC", "CLC", "CLV", "CLD", "SED", "CLI", "SEI"}
    BY DEF Cases, StackOps, FlagOps
  <1>11. c[1] \in BranchOps <=> c[2] \in Branches
    BY DEF Cases, BranchOps, Branches
  <1>12. c[1] \in JumpOps <=> c[2] \in {"JSR", "JMP", "RTS", "RTI"}
    BY DEF Cases, JumpOps
  <1> QED
    BY <1>1, <1>2, <1>3, <1>4, <1>5, <1>6, <1>7, <1>8, <1>9, <1>10, <1>11, <1>12

\* Each instruction that reads a byte, on both.
ReadsAlike(h, w, k) ==
    /\ Alike([h EXCEPT !.a = k, !.nz = k], WithOperand(w, "LDA", k))
    /\ Alike([h EXCEPT !.x = k, !.nz = k], WithOperand(w, "LDX", k))
    /\ Alike([h EXCEPT !.y = k, !.nz = k], WithOperand(w, "LDY", k))
    /\ Alike(Compare(h, h.a, k), WithOperand(w, "CMP", k))
    /\ Alike(Compare(h, h.x, k), WithOperand(w, "CPX", k))
    /\ Alike(Compare(h, h.y, k), WithOperand(w, "CPY", k))
    /\ Alike(Adc(h, k), WithOperand(w, "ADC", k))
    /\ Alike(Adc(h, 255 - k), WithOperand(w, "SBC", k))
    /\ Alike(Logic(h, AndB(h.a, k)), WithOperand(w, "AND", k))
    /\ Alike(Logic(h, OrB(h.a, k)), WithOperand(w, "ORA", k))
    /\ Alike(Logic(h, XorB(h.a, k)), WithOperand(w, "EOR", k))

\* What an operation on A does with the same byte keeps the cores alike.
LEMMA ReadOps ==
    ASSUME NEW h, NEW w, Alike(h, w), NEW k \in Byte
    PROVE  ReadsAlike(h, w, k)
  <1>1. /\ h.a = w.a /\ h.x = w.x /\ h.y = w.y
        /\ w.a \in Byte /\ w.x \in Byte /\ w.y \in Byte
    BY DEF Alike, SameRegs
  <1>2. NzOf(k, k)
    BY ByteNz
  <1>3. 255 - k \in Byte
    BY DEF Byte
  <1>4. /\ Alike([h EXCEPT !.a = k, !.nz = k], WithOperand(w, "LDA", k))
        /\ Alike([h EXCEPT !.x = k, !.nz = k], WithOperand(w, "LDX", k))
        /\ Alike([h EXCEPT !.y = k, !.nz = k], WithOperand(w, "LDY", k))
    BY <1>2, LoadSame DEF WithOperand
  <1>5. /\ Alike(Compare(h, h.a, k), WithOperand(w, "CMP", k))
        /\ Alike(Compare(h, h.x, k), WithOperand(w, "CPX", k))
        /\ Alike(Compare(h, h.y, k), WithOperand(w, "CPY", k))
    BY <1>1, CompareSame DEF WithOperand
  <1>6. Alike(Adc(h, k), OpAdc(w, k)) /\ Alike(Adc(h, 255 - k), OpAdc(w, 255 - k))
    BY <1>3, AdcSame
  <1>7. /\ Alike(Adc(h, k), WithOperand(w, "ADC", k))
        /\ Alike(Adc(h, 255 - k), WithOperand(w, "SBC", k))
    BY <1>6 DEF WithOperand
  <1>8. /\ WithOperand(w, "AND", k) = UpdateNz([w EXCEPT !.a = AndB(w.a, k)], AndB(w.a, k))
        /\ WithOperand(w, "ORA", k) = UpdateNz([w EXCEPT !.a = OrB(w.a, k)], OrB(w.a, k))
        /\ WithOperand(w, "EOR", k) = UpdateNz([w EXCEPT !.a = XorB(w.a, k)], XorB(w.a, k))
    BY DEF WithOperand
  <1>9. ASSUME NEW v \in Byte PROVE Alike(Logic(h, v), UpdateNz([w EXCEPT !.a = v], v))
    <2>1. NzOf(v, v)
      BY ByteNz
    <2> QED
      BY <2>1, LoadSame DEF Logic
  <1>10. AndB(w.a, k) \in Byte /\ OrB(w.a, k) \in Byte /\ XorB(w.a, k) \in Byte
    BY <1>1, LogicBytes
  <1>11. /\ Alike(Logic(h, AndB(h.a, k)), WithOperand(w, "AND", k))
         /\ Alike(Logic(h, OrB(h.a, k)), WithOperand(w, "ORA", k))
         /\ Alike(Logic(h, XorB(h.a, k)), WithOperand(w, "EOR", k))
    BY <1>1, <1>8, <1>9, <1>10
  <1> QED
    BY <1>4, <1>5, <1>7, <1>11 DEF ReadsAlike

\* LDA, CMP, AND, EOR, ORA, SBC and ADC, in every mode, keep the cores alike.
LEMMA AluStep ==
    ASSUME NEW u, NEW v, Alike(u, v), NEW c \in Cases, c[2] \in DOMAIN AluBase,
           NEW d \in Byte, NEW msb \in Byte, Reachable(v, c[3], d, msb),
           NEW w, Passed(w, v, Bytes(c[3]))
    PROVE  Alike(Switch(u, c[1], d, msb), WithOperand(w, c[2], Value(v, c[3], d, msb)))
  <1> DEFINE op == c[1]
             mode == c[3]
             b == AluBase[c[2]]
             o == Operand(u, GmeMode[mode], d, msb)
             h == Skip(o.h, 1)
             k == Value(v, mode, d, msb)
  <1>1. op = b + Offset[GmeMode[mode]] /\ mode \in AluModes /\ op # 0 /\ op # 235
    BY AluRows
  <1>2. b \in ArithOps \cup {165} /\ (b = 165 <=> c[2] = "LDA")
    BY DEF AluBase, ArithOps
  <1>3. /\ IsArith(op, b) /\ ArithMode(op, b) = GmeMode[mode]
        /\ \A e \in ArithOps \cup {165} : IsArith(op, e) => e = b
    BY <1>1, <1>2, ArithIs
  <1>4. Moved(h, u, Bytes(mode)) /\ o.v = k /\ k \in Byte /\ o = [h |-> o.h, v |-> o.v]
    <2>1. GotOperand(o, u, v, mode, d, msb)
      BY <1>1, OperandSame
    <2> QED
      BY <2>1 DEF GotOperand
  <1>5. Bytes(mode) \in Int
    BY DEF Bytes
  <1>6. Alike(h, w)
    BY <1>4, <1>5, MovedAlike
  <1>7. Arith(u, op, b, d, msb) = [h |-> h, v |-> k]
    BY <1>3, <1>4 DEF Arith
  <1> SUFFICES Alike(Switch(u, op, d, msb), WithOperand(w, c[2], k))
    OBVIOUS
  <1> HIDE DEF h, k, o, b, op
  <1>8. ReadsAlike(h, w, k)
    BY <1>4, <1>6, ReadOps
  <1>9. CASE c[2] = "LDA"
    <2>1. b = 165 /\ c[3] # "acc"
      BY <1>2, <1>9, Classes
    <2>2. Switch(u, op, d, msb) = LoadA(u, op, d, msb)
      BY <1>9, <2>1, Classes DEF Switch, Stores, Transfers, IncDecs, Branches, op
    <2>3. LoadA(u, op, d, msb) = [h EXCEPT !.a = k, !.nz = k]
      <3> DEFINE q == Arith(u, op, 165, d, msb)
      <3>1. LoadA(u, op, d, msb) = [q.h EXCEPT !.a = q.v, !.nz = q.v]
        BY DEF LoadA
      <3>2. q = [h |-> h, v |-> k]
        BY <1>7, <2>1
      <3>3. q.h = h /\ q.v = k
        BY <3>2
      <3> HIDE DEF q
      <3> QED
        BY <3>1, <3>3
    <2>4. Alike([h EXCEPT !.a = k, !.nz = k], WithOperand(w, "LDA", k))
      BY <1>8 DEF ReadsAlike
    <2> QED
      BY <1>9, <2>2, <2>3, <2>4
  <1>10. CASE c[2] # "LDA"
    <2>1. b \in ArithOps /\ b # 165 /\ c[3] # "acc"
      BY <1>2, <1>10, Classes DEF AluBase
    <2>2. Switch(u, op, d, msb) = ArithOp(u, op, d, msb)
      BY <1>10, <2>1, Classes DEF Switch, Stores, Transfers, IncDecs, Branches, op, AluBase
    <2>3. (CHOOSE e \in ArithOps : IsArith(op, e) \/ (op = 235 /\ e = 229)) = b
      BY <1>1, <1>3, <2>1
    <2>4. /\ c[2] = "CMP" => ArithOp(u, op, d, msb) = Compare(h, h.a, k)
          /\ c[2] = "AND" => ArithOp(u, op, d, msb) = Logic(h, AndB(h.a, k))
          /\ c[2] = "EOR" => ArithOp(u, op, d, msb) = Logic(h, XorB(h.a, k))
          /\ c[2] = "ORA" => ArithOp(u, op, d, msb) = Logic(h, OrB(h.a, k))
          /\ c[2] = "SBC" => ArithOp(u, op, d, msb) = Adc(h, 255 - k)
          /\ c[2] = "ADC" => ArithOp(u, op, d, msb) = Adc(h, k)
      <3> DEFINE z == ArithOp(u, op, d, msb)
                 q == Arith(u, op, b, d, msb)
      <3>3. q.h = h /\ q.v = k
        BY <1>7
      <3>4. op # 235
        BY <1>1 DEF op
      <3> HIDE DEF q
      <3>1. z = CASE b = 197 -> Compare(h, h.a, k)
                  [] b = 37 -> Logic(h, AndB(h.a, k))
                  [] b = 69 -> Logic(h, XorB(h.a, k))
                  [] b = 5 -> Logic(h, OrB(h.a, k))
                  [] b = 229 -> Adc(h, 255 - k)
                  [] b = 101 -> Adc(h, k)
        BY <2>3, <3>3, <3>4 DEF ArithOp, q
      <3> HIDE DEF z
      <3>2. /\ b = 197 => z = Compare(h, h.a, k)
            /\ b = 37 => z = Logic(h, AndB(h.a, k))
            /\ b = 69 => z = Logic(h, XorB(h.a, k))
            /\ b = 5 => z = Logic(h, OrB(h.a, k))
            /\ b = 229 => z = Adc(h, 255 - k)
            /\ b = 101 => z = Adc(h, k)
        BY <3>1
      <3> QED
        BY <3>2 DEF z, b, AluBase
    <2>5. c[2] \in {"CMP", "AND", "EOR", "ORA", "SBC", "ADC"}
      BY <1>10 DEF AluBase
    <2> QED
      BY <1>8, <2>2, <2>4, <2>5 DEF ReadsAlike
  <1> QED
    BY <1>9, <1>10

\* The address of a mode, as the first core works it out.
ModeAddr(u, mode, d, msb) ==
    CASE mode = "zp" -> d
      [] mode = "zpx" -> U8(d + u.x)
      [] mode = "zpy" -> U8(d + u.y)
      [] mode = "abs" -> d + 256 * msb
      [] mode = "abx" -> U16(d + 256 * msb + u.x)
      [] mode = "aby" -> U16(d + 256 * msb + u.y)
      [] mode = "izx" -> IndX(u, d)
      [] mode = "izy" -> IndY(u, d)
MemoryModes == {"zp", "zpx", "zpy", "abs", "abx", "aby", "izx", "izy"}

\* The address of a store is the same on both, in every mode.
LEMMA AddrSame ==
    ASSUME NEW u, NEW v, Alike(u, v), NEW mode \in MemoryModes, NEW d \in Byte, NEW msb \in Byte
    PROVE  ModeAddr(u, mode, d, msb) = Addr(v, mode, d, msb)
  <1>1. u.x = v.x /\ u.y = v.y /\ v.x \in Byte /\ v.y \in Byte
    BY DEF Alike, SameRegs
  <1>2. CASE mode = "izx"
    <2>1. d + v.x \in Int /\ d + v.x + 1 = (d + v.x) + 1
      BY <1>1 DEF Byte
    <2>2. IndX(u, d) = Pointer(v, d + v.x)
      BY <1>1, <2>1, PointerSame DEF IndX
    <2> QED
      BY <1>2, <2>2 DEF ModeAddr, Addr
  <1>3. CASE mode = "izy"
    <2>1. d \in Int
      BY DEF Byte
    <2>2. IndY(u, d) = U16(Pointer(v, d) + v.y)
      BY <1>1, <2>1, PointerSame DEF IndY
    <2> QED
      BY <1>3, <2>2 DEF ModeAddr, Addr
  <1>4. CASE mode \in {"zp", "zpx", "zpy", "abs", "abx", "aby"}
    BY <1>1, <1>4 DEF ModeAddr, Addr
  <1> QED
    BY <1>2, <1>3, <1>4 DEF MemoryModes

\* A byte is found the same on the zero page and beyond.
LEMMA FoundSame ==
    ASSUME NEW u, NEW v, Alike(u, v), NEW d \in Byte, NEW msb \in Byte
    PROVE  /\ Low(u, d) = At(v.mem, d) /\ At(v.mem, d) \in Byte
           /\ \A i \in Byte : /\ Low(u, d + i) = At(v.mem, U8(d + i))
                              /\ At(v.mem, U8(d + i)) \in Byte
           /\ \A a \in Readable : CpuRead(u, a) = At(v.mem, a) /\ At(v.mem, a) \in Byte
  <1>1. SameMemory(u.mem, v.mem)
    BY DEF Alike
  <1>2. d \in Int /\ U8(d) = d
    BY DEF Byte, U8
  <1>3. Low(u, d) = At(v.mem, d) /\ At(v.mem, d) \in Byte
    BY <1>1, <1>2, LowSame
  <1>4. ASSUME NEW i \in Byte
        PROVE  Low(u, d + i) = At(v.mem, U8(d + i)) /\ At(v.mem, U8(d + i)) \in Byte
    <2>1. d + i \in Int
      BY DEF Byte
    <2> QED
      BY <1>1, <2>1, LowSame
  <1>5. ASSUME NEW a \in Readable PROVE CpuRead(u, a) = At(v.mem, a) /\ At(v.mem, a) \in Byte
    BY <1>1, ReadSame
  <1> QED
    BY <1>3, <1>4, <1>5

\* The opcodes of LDX and LDY, by their operation and their mode.
LEMMA XYRows ==
    ASSUME NEW c \in Cases, c[2] \in {"LDX", "LDY"}
    PROVE  /\ c[1] \in {162, 166, 182, 174, 190} <=> c[2] = "LDX"
           /\ c[1] \in {182, 190} <=> c[3] \in {"zpy", "aby"}
           /\ c[1] \in {180, 188} <=> c[3] \in {"zpx", "abx"}
           /\ c[1] = 190 <=> c[3] = "aby"
           /\ c[1] = 188 <=> c[3] = "abx"
           /\ c[1] \in {174, 190, 172, 188} <=> c[3] \in {"abs", "abx", "aby"}
           /\ c[1] \in {162, 160} <=> c[3] = "imm"
           /\ c[3] \in {"imm", "zp", "zpx", "zpy", "abs", "abx", "aby"}
  BY DEF Cases

\* LDX and LDY keep the cores alike, unless the indexed address is beyond $FFFF.
LEMMA LoadXYStep ==
    ASSUME NEW u, NEW v, Alike(u, v), NEW c \in Cases, c[2] \in {"LDX", "LDY"},
           NEW d \in Byte, NEW msb \in Byte, Reachable(v, c[3], d, msb),
           c[1] \in {190, 188} => d + 256 * msb + (IF c[1] = 190 THEN v.y ELSE v.x) <= 65535,
           NEW w, Passed(w, v, Bytes(c[3]))
    PROVE  Alike(Switch(u, c[1], d, msb), WithOperand(w, c[2], Value(v, c[3], d, msb)))
  <1> DEFINE op == c[1]
             mode == c[3]
             k == Value(v, mode, d, msb)
             i == IF op \in {182, 190} THEN u.y ELSE IF op \in {180, 188} THEN u.x ELSE 0
             wide == op \in {174, 190, 172, 188}
             got == IF op \in {162, 160} THEN d
                    ELSE IF wide THEN CpuRead(u, d + i + 256 * msb) ELSE Low(u, d + i)
             h == IF wide THEN Late(Skip(u, 2), d + i) ELSE Skip(u, 1)
  <1>1. /\ u.x = v.x /\ u.y = v.y /\ v.x \in Byte /\ v.y \in Byte
        /\ DOMAIN u = GFields /\ u.pc \in Word
    BY DEF Alike, SameRegs
  <1>2. i \in Byte /\ d + i \in Int
    BY <1>1 DEF Byte
  <1>3. /\ mode \in {"zpy", "aby"} => i = v.y
        /\ mode \in {"zpx", "abx"} => i = v.x
        /\ mode \in {"zp", "abs", "imm"} => i = 0
    BY <1>1, XYRows
  <1>4. Moved(h, u, Bytes(mode)) /\ Bytes(mode) \in Int
    <2>1. CASE mode \in {"abs", "abx", "aby"}
      <3>1. h = Late(Skip(u, 2), d + i) /\ Bytes(mode) = 2
        BY <2>1, XYRows DEF Bytes
      <3> QED
        BY <1>1, <3>1, MovedForms
    <2>2. CASE mode \notin {"abs", "abx", "aby"}
      <3>1. h = Skip(u, 1) /\ Bytes(mode) = 1
        BY <2>2, XYRows DEF Bytes
      <3> QED
        BY <1>1, <3>1, MovedForms
    <2> QED
      BY <2>1, <2>2
  <1>12. op = 190 => d + 256 * msb + v.y <= 65535
    OBVIOUS
  <1>13. op = 188 => d + 256 * msb + v.x <= 65535
    OBVIOUS
  <1>14. /\ mode = "abx" => d + 256 * msb + i <= 65535
         /\ mode = "aby" => d + 256 * msb + i <= 65535
    <2> HIDE DEF i
    <2> QED
      BY <1>3, <1>12, <1>13, XYRows
  <1>10. mode \in {"abs", "abx", "aby"} =>
            d + i + 256 * msb \in Word /\ d + i + 256 * msb = d + 256 * msb + i
    <2> HIDE DEF i
    <2>1. mode = "abs" => d + 256 * msb + i <= 65535
      BY <1>3 DEF Byte
    <2>2. mode \in {"abs", "abx", "aby"} => d + 256 * msb + i <= 65535
      BY <1>14, <2>1
    <2> HIDE DEF mode
    <2>3. d + i + 256 * msb = d + 256 * msb + i /\ d + 256 * msb + i \in Nat
      BY <1>2 DEF Byte
    <2> QED
      BY <2>2, <2>3 DEF Word
  <1>11. /\ mode = "abs" => Addr(v, mode, d, msb) = d + 256 * msb + i
         /\ mode \in {"abx", "aby"} => Addr(v, mode, d, msb) = U16(d + 256 * msb + i)
    <2> HIDE DEF i
    <2>1. CASE mode = "abs"
      <3>1. Addr(v, mode, d, msb) = d + 256 * msb /\ i = 0
        BY <1>3, <2>1 DEF Addr
      <3>2. d + 256 * msb \in Int
        BY DEF Byte
      <3> QED
        BY <2>1, <3>1, <3>2
    <2>2. CASE mode = "abx"
      <3>1. Addr(v, mode, d, msb) = U16(d + 256 * msb + v.x) /\ i = v.x
        BY <1>3, <2>2 DEF Addr
      <3> QED
        BY <2>2, <3>1
    <2>3. CASE mode = "aby"
      <3>1. Addr(v, mode, d, msb) = U16(d + 256 * msb + v.y) /\ i = v.y
        BY <1>3, <2>3 DEF Addr
      <3> QED
        BY <2>3, <3>1
    <2> QED
      BY <2>1, <2>2, <2>3
  <1>8. Low(u, d) = At(v.mem, d) /\ At(v.mem, d) \in Byte
    BY FoundSame
  <1>9. \A j \in Byte : /\ Low(u, d + j) = At(v.mem, U8(d + j))
                       /\ At(v.mem, U8(d + j)) \in Byte
    BY FoundSame
  <1>5. got = k /\ k \in Byte
    <2>1. CASE mode = "imm"
      BY <2>1, XYRows DEF Value
    <2>2. CASE mode = "zp"
      <3>1. got = Low(u, d + i) /\ i = 0
        BY <1>3, <2>2, XYRows
      <3>2. d + 0 = d
        BY DEF Byte
      <3>3. k = At(v.mem, d)
        BY <2>2 DEF Value, Addr
      <3>4. d + i = d
        BY <3>1, <3>2
      <3> QED
        BY <1>8, <3>1, <3>3, <3>4
    <2>3. CASE mode \in {"zpx", "zpy"}
      <3>1. got = Low(u, d + i)
        BY <2>3, XYRows
      <3>2. k = At(v.mem, U8(d + i))
        BY <1>3, <2>3 DEF Value, Addr
      <3>3. Low(u, d + i) = At(v.mem, U8(d + i)) /\ At(v.mem, U8(d + i)) \in Byte
        BY <1>2, <1>9
      <3> QED
        BY <3>1, <3>2, <3>3
    <2>4. CASE mode \in {"abs", "abx", "aby"}
      <3> DEFINE a == d + i + 256 * msb
      <3>1. got = CpuRead(u, a)
        BY <2>4, XYRows
      <3>2. a \in Word /\ a = d + 256 * msb + i
        BY <1>10, <2>4
      <3>3. U16(a) = a
        BY <3>2, WordMod
      <3>4. Addr(v, mode, d, msb) = a
        BY <1>11, <2>4, <3>2, <3>3
      <3>5. a \in Readable /\ k = At(v.mem, a)
        BY <2>4, <3>4 DEF Reachable, Value
      <3> QED
        BY <3>1, <3>5, FoundSame
    <2> QED
      BY <2>1, <2>2, <2>3, <2>4, XYRows
  <1>6. Alike(h, w)
    BY <1>4, MovedAlike
  <1>7. ReadsAlike(h, w, k)
    BY <1>5, <1>6, ReadOps
  <1>15. c[3] # "acc"
    BY XYRows
  <1>16. Switch(u, op, d, msb) = LoadXY(u, op, d, msb)
    BY <1>15, Classes DEF Switch, Stores, Transfers, IncDecs, Branches
  <1>17. LoadXY(u, op, d, msb) = IF c[2] = "LDX" THEN [h EXCEPT !.x = got, !.nz = got]
                                 ELSE [h EXCEPT !.y = got, !.nz = got]
    <2>1. LoadXY(u, op, d, msb) = IF op \in {162, 166, 182, 174, 190}
                                  THEN [h EXCEPT !.x = got, !.nz = got]
                                  ELSE [h EXCEPT !.y = got, !.nz = got]
      BY DEF LoadXY
    <2> QED
      BY <2>1, XYRows
  <1> HIDE DEF got, h, k, i
  <1>18. Alike(LoadXY(u, op, d, msb), WithOperand(w, c[2], k))
    BY <1>5, <1>7, <1>17 DEF ReadsAlike
  <1> QED
    BY <1>16, <1>18 DEF k

\* The opcodes of CPX, CPY and BIT, by their operation and their mode.
LEMMA CompareRows ==
    ASSUME NEW c \in Cases, c[2] \in {"CPX", "CPY", "BIT"}
    PROVE  /\ c[1] \in {224, 228, 236} <=> c[2] = "CPX"
           /\ c[1] \in {224, 192} <=> c[3] = "imm"
           /\ c[1] \in {228, 196, 36} <=> c[3] = "zp"
           /\ c[1] \in {236, 204, 44} <=> c[3] = "abs"
           /\ c[1] = 36 <=> c[2] = "BIT" /\ c[3] = "zp"
           /\ c[1] = 44 <=> c[2] = "BIT" /\ c[3] = "abs"
           /\ c[3] \in {"imm", "zp", "abs"}
  BY DEF Cases

\* CPX, CPY and BIT keep the cores alike.
LEMMA CompareXYStep ==
    ASSUME NEW u, NEW v, Alike(u, v), NEW c \in Cases, c[2] \in {"CPX", "CPY", "BIT"},
           NEW d \in Byte, NEW msb \in Byte, Reachable(v, c[3], d, msb),
           NEW w, Passed(w, v, Bytes(c[3]))
    PROVE  Alike(Switch(u, c[1], d, msb), WithOperand(w, c[2], Value(v, c[3], d, msb)))
  <1> DEFINE op == c[1]
             mode == c[3]
             k == Value(v, mode, d, msb)
             h == Skip(u, IF mode = "abs" THEN 2 ELSE 1)
             got == IF mode = "imm" THEN d
                    ELSE IF mode = "zp" THEN Low(u, d) ELSE CpuRead(u, d + 256 * msb)
  <1>1. mode \in {"imm", "zp", "abs"} /\ c[3] # "acc"
    BY CompareRows
  <1>2. DOMAIN u = GFields /\ u.pc \in Word /\ u.a = v.a
    BY DEF Alike, SameRegs
  <1>3. Moved(h, u, Bytes(mode)) /\ Bytes(mode) \in Int
    <2>1. Bytes(mode) = IF mode = "abs" THEN 2 ELSE 1
      BY <1>1 DEF Bytes
    <2> QED
      BY <1>2, <2>1, MovedForms
  <1>4. got = k /\ k \in Byte
    <2>1. CASE mode = "imm"
      BY <2>1 DEF Value
    <2>2. CASE mode = "zp"
      <3>1. k = At(v.mem, d)
        BY <2>2 DEF Value, Addr
      <3> QED
        BY <2>2, <3>1, FoundSame
    <2>3. CASE mode = "abs"
      <3>1. d + 256 * msb \in Readable /\ k = At(v.mem, d + 256 * msb)
        BY <2>3 DEF Value, Addr, Reachable
      <3> QED
        BY <2>3, <3>1, FoundSame
    <2> QED
      BY <1>1, <2>1, <2>2, <2>3
  <1>5. Alike(h, w)
    BY <1>3, MovedAlike
  <1>6. ReadsAlike(h, w, k)
    BY <1>4, <1>5, ReadOps
  <1>7. h.a = u.a /\ h.x = u.x /\ h.y = u.y /\ w.a = v.a
    BY <1>2 DEF Skip, GFields, Passed, NFields
  <1>8. CASE c[2] \in {"CPX", "CPY"}
    <2>1. Switch(u, op, d, msb) = CompareXY(u, op, d, msb)
      BY <1>1, <1>8, Classes DEF Switch, Stores, Transfers, IncDecs, Branches
    <2>2. CompareXY(u, op, d, msb) = Compare(h, IF c[2] = "CPX" THEN h.x ELSE h.y, got)
      <3>1. (op \in {224, 228, 236} <=> c[2] = "CPX") /\ (op \in {224, 192} <=> mode = "imm")
        BY CompareRows
      <3>2. (op \in {228, 196} <=> mode = "zp") /\ (op \in {236, 204} <=> mode = "abs")
        BY <1>8, CompareRows
      <3> DEFINE reg == IF op \in {224, 228, 236} THEN u.x ELSE u.y
                 val == CASE op \in {224, 192} -> d
                          [] op \in {228, 196} -> Low(u, d)
                          [] op \in {236, 204} -> CpuRead(u, d + 256 * msb)
      <3>3. CompareXY(u, op, d, msb) = Compare(Skip(u, IF op \in {236, 204} THEN 2 ELSE 1), reg, val)
        BY DEF CompareXY
      <3>4. reg = IF c[2] = "CPX" THEN h.x ELSE h.y
        BY <3>1, <1>7
      <3>5. val = got
        BY <1>1, <3>1, <3>2
      <3>6. Skip(u, IF op \in {236, 204} THEN 2 ELSE 1) = h
        BY <3>2
      <3> HIDE DEF reg, val, got, h
      <3> QED
        BY <3>3, <3>4, <3>5, <3>6
    <2> HIDE DEF got, h, k
    <2>3. Alike(CompareXY(u, op, d, msb), WithOperand(w, c[2], k))
      <3>1. /\ Alike(Compare(h, h.x, k), WithOperand(w, "CPX", k))
            /\ Alike(Compare(h, h.y, k), WithOperand(w, "CPY", k))
        BY <1>6 DEF ReadsAlike
      <3>2. CompareXY(u, op, d, msb) = Compare(h, IF c[2] = "CPX" THEN h.x ELSE h.y, k)
        BY <1>4, <2>2
      <3> QED
        BY <1>8, <3>1, <3>2
    <2> QED
      BY <2>1, <2>3 DEF k
  <1>9. CASE c[2] = "BIT"
    <2>1. Switch(u, op, d, msb) = BitTest(u, op, d, msb)
      BY <1>1, <1>9, Classes DEF Switch, Stores, Transfers, IncDecs, Branches
    <2>2. (op = 36 <=> mode = "zp") /\ mode \in {"zp", "abs"}
      BY <1>1, <1>9, CompareRows DEF Cases
    <2> DEFINE val == IF op = 36 THEN Low(u, d) ELSE CpuRead(u, d + 256 * msb)
               f == Skip(u, IF op = 36 THEN 1 ELSE 2)
    <2>3. BitTest(u, op, d, msb) = [f EXCEPT !.status = WithFlag(@, "V", BitOf(val, 6) = 1),
                                             !.nz = IF AndB(u.a, val) # 0 THEN val ELSE U16(val * 256)]
      BY DEF BitTest
    <2>4. val = k /\ f = h
      BY <1>4, <2>2
    <2>5. WithOperand(w, "BIT", k) = SetFlag(SetFlag(SetFlag(w, "Z", AndB(w.a, k) = 0), "V", BitOf(k, 6) = 1),
                                             "N", BitOf(k, 7) = 1)
      BY DEF WithOperand
    <2> HIDE DEF got, h, k, val, f
    <2>6. BitTest(u, op, d, msb) = [h EXCEPT !.status = WithFlag(@, "V", BitOf(k, 6) = 1),
                                             !.nz = IF AndB(h.a, k) # 0 THEN k ELSE U16(k * 256)]
      BY <1>7, <2>3, <2>4
    <2>7. Alike(BitTest(u, op, d, msb), WithOperand(w, "BIT", k))
      <3>1. k \in Byte
        BY <1>4
      <3>2. Alike([h EXCEPT !.status = WithFlag(@, "V", BitOf(k, 6) = 1),
                            !.nz = IF AndB(h.a, k) # 0 THEN k ELSE U16(k * 256)],
                  SetFlag(SetFlag(SetFlag(w, "Z", AndB(w.a, k) = 0), "V", BitOf(k, 6) = 1),
                          "N", BitOf(k, 7) = 1))
        <4>1. BitsAlike(h, w, k)
          BY <1>5, <3>1, BitSame
        <4> QED
          BY <4>1 DEF BitsAlike
      <3> QED
        BY <2>5, <2>6, <3>2
    <2> QED
      BY <1>9, <2>1, <2>7 DEF k
  <1> QED
    BY <1>8, <1>9

\* The opcodes of the stores, by their register and their mode.
LEMMA StoreRows ==
    ASSUME NEW c \in Cases, c[2] \in Stores
    PROVE  /\ c[1] \in {133, 134, 132} <=> c[3] = "zp"
           /\ c[1] \in {149, 148} <=> c[3] = "zpx"
           /\ c[1] = 150 <=> c[3] = "zpy"
           /\ c[1] \in {141, 142, 140} <=> c[3] = "abs"
           /\ c[1] = 157 <=> c[3] = "abx"
           /\ c[1] = 153 <=> c[3] = "aby"
           /\ c[1] = 145 <=> c[3] = "izy"
           /\ c[1] = 129 <=> c[3] = "izx"
           /\ c[1] \in {141, 157, 153, 142, 140} <=> c[3] \in {"abs", "abx", "aby"}
           /\ c[1] \in {133, 149, 141, 157, 153, 145, 129} <=> c[2] = "STA"
           /\ c[1] \in {134, 150, 142} <=> c[2] = "STX"
           /\ c[1] \in {132, 148, 140} <=> c[2] = "STY"
           /\ c[3] \in MemoryModes
  BY DEF Cases, Stores, MemoryModes

\* STA, STX and STY, in every mode, keep the cores alike.
LEMMA StoreStep ==
    ASSUME NEW u, NEW v, Alike(u, v), NEW c \in Cases, c[2] \in Stores,
           NEW d \in Byte, NEW msb \in Byte, Addr(v, c[3], d, msb) \in Writable,
           NEW w, Passed(w, v, Bytes(c[3]))
    PROVE  Alike(Switch(u, c[1], d, msb), StoreReg(w, c[2], Addr(v, c[3], d, msb)))
  <1> DEFINE op == c[1]
             mode == c[3]
             a == Addr(v, mode, d, msb)
             k == IF c[2] = "STA" THEN w.a ELSE IF c[2] = "STX" THEN w.x ELSE w.y
             h == Skip(u, IF op \in {141, 157, 153, 142, 140} THEN 2 ELSE 1)
  <1>1. mode \in MemoryModes /\ c[3] # "acc"
    BY StoreRows DEF MemoryModes
  <1>2. DOMAIN u = GFields /\ u.pc \in Word /\ u.a = v.a
    BY DEF Alike, SameRegs
  <1>3. Moved(h, u, Bytes(mode)) /\ Bytes(mode) \in Int
    <2>1. Bytes(mode) = IF mode \in {"abs", "abx", "aby"} THEN 2 ELSE 1
      BY <1>1 DEF Bytes, MemoryModes
    <2> QED
      BY <1>2, <2>1, StoreRows, MovedForms
  <1>4. Alike(h, w)
    BY <1>3, MovedAlike
  <1>5. /\ k \in Byte
        /\ h.a = w.a /\ h.x = w.x /\ h.y = w.y /\ h.a = u.a /\ h.x = u.x /\ h.y = u.y
    <2>1. w.a \in Byte /\ w.x \in Byte /\ w.y \in Byte /\ h.a = w.a /\ h.x = w.x /\ h.y = w.y
      BY <1>4 DEF Alike, SameRegs
    <2>2. h.a = u.a /\ h.x = u.x /\ h.y = u.y
      BY <1>2 DEF Skip, GFields
    <2> QED
      BY <2>1, <2>2
  <1>6. Switch(u, op, d, msb) = Store(u, op, d, msb)
    BY <1>1, Classes DEF Switch, Stores, Transfers, IncDecs, Branches
  <1>7. Store(u, op, d, msb) = CpuWrite(h, a, k)
    <2> DEFINE word == d + 256 * msb
               addr == CASE op \in {133, 134, 132} -> d
                         [] op \in {149, 148} -> U8(d + u.x)
                         [] op = 150 -> U8(d + u.y)
                         [] op \in {141, 142, 140} -> word
                         [] op = 157 -> U16(word + u.x)
                         [] op = 153 -> U16(word + u.y)
                         [] op = 145 -> IndY(u, d)
                         [] op = 129 -> IndX(u, d)
    <2>1. Store(u, op, d, msb) = CpuWrite(h, addr, StoredReg(u, op))
      BY DEF Store
    <2>2. addr = ModeAddr(u, mode, d, msb)
      BY <1>1, StoreRows DEF ModeAddr, MemoryModes
    <2>3. ModeAddr(u, mode, d, msb) = a
      BY <1>1, AddrSame
    <2>4. StoredReg(u, op) = IF c[2] = "STA" THEN u.a ELSE IF c[2] = "STX" THEN u.x ELSE u.y
      BY StoreRows DEF StoredReg, Stores
    <2> HIDE DEF addr, a, h
    <2> QED
      BY <1>5, <2>1, <2>2, <2>3, <2>4
  <1>8. StoreReg(w, c[2], a) = MemWrite(w, a, k)
    BY DEF StoreReg
  <1> HIDE DEF h, k
  <1>9. Alike(CpuWrite(h, a, k), MemWrite(w, a, k))
    BY <1>4, <1>5, WriteSame
  <1> QED
    BY <1>6, <1>7, <1>8, <1>9

\* The opcodes of the instructions that modify a byte, by their operation and their mode.
LEMMA ModifyRows ==
    ASSUME NEW c \in Cases, c[2] \in Modifies
    PROVE  /\ c[3] # "acc" => /\ c[3] \in {"zp", "zpx", "abs", "abx"}
                              /\ c[1] % 32 = 6 <=> c[3] = "zp"
                              /\ c[1] % 32 = 22 <=> c[3] = "zpx"
                              /\ c[1] % 32 = 14 <=> c[3] = "abs"
                              /\ c[1] % 32 = 30 <=> c[3] = "abx"
                              /\ c[1] % 16 = 6 <=> c[3] \in {"zp", "zpx"}
           /\ c[2] \in {"INC", "DEC"} => (c[1] >= 224 <=> c[2] = "INC")
           /\ c[2] \notin {"INC", "DEC"} => ShiftBase(c[1]) = Kind[c[2]]
  <1>1. c[3] # "acc" => /\ c[3] \in {"zp", "zpx", "abs", "abx"}
                        /\ c[1] % 32 = 6 <=> c[3] = "zp"
                        /\ c[1] % 32 = 22 <=> c[3] = "zpx"
                        /\ c[1] % 32 = 14 <=> c[3] = "abs"
                        /\ c[1] % 32 = 30 <=> c[3] = "abx"
                        /\ c[1] % 16 = 6 <=> c[3] \in {"zp", "zpx"}
    BY DEF Cases, Modifies
  <1>2. c[2] \in {"INC", "DEC"} => (c[1] >= 224 <=> c[2] = "INC")
    BY DEF Cases
  <1>3. c[2] \notin {"INC", "DEC"} => ShiftBase(c[1]) = Kind[c[2]]
    BY DEF Cases, Modifies, ShiftBase, Kind
  <1> QED
    BY <1>1, <1>2, <1>3

\* What a shift gives on both.
ShiftsAlike(op, ins, k, cin) ==
    LET s == Shifted(op, k, cin)
        t == ShiftResult(ins, k, cin)
    IN  /\ t.v \in Byte /\ U8(s.nz) = t.v /\ NzOf(s.nz, t.v)
        /\ s.c \in Word /\ (BitOf(s.c, 8) = 1 <=> t.c = 1)

\* A shift of A keeps the cores alike.
LEMMA ShiftAStep ==
    ASSUME NEW u, NEW v, Alike(u, v), NEW c \in Cases, c[2] \in Modifies, c[3] = "acc",
           NEW d \in Byte, NEW msb \in Byte, NEW w, Passed(w, v, Bytes(c[3]))
    PROVE  Alike(Switch(u, c[1], d, msb), ShiftAcc(w, c[2]))
  <1> DEFINE op == c[1]
             ins == c[2]
             cin == CarryIn(w)
             s == Shifted(op, w.a, cin)
             t == ShiftResult(ins, w.a, cin)
  <1>1. DOMAIN u = GFields /\ u.pc \in Word /\ v.pc \in Word /\ u.pc = v.pc
    BY DEF Alike, SameRegs
  <1>2. Alike(u, w)
    <2>3. v.pc + 0 = v.pc
      BY <1>1 DEF Word
    <2>1. Bytes(c[3]) = 0 /\ U16(v.pc + 0) = v.pc
      BY <1>1, <2>3, WordMod DEF Bytes
    <2>2. Counted(w, v) /\ Timely(u, u)
      BY <1>1, <2>1 DEF Passed, Counted, Timely
    <2> QED
      BY <2>2, TimelyAlike
  <1>3. w.a \in Byte /\ u.a = w.a /\ Carry(u) = cin /\ cin \in 0 .. 1
    BY <1>2, CarryIs DEF Alike, SameRegs
  <1>4. ins \in {"ASL", "ROL", "LSR", "ROR"} /\ ShiftBase(op) = Kind[ins]
    BY Classes, ModifyRows DEF Modifies
  <1>5. ShiftsAlike(op, ins, w.a, cin)
    BY <1>3, <1>4, ShiftAgrees DEF ShiftsAlike
  <1>6. /\ t.v \in Byte /\ U8(s.nz) = t.v /\ NzOf(s.nz, t.v)
        /\ s.c \in Word /\ (BitOf(s.c, 8) = 1 <=> t.c = 1)
    BY <1>5 DEF ShiftsAlike
  <1>7. Switch(u, op, d, msb) = ShiftA(u, op)
    BY <1>4, Classes DEF Switch, Stores, Transfers, IncDecs, Branches
  <1>8. ShiftA(u, op) = [u EXCEPT !.nz = s.nz, !.c = s.c, !.a = U8(s.nz)]
    BY <1>3 DEF ShiftA
  <1>9. ShiftAcc(w, ins) = UpdateNz([SetFlag(w, "C", t.c = 1) EXCEPT !.a = t.v], t.v)
    BY DEF ShiftAcc, CarryIn
  <1> DEFINE nz == s.nz
             sc == s.c
             k == t.v
             on == t.c = 1
  <1>10. /\ k \in Byte /\ U8(nz) = k /\ NzOf(nz, k) /\ sc \in Word /\ on \in BOOLEAN
         /\ BitOf(sc, 8) = 1 <=> on
    BY <1>6
  <1> DEFINE h1 == [u EXCEPT !.nz = nz, !.c = sc]
             w1 == UpdateNz(SetFlag(w, "C", on), k)
             h == [u EXCEPT !.nz = nz, !.c = sc, !.a = k]
             x == UpdateNz([SetFlag(w, "C", on) EXCEPT !.a = k], k)
  <1>11. ShiftA(u, op) = h /\ ShiftAcc(w, ins) = x
    BY <1>8, <1>9, <1>10
  <1> HIDE DEF nz, sc, k, on
  <1>12. Alike(h1, w1)
    BY <1>2, <1>10, NewFlags
  <1>13. /\ DOMAIN h = GFields /\ h.a = k /\ \A e \in GFields \ {"a"} : h[e] = h1[e]
    BY <1>1 DEF GFields
  <1>14. /\ DOMAIN x = NFields /\ x.a = k /\ \A e \in NFields \ {"a"} : x[e] = w1[e]
    BY <1>2 DEF Alike, NFields, UpdateNz, SetFlag
  <1> HIDE DEF h, h1, x, w1
  <1>15. SameRegs(h, x)
    BY <1>10, <1>12, <1>13, <1>14 DEF Alike, SameRegs, GFields, NFields
  <1>16. /\ h.mem = h1.mem /\ h.apu = h1.apu /\ x.mem = w1.mem /\ x.apu = w1.apu
         /\ h.status = h1.status /\ h.nz = h1.nz /\ h.c = h1.c /\ x.p = w1.p
    BY <1>13, <1>14 DEF GFields, NFields
  <1>17. Alike(h, x)
    BY <1>12, <1>13, <1>14, <1>15, <1>16 DEF Alike
  <1> QED
    BY <1>7, <1>11, <1>17

\* The address of a byte that is modified is the same on both.
LEMMA ModifyAddrSame ==
    ASSUME NEW u, NEW v, Alike(u, v), NEW c \in Cases, c[2] \in Modifies, c[3] # "acc",
           NEW d \in Byte, NEW msb \in Byte
    PROVE  /\ ModifyAddr(u, c[1], d, msb) = Addr(v, c[3], d, msb)
           /\ Moved(Skip(u, Width(c[1])), u, Bytes(c[3])) /\ Bytes(c[3]) \in Int
  <1>1. ModifyAddr(u, c[1], d, msb) = ModeAddr(u, c[3], d, msb)
    BY ModifyRows DEF ModifyAddr, ModeAddr
  <1>2. ModeAddr(u, c[3], d, msb) = Addr(v, c[3], d, msb)
    BY ModifyRows, AddrSame DEF MemoryModes
  <1>3. Width(c[1]) = Bytes(c[3]) /\ Width(c[1]) \in {1, 2}
    BY ModifyRows DEF Width, Bytes
  <1>4. Moved(Skip(u, Width(c[1])), u, Width(c[1]))
    BY <1>3, MovedForms DEF Alike, SameRegs
  <1> QED
    BY <1>1, <1>2, <1>3, <1>4

\* A result is stored and its flags are set in either order.
LEMMA StoredResult ==
    ASSUME NEW h, NEW w, DOMAIN w = NFields, NEW k \in Byte, Alike(h, UpdateNz(w, k)),
           NEW a \in Writable
    PROVE  Alike(CpuWrite(h, a, k), UpdateNz(MemWrite(w, a, k), k))
  <1>1. Alike(CpuWrite(h, a, k), MemWrite(UpdateNz(w, k), a, k))
    BY WriteSame
  <1>2. Counted(UpdateNz(MemWrite(w, a, k), k), MemWrite(UpdateNz(w, k), a, k))
    BY StoreThenFlags
  <1>3. Timely(CpuWrite(h, a, k), CpuWrite(h, a, k))
    BY <1>1 DEF Alike, Timely
  <1> QED
    BY <1>1, <1>2, <1>3, TimelyAlike

\* INC, DEC and the shifts of a byte in memory keep the cores alike.
LEMMA ModifyStep ==
    ASSUME NEW u, NEW v, Alike(u, v), NEW c \in Cases, c[2] \in Modifies, c[3] # "acc",
           NEW d \in Byte, NEW msb \in Byte, NEW w, Passed(w, v, Bytes(c[3])),
           Addr(v, c[3], d, msb) \in Readable \cap Writable
    PROVE  Alike(Switch(u, c[1], d, msb), Modify(w, c[2], Addr(v, c[3], d, msb)))
  <1> DEFINE op == c[1]
             ins == c[2]
             a == Addr(v, c[3], d, msb)
             f == Skip(u, Width(op))
             k == At(w.mem, a)
             cin == CarryIn(w)
  <1>1. a \in Readable /\ a \in Writable
    OBVIOUS
  <1>2. ModifyAddr(u, op, d, msb) = a /\ Moved(f, u, Bytes(c[3])) /\ Bytes(c[3]) \in Int
    BY ModifyAddrSame
  <1>3. Alike(f, w) /\ DOMAIN w = NFields
    BY <1>2, MovedAlike DEF Passed
  <1>4. w.mem = v.mem
    BY DEF Passed, NFields
  <1>5. CpuRead(u, a) = k /\ k \in Byte
    BY <1>1, <1>4, ReadSame DEF Alike
  <1>6. Carry(u) = cin /\ cin \in 0 .. 1
    <2>1. w.p = v.p
      BY DEF Passed, NFields
    <2> QED
      BY <2>1, CarryIs DEF CarryIn
  <1> HIDE DEF a, f, k, cin, ins
  <1>7. CASE ins \in {"INC", "DEC"}
    <2> DEFINE z == U16(k + (IF op >= 224 THEN 1 ELSE -1))
               b == IF ins = "INC" THEN U8(k + 1) ELSE U8(k - 1)
    <2>1. Switch(u, op, d, msb) = IncDecM(u, op, d, msb)
      BY <1>7, Classes DEF Switch, Stores, Transfers, IncDecs, Branches, ins
    <2>2. op >= 224 <=> ins = "INC"
      BY <1>7, ModifyRows DEF ins
    <2>3. IncDecM(u, op, d, msb) = CpuWrite([f EXCEPT !.nz = z], a, U8(z))
      BY <1>2, <1>5 DEF IncDecM, f
    <2>4. NzOf(z, b) /\ U8(z) = b /\ b \in Byte
      <3>1. CASE ins = "INC"
        <4>1. z = k + 1 /\ b = U8(k + 1)
          BY <1>5, <2>2, <3>1, NzPlus
        <4> QED
          BY <1>5, <4>1, NzPlus
      <3>2. CASE ins = "DEC"
        <4>1. z = U16(k - 1) /\ b = U8(k - 1)
          BY <1>5, <2>2, <3>2 DEF Byte
        <4> QED
          BY <1>5, <4>1, NzMinus
      <3> QED
        BY <1>7, <3>1, <3>2
    <2>5. Modify(w, ins, a) = UpdateNz(MemWrite(w, a, b), b)
      BY <1>7 DEF Modify, k
    <2> HIDE DEF z, b
    <2>6. Alike([f EXCEPT !.nz = z], UpdateNz(w, b))
      BY <1>3, <2>4, OldCarry
    <2>7. Alike(CpuWrite([f EXCEPT !.nz = z], a, b), UpdateNz(MemWrite(w, a, b), b))
      BY <1>1, <1>3, <2>4, <2>6, StoredResult
    <2> QED
      BY <2>1, <2>3, <2>4, <2>5, <2>7 DEF ins, a
  <1>8. CASE ins \notin {"INC", "DEC"}
    <2> DEFINE s == Shifted(op, k, cin)
               t == ShiftResult(ins, k, cin)
               z == s.nz
               sc == s.c
               b == t.v
               on == t.c = 1
    <2>1. ins \in {"ASL", "ROL", "LSR", "ROR"} /\ ShiftBase(op) = Kind[ins]
      BY <1>8, ModifyRows DEF Modifies, ins
    <2>2. Switch(u, op, d, msb) = ShiftM(u, op, d, msb)
      BY <2>1, Classes DEF Switch, Stores, Transfers, IncDecs, Branches, ins
    <2>3. ShiftsAlike(op, ins, k, cin)
      BY <1>5, <1>6, <2>1, ShiftAgrees DEF ShiftsAlike
    <2>4. ShiftM(u, op, d, msb) = CpuWrite([f EXCEPT !.nz = z, !.c = sc], a, U8(z))
      BY <1>2, <1>5, <1>6 DEF ShiftM, f
    <2>5. /\ b \in Byte /\ U8(z) = b /\ NzOf(z, b) /\ sc \in Word /\ on \in BOOLEAN
          /\ BitOf(sc, 8) = 1 <=> on
      BY <2>3 DEF ShiftsAlike
    <2>6. Modify(w, ins, a) = UpdateNz(MemWrite(SetFlag(w, "C", on), a, b), b)
      BY <1>8, <2>1 DEF Modify, k, cin, CarryIn
    <2> HIDE DEF z, b, sc, on
    <2>7. Alike([f EXCEPT !.nz = z, !.c = sc], UpdateNz(SetFlag(w, "C", on), b))
      BY <1>3, <2>5, NewFlags
    <2>8. DOMAIN SetFlag(w, "C", on) = NFields
      BY <1>3 DEF SetFlag, NFields
    <2>9. Alike(CpuWrite([f EXCEPT !.nz = z, !.c = sc], a, b),
                UpdateNz(MemWrite(SetFlag(w, "C", on), a, b), b))
      BY <1>1, <2>5, <2>7, <2>8, StoredResult
    <2> QED
      BY <2>2, <2>4, <2>5, <2>6, <2>9 DEF ins, a
  <1> QED
    BY <1>7, <1>8

\* An instruction of one byte finds the cores alike.
LEMMA ByteOnly ==
    ASSUME NEW u, NEW v, Alike(u, v), NEW mode, mode \in {"none", "acc"},
           NEW w, Passed(w, v, Bytes(mode))
    PROVE  Alike(u, w)
  <1>1. v.pc \in Word /\ DOMAIN u = GFields
    BY DEF Alike, SameRegs
  <1>2. v.pc + 0 = v.pc
    BY <1>1 DEF Word
  <1>3. Bytes(mode) = 0 /\ U16(v.pc + 0) = v.pc
    BY <1>1, <1>2, WordMod DEF Bytes
  <1>4. Counted(w, v) /\ Timely(u, u)
    BY <1>1, <1>3 DEF Passed, Counted, Timely
  <1> QED
    BY <1>4, TimelyAlike

\* The opcodes of the transfers and of INX, DEX, INY and DEY.
LEMMA RegisterRows ==
    ASSUME NEW c \in Cases
    PROVE  /\ c[2] = "TAX" <=> c[1] = 170
           /\ c[2] = "TXA" <=> c[1] = 138
           /\ c[2] = "TAY" <=> c[1] = 168
           /\ c[2] = "TYA" <=> c[1] = 152
           /\ c[2] = "TXS" <=> c[1] = 154
           /\ c[2] = "TSX" <=> c[1] = 186
           /\ c[2] = "INX" <=> c[1] = 232
           /\ c[2] = "DEX" <=> c[1] = 202
           /\ c[2] = "INY" <=> c[1] = 200
           /\ c[2] = "DEY" <=> c[1] = 136
           /\ c[2] \in Transfers \cup IncDecs => c[3] = "none"
  BY DEF Cases, Transfers, IncDecs

\* Every transfer and count of a register, on both.
RegistersAlike(u, v) ==
    /\ Alike([u EXCEPT !.x = u.a, !.nz = u.a], Transfer(v, "TAX"))
    /\ Alike([u EXCEPT !.a = u.x, !.nz = u.x], Transfer(v, "TXA"))
    /\ Alike([u EXCEPT !.y = u.a, !.nz = u.a], Transfer(v, "TAY"))
    /\ Alike([u EXCEPT !.a = u.y, !.nz = u.y], Transfer(v, "TYA"))
    /\ Alike([u EXCEPT !.sp = SetSp(u.x)], Transfer(v, "TXS"))
    /\ Alike([u EXCEPT !.x = GetSp(u), !.nz = GetSp(u)], Transfer(v, "TSX"))
    /\ Alike([u EXCEPT !.x = U8(@ + 1), !.nz = u.x + 1], IncDec(v, "INX"))
    /\ Alike([u EXCEPT !.x = U8(@ - 1), !.nz = U16(u.x - 1)], IncDec(v, "DEX"))
    /\ Alike([u EXCEPT !.y = U8(@ + 1), !.nz = u.y + 1], IncDec(v, "INY"))
    /\ Alike([u EXCEPT !.y = U8(@ - 1), !.nz = U16(u.y - 1)], IncDec(v, "DEY"))

\* The stack pointer of one core is the byte of the other.
LEMMA SpIs ==
    ASSUME NEW u, NEW v, Alike(u, v)
    PROVE  GetSp(u) = v.sp /\ v.sp \in Byte
  <1>1. v.sp \in Byte /\ u.sp = SetSp(v.sp)
    BY DEF Alike, SameRegs
  <1>2. (SetSp(v.sp) - 1) % 256 = v.sp
    BY <1>1 DEF SetSp, InStack, Byte
  <1> QED
    BY <1>1, <1>2 DEF GetSp

\* Each transfer, increment and decrement of a register keeps the cores alike.
LEMMA RegistersSame ==
    ASSUME NEW u, NEW v, Alike(u, v)
    PROVE  RegistersAlike(u, v)
  <1>1. /\ u.a = v.a /\ u.x = v.x /\ u.y = v.y
        /\ v.a \in Byte /\ v.x \in Byte /\ v.y \in Byte
    BY DEF Alike, SameRegs
  <1>2. GetSp(u) = v.sp /\ v.sp \in Byte
    BY SpIs
  <1>3. ASSUME NEW k \in Byte
        PROVE  /\ Alike([u EXCEPT !.a = k, !.nz = k], UpdateNz([v EXCEPT !.a = k], k))
               /\ Alike([u EXCEPT !.x = k, !.nz = k], UpdateNz([v EXCEPT !.x = k], k))
               /\ Alike([u EXCEPT !.y = k, !.nz = k], UpdateNz([v EXCEPT !.y = k], k))
    <2>1. NzOf(k, k)
      BY ByteNz
    <2> QED
      BY <2>1, LoadSame
  <1>4. /\ Alike([u EXCEPT !.x = u.a, !.nz = u.a], Transfer(v, "TAX"))
        /\ Alike([u EXCEPT !.a = u.x, !.nz = u.x], Transfer(v, "TXA"))
        /\ Alike([u EXCEPT !.y = u.a, !.nz = u.a], Transfer(v, "TAY"))
        /\ Alike([u EXCEPT !.a = u.y, !.nz = u.y], Transfer(v, "TYA"))
        /\ Alike([u EXCEPT !.x = GetSp(u), !.nz = GetSp(u)], Transfer(v, "TSX"))
    BY <1>1, <1>2, <1>3 DEF Transfer
  <1>5. Alike([u EXCEPT !.sp = SetSp(u.x)], Transfer(v, "TXS"))
    <2> DEFINE s == SetSp(v.x)
               h == [u EXCEPT !.sp = s]
               w == [v EXCEPT !.sp = v.x]
    <2>1. Transfer(v, "TXS") = w /\ [u EXCEPT !.sp = SetSp(u.x)] = h
      BY <1>1 DEF Transfer
    <2> HIDE DEF s
    <2>2. DOMAIN h = GFields /\ h.sp = s /\ \A e \in GFields \ {"sp"} : h[e] = u[e]
      BY DEF Alike, GFields
    <2>3. DOMAIN w = NFields /\ w.sp = v.x /\ \A e \in NFields \ {"sp"} : w[e] = v[e]
      BY DEF Alike, NFields
    <2> HIDE DEF h, w
    <2>4. SameRegs(h, w)
      BY <1>1, <2>2, <2>3 DEF Alike, SameRegs, GFields, NFields, s
    <2>5. /\ h.apu = u.apu /\ w.apu = v.apu /\ h.mem = u.mem /\ w.mem = v.mem
          /\ h.status = u.status /\ h.nz = u.nz /\ h.c = u.c /\ w.p = v.p
      BY <2>2, <2>3 DEF GFields, NFields
    <2>6. Alike(h, w)
      BY <2>2, <2>3, <2>4, <2>5 DEF Alike
    <2> QED
      BY <2>1, <2>6
  <1>6. ASSUME NEW k \in Byte, NEW m, NzOf(m, k)
        PROVE  /\ Alike([u EXCEPT !.x = k, !.nz = m], UpdateNz([v EXCEPT !.x = k], k))
               /\ Alike([u EXCEPT !.y = k, !.nz = m], UpdateNz([v EXCEPT !.y = k], k))
    BY <1>6, LoadSame
  <1>7. ASSUME NEW b \in Byte
        PROVE  /\ NzOf(b + 1, U8(b + 1)) /\ U8(b + 1) \in Byte
               /\ NzOf(U16(b - 1), U8(b - 1)) /\ U8(b - 1) \in Byte
    <2>1. NzOf(b + 1, U8(b + 1)) /\ U8(b + 1) \in Byte
      BY NzPlus
    <2>2. NzOf(U16(b - 1), U8(b - 1)) /\ U8(b - 1) \in Byte
      BY NzMinus
    <2> QED
      BY <2>1, <2>2
  <1>8. /\ IncDec(v, "INX") = UpdateNz([v EXCEPT !.x = U8(v.x + 1)], U8(v.x + 1))
        /\ IncDec(v, "DEX") = UpdateNz([v EXCEPT !.x = U8(v.x - 1)], U8(v.x - 1))
        /\ IncDec(v, "INY") = UpdateNz([v EXCEPT !.y = U8(v.y + 1)], U8(v.y + 1))
        /\ IncDec(v, "DEY") = UpdateNz([v EXCEPT !.y = U8(v.y - 1)], U8(v.y - 1))
    <2>1. \A b \in Byte : b + (-1) = b - 1
      BY DEF Byte
    <2> QED
      BY <1>1, <2>1 DEF IncDec
  <1>9. /\ Alike([u EXCEPT !.x = U8(v.x + 1), !.nz = v.x + 1], IncDec(v, "INX"))
        /\ Alike([u EXCEPT !.x = U8(v.x - 1), !.nz = U16(v.x - 1)], IncDec(v, "DEX"))
        /\ Alike([u EXCEPT !.y = U8(v.y + 1), !.nz = v.y + 1], IncDec(v, "INY"))
        /\ Alike([u EXCEPT !.y = U8(v.y - 1), !.nz = U16(v.y - 1)], IncDec(v, "DEY"))
    BY <1>1, <1>6, <1>7, <1>8
  <1> QED
    BY <1>1, <1>4, <1>5, <1>9 DEF RegistersAlike

\* The transfers and INX, DEX, INY and DEY keep the cores alike.
LEMMA RegisterStep ==
    ASSUME NEW u, NEW v, Alike(u, v), NEW c \in Cases, c[2] \in Transfers \cup IncDecs,
           NEW d \in Byte, NEW msb \in Byte, NEW w, Passed(w, v, Bytes(c[3]))
    PROVE  Alike(Switch(u, c[1], d, msb),
                 IF c[2] \in Transfers THEN Transfer(w, c[2]) ELSE IncDec(w, c[2]))
  <1>1. c[3] \in {"none", "acc"} /\ c[3] # "acc"
    BY RegisterRows
  <1>2. Alike(u, w)
    BY <1>1, ByteOnly
  <1>3. RegistersAlike(u, w)
    BY <1>2, RegistersSame
  <1>4. Switch(u, c[1], d, msb) = Register(u, c[1])
    BY <1>1, Classes DEF Switch, Stores, Transfers, IncDecs, Branches
  <1>5. /\ c[2] = "TAX" => Register(u, c[1]) = [u EXCEPT !.x = u.a, !.nz = u.a]
        /\ c[2] = "TXA" => Register(u, c[1]) = [u EXCEPT !.a = u.x, !.nz = u.x]
        /\ c[2] = "TAY" => Register(u, c[1]) = [u EXCEPT !.y = u.a, !.nz = u.a]
        /\ c[2] = "TYA" => Register(u, c[1]) = [u EXCEPT !.a = u.y, !.nz = u.y]
        /\ c[2] = "TXS" => Register(u, c[1]) = [u EXCEPT !.sp = SetSp(u.x)]
        /\ c[2] = "TSX" => Register(u, c[1]) = [u EXCEPT !.x = GetSp(u), !.nz = GetSp(u)]
        /\ c[2] = "INX" => Register(u, c[1]) = [u EXCEPT !.x = U8(@ + 1), !.nz = u.x + 1]
        /\ c[2] = "DEX" => Register(u, c[1]) = [u EXCEPT !.x = U8(@ - 1), !.nz = U16(u.x - 1)]
        /\ c[2] = "INY" => Register(u, c[1]) = [u EXCEPT !.y = U8(@ + 1), !.nz = u.y + 1]
        /\ c[2] = "DEY" => Register(u, c[1]) = [u EXCEPT !.y = U8(@ - 1), !.nz = U16(u.y - 1)]
    BY RegisterRows DEF Register
  <1> QED
    BY <1>3, <1>4, <1>5 DEF RegistersAlike, Transfers, IncDecs

\* PLA on both.
PulledAlike(u, v) ==
    Alike([Drop(u, 1) EXCEPT !.a = Top(u, 1), !.nz = Top(u, 1)],
          UpdateNz([Pull(v, 1) EXCEPT !.a = Pulled(v, 1)], Pulled(v, 1)))

\* PLA keeps the cores alike.
LEMMA PullLoad ==
    ASSUME NEW u, NEW v, Alike(u, v)
    PROVE  PulledAlike(u, v)
  <1> DEFINE k == Pulled(v, 1)
             h == Drop(u, 1)
             w == Pull(v, 1)
  <1>1. Top(u, 1) = k /\ k \in Byte
    BY TopSame
  <1>2. Alike(h, w)
    BY PullSame
  <1>3. NzOf(k, k)
    BY <1>1, ByteNz
  <1> HIDE DEF k, h, w
  <1>4. Alike([h EXCEPT !.a = k, !.nz = k], UpdateNz([w EXCEPT !.a = k], k))
    BY <1>1, <1>2, <1>3, LoadSame
  <1> QED
    BY <1>1, <1>4 DEF PulledAlike, k, h, w

\* PHP pushes the same byte on both, though one core has its flags in pieces.
LEMMA PushStatus ==
    ASSUME NEW u, NEW v, Alike(u, v)
    PROVE  Alike(Push(u, ByteOf(CalcStatus(u) \cup {"B", "U"})), Push8(v, ByteOf(v.p \cup {"B", "U"})))
  <1>1. CalcStatus(u) \cup {"B", "U"} = v.p \cup {"B", "U"}
    BY FlagsSame
  <1>2. ByteOf(v.p \cup {"B", "U"}) \in Byte
    BY ByteOfIs
  <1> QED
    BY <1>1, <1>2, PushSame

\* The status is pulled, i bytes in all; PLP may then move the base to the run's end.
LEMMA PullStatus ==
    ASSUME NEW u, NEW v, Alike(u, v), NEW i \in {1, 3}
    PROVE  /\ Alike(SetStatus(Drop(u, i), Top(u, 1)), SetP(Pull(v, i), Pulled(v, 1)))
           /\ Alike(HandleSei(SetStatus(Drop(u, i), Top(u, 1))), SetP(Pull(v, i), Pulled(v, 1)))
  <1> DEFINE k == Pulled(v, 1)
             h == SetStatus(Drop(u, i), k)
             w == SetP(Pull(v, i), k)
  <1>1. Top(u, 1) = k /\ k \in Byte
    BY TopSame
  <1>2. Alike(Drop(u, i), Pull(v, i))
    BY PullSame
  <1>3. Alike(h, w)
    BY <1>1, <1>2, StatusSame
  <1> HIDE DEF h, w
  <1>4. Timely(HandleSei(h), h) /\ Counted(w, w)
    BY <1>3 DEF Alike, Timely, Counted, HandleSei, GFields
  <1>5. Alike(HandleSei(h), w)
    BY <1>3, <1>4, TimelyAlike
  <1> QED
    BY <1>1, <1>3, <1>5 DEF h, w

\* The opcodes of the instructions on the stack.
LEMMA StackRows ==
    ASSUME NEW c \in Cases
    PROVE  /\ c[2] = "PHA" <=> c[1] = 72
           /\ c[2] = "PLA" <=> c[1] = 104
           /\ c[2] = "PHP" <=> c[1] = 8
           /\ c[2] = "PLP" <=> c[1] = 40
           /\ c[2] \in {"PHA", "PLA", "PHP", "PLP"} => c[3] = "none"
  BY DEF Cases

\* PHA, PLA, PHP and PLP keep the cores alike.
LEMMA StackStep ==
    ASSUME NEW u, NEW v, Alike(u, v), NEW c \in Cases, c[2] \in {"PHA", "PLA", "PHP", "PLP"},
           NEW d \in Byte, NEW msb \in Byte, NEW w, Passed(w, v, Bytes(c[3]))
    PROVE  Alike(Switch(u, c[1], d, msb), Other(w, c[2], d, msb))
  <1>1. c[3] \in {"none", "acc"} /\ c[3] # "acc"
    BY StackRows
  <1>2. Alike(u, w)
    BY <1>1, ByteOnly
  <1>3. Switch(u, c[1], d, msb) = Stack(u, c[1])
    BY <1>1, Classes DEF Switch, Stores, Transfers, IncDecs, Branches
  <1>4. CASE c[2] = "PHA"
    <2>1. Stack(u, c[1]) = Push(u, u.a)
      BY <1>4, StackRows DEF Stack
    <2>2. Other(w, "PHA", d, msb) = Push8(w, w.a)
      BY DEF Other
    <2>3. u.a = w.a /\ w.a \in Byte
      BY <1>2 DEF Alike, SameRegs
    <2> QED
      BY <1>2, <1>3, <1>4, <2>1, <2>2, <2>3, PushSame
  <1>5. CASE c[2] = "PLA"
    <2>1. Stack(u, c[1]) = [Drop(u, 1) EXCEPT !.a = Top(u, 1), !.nz = Top(u, 1)]
      BY <1>5, StackRows DEF Stack
    <2>2. Other(w, "PLA", d, msb) = UpdateNz([Pull(w, 1) EXCEPT !.a = Pulled(w, 1)], Pulled(w, 1))
      BY DEF Other
    <2>3. PulledAlike(u, w)
      BY <1>2, PullLoad
    <2> QED
      BY <1>3, <1>5, <2>1, <2>2, <2>3 DEF PulledAlike
  <1>6. CASE c[2] = "PHP"
    <2>1. Stack(u, c[1]) = Push(u, ByteOf(CalcStatus(u) \cup {"B", "U"}))
      BY <1>6, StackRows DEF Stack
    <2>2. Other(w, "PHP", d, msb) = Push8(w, ByteOf(w.p \cup {"B", "U"}))
      BY DEF Other
    <2> QED
      BY <1>2, <1>3, <1>6, <2>1, <2>2, PushStatus
  <1>7. CASE c[2] = "PLP"
    <2> DEFINE h == SetStatus(Drop(u, 1), Top(u, 1))
    <2>1. Stack(u, c[1]) = h \/ Stack(u, c[1]) = HandleSei(h)
      BY <1>7, StackRows DEF Stack
    <2>2. Other(w, "PLP", d, msb) = SetP(Pull(w, 1), Pulled(w, 1))
      BY DEF Other
    <2>3. Alike(h, SetP(Pull(w, 1), Pulled(w, 1))) /\ Alike(HandleSei(h), SetP(Pull(w, 1), Pulled(w, 1)))
      BY <1>2, PullStatus
    <2> QED
      BY <1>3, <1>7, <2>1, <2>2, <2>3
  <1> QED
    BY <1>4, <1>5, <1>6, <1>7

\* The opcodes of the instructions on flags.
LEMMA FlagRows ==
    ASSUME NEW c \in Cases
    PROVE  /\ c[2] = "SEC" <=> c[1] = 56
           /\ c[2] = "CLC" <=> c[1] = 24
           /\ c[2] = "CLV" <=> c[1] = 184
           /\ c[2] = "CLD" <=> c[1] = 216
           /\ c[2] = "SED" <=> c[1] = 248
           /\ c[2] = "CLI" <=> c[1] = 88
           /\ c[2] = "SEI" <=> c[1] = 120
           /\ c[2] = "NOP" <=> c[1] = 234
           /\ c[2] \in {"SEC", "CLC", "CLV", "CLD", "SED", "CLI", "SEI", "NOP"} => c[3] = "none"
  BY DEF Cases

\* The instructions on flags keep the cores alike, also when SEI ends the run early.
LEMMA FlagStep ==
    ASSUME NEW u, NEW v, Alike(u, v), NEW c \in Cases,
           c[2] \in {"SEC", "CLC", "CLV", "CLD", "SED", "CLI", "SEI"},
           NEW d \in Byte, NEW msb \in Byte, NEW w, Passed(w, v, Bytes(c[3]))
    PROVE  Alike(Switch(u, c[1], d, msb), Other(w, c[2], d, msb))
  <1>1. c[3] \in {"none", "acc"} /\ c[3] # "acc"
    BY FlagRows
  <1>2. Alike(u, w)
    BY <1>1, ByteOnly
  <1>3. Switch(u, c[1], d, msb) = SetFlags(u, c[1])
    BY <1>1, Classes DEF Switch, Stores, Transfers, IncDecs, Branches
  <1>4. CarryAlike(u, w) /\ FlagAlike(u, w, "V") /\ FlagAlike(u, w, "D") /\ FlagAlike(u, w, "I")
    BY <1>2, CarrySame, FlagSame
  <1>5. /\ c[2] = "CLC" => Other(w, c[2], d, msb) = [w EXCEPT !.p = @ \ {"C"}]
        /\ c[2] = "SEC" => Other(w, c[2], d, msb) = [w EXCEPT !.p = @ \cup {"C"}]
        /\ c[2] = "CLI" => Other(w, c[2], d, msb) = [w EXCEPT !.p = @ \ {"I"}]
        /\ c[2] = "SEI" => Other(w, c[2], d, msb) = [w EXCEPT !.p = @ \cup {"I"}]
        /\ c[2] = "CLD" => Other(w, c[2], d, msb) = [w EXCEPT !.p = @ \ {"D"}]
        /\ c[2] = "SED" => Other(w, c[2], d, msb) = [w EXCEPT !.p = @ \cup {"D"}]
        /\ c[2] = "CLV" => Other(w, c[2], d, msb) = [w EXCEPT !.p = @ \ {"V"}]
    BY DEF Other, SetFlag, WithFlag
  <1>6. /\ c[2] = "CLC" => SetFlags(u, c[1]) = [u EXCEPT !.c = 0]
        /\ c[2] = "SEC" => SetFlags(u, c[1]) = [u EXCEPT !.c = 65535]
        /\ c[2] = "CLI" => SetFlags(u, c[1]) = [u EXCEPT !.status = @ \ {"I"}]
        /\ c[2] = "CLD" => SetFlags(u, c[1]) = [u EXCEPT !.status = @ \ {"D"}]
        /\ c[2] = "SED" => SetFlags(u, c[1]) = [u EXCEPT !.status = @ \cup {"D"}]
        /\ c[2] = "CLV" => SetFlags(u, c[1]) = [u EXCEPT !.status = @ \ {"V"}]
    BY FlagRows DEF SetFlags
  <1>7. CASE c[2] = "SEI"
    <2> DEFINE h == [u EXCEPT !.status = @ \cup {"I"}]
               x == [w EXCEPT !.p = @ \cup {"I"}]
    <2>1. Alike(h, x)
      BY <1>4 DEF FlagAlike
    <2>2. CASE "I" \in u.status
      <3>1. SetFlags(u, c[1]) = u
        BY <1>7, <2>2, FlagRows DEF SetFlags
      <3>2. u.status \cup {"I"} = u.status /\ DOMAIN u = GFields
        BY <2>2 DEF Alike
      <3>3. Timely(u, h)
        BY <3>2 DEF Timely, GFields
      <3>4. Counted(x, x)
        BY <2>1 DEF Alike, Counted
      <3> HIDE DEF h, x
      <3>5. Alike(u, x)
        BY <2>1, <3>3, <3>4, TimelyAlike
      <3> QED
        BY <1>3, <1>5, <1>7, <3>1, <3>5 DEF x
    <2>3. CASE "I" \notin u.status
      <3>1. SetFlags(u, c[1]) = HandleSei(h)
        BY <1>7, <2>3, FlagRows DEF SetFlags
      <3> HIDE DEF h, x
      <3>2. Timely(HandleSei(h), h) /\ Counted(x, x)
        BY <2>1 DEF Alike, Timely, Counted, HandleSei, GFields
      <3>3. Alike(HandleSei(h), x)
        BY <2>1, <3>2, TimelyAlike
      <3> QED
        BY <1>3, <1>5, <1>7, <3>1, <3>3 DEF x
    <2> QED
      BY <2>2, <2>3
  <1>8. CASE c[2] \in {"SEC", "CLC"}
    BY <1>3, <1>4, <1>5, <1>6, <1>8 DEF CarryAlike
  <1>9. CASE c[2] \in {"CLI", "CLD", "SED", "CLV"}
    BY <1>3, <1>4, <1>5, <1>6, <1>9 DEF FlagAlike
  <1> QED
    BY <1>7, <1>8, <1>9

\* NOP keeps the cores alike.
LEMMA NopStep ==
    ASSUME NEW u, NEW v, Alike(u, v), NEW c \in Cases, c[2] = "NOP",
           NEW d \in Byte, NEW msb \in Byte, NEW w, Passed(w, v, Bytes(c[3]))
    PROVE  Alike(Switch(u, c[1], d, msb), Other(w, c[2], d, msb))
  <1>1. c[3] \in {"none", "acc"} /\ c[3] # "acc" /\ c[1] = 234
    BY FlagRows
  <1>2. Alike(u, w)
    BY <1>1, ByteOnly
  <1>3. Switch(u, c[1], d, msb) = Unofficial(u, c[1], d)
    BY <1>1, Classes DEF Switch, Stores, Transfers, IncDecs, Branches
  <1>4. Unofficial(u, 234, d) = u
    BY DEF Unofficial, SkipWordOps, SkipByteOps, NopOps, HaltOps, BadOpcode
  <1>5. Other(w, c[2], d, msb) = w
    BY DEF Other
  <1> QED
    BY <1>1, <1>2, <1>3, <1>4, <1>5

\* The opcodes of the branches.
LEMMA BranchRows ==
    ASSUME NEW c \in Cases
    PROVE  /\ c[2] = "BPL" <=> c[1] = 16
           /\ c[2] = "BMI" <=> c[1] = 48
           /\ c[2] = "BVC" <=> c[1] = 80
           /\ c[2] = "BVS" <=> c[1] = 112
           /\ c[2] = "BCC" <=> c[1] = 144
           /\ c[2] = "BCS" <=> c[1] = 176
           /\ c[2] = "BNE" <=> c[1] = 208
           /\ c[2] = "BEQ" <=> c[1] = 240
           /\ c[2] \in Branches => c[3] = "rel"
  BY DEF Cases, Branches

\* A branch is taken on one core when it is taken on the other.
LEMMA TakenSame ==
    ASSUME NEW u, NEW v, Alike(u, v), NEW c \in Cases, c[2] \in Branches, NEW w, w.p = v.p
    PROVE  Taken(u, c[1]) <=> BranchTaken(w, c[2])
  <1>1. /\ "N" \in w.p <=> IsNeg(u)
        /\ "Z" \in w.p <=> IsZero(u)
        /\ "C" \in w.p <=> Carry(u) = 1
        /\ Carry(u) = 0 \/ Carry(u) = 1
        /\ "V" \in u.status <=> "V" \in w.p
    BY FlagsSame
  <1>10. 0 # 1
    OBVIOUS
  <1>2. CASE c[2] = "BPL"
    <2>1. (Taken(u, c[1]) <=> ~IsNeg(u)) /\ (BranchTaken(w, c[2]) <=> "N" \notin w.p)
      BY <1>2, BranchRows, Zenon DEF Taken, BranchTaken
    <2> QED
      BY <1>1, <1>10, <2>1, Zenon
  <1>3. CASE c[2] = "BMI"
    <2>1. (Taken(u, c[1]) <=> IsNeg(u)) /\ (BranchTaken(w, c[2]) <=> "N" \in w.p)
      BY <1>3, BranchRows, Zenon DEF Taken, BranchTaken
    <2> QED
      BY <1>1, <1>10, <2>1, Zenon
  <1>4. CASE c[2] = "BVC"
    <2>1. (Taken(u, c[1]) <=> "V" \notin u.status) /\ (BranchTaken(w, c[2]) <=> "V" \notin w.p)
      BY <1>4, BranchRows, Zenon DEF Taken, BranchTaken
    <2> QED
      BY <1>1, <1>10, <2>1, Zenon
  <1>5. CASE c[2] = "BVS"
    <2>1. (Taken(u, c[1]) <=> "V" \in u.status) /\ (BranchTaken(w, c[2]) <=> "V" \in w.p)
      BY <1>5, BranchRows, Zenon DEF Taken, BranchTaken
    <2> QED
      BY <1>1, <1>10, <2>1, Zenon
  <1>6. CASE c[2] = "BCC"
    <2>1. (Taken(u, c[1]) <=> Carry(u) = 0) /\ (BranchTaken(w, c[2]) <=> "C" \notin w.p)
      BY <1>6, BranchRows, Zenon DEF Taken, BranchTaken
    <2> QED
      BY <1>1, <1>10, <2>1, Zenon
  <1>7. CASE c[2] = "BCS"
    <2>1. (Taken(u, c[1]) <=> Carry(u) = 1) /\ (BranchTaken(w, c[2]) <=> "C" \in w.p)
      BY <1>7, BranchRows, Zenon DEF Taken, BranchTaken
    <2> QED
      BY <1>1, <1>10, <2>1, Zenon
  <1>8. CASE c[2] = "BNE"
    <2>1. (Taken(u, c[1]) <=> ~IsZero(u)) /\ (BranchTaken(w, c[2]) <=> "Z" \notin w.p)
      BY <1>8, BranchRows, Zenon DEF Taken, BranchTaken
    <2> QED
      BY <1>1, <1>10, <2>1, Zenon
  <1>9. CASE c[2] = "BEQ"
    <2>1. (Taken(u, c[1]) <=> IsZero(u)) /\ (BranchTaken(w, c[2]) <=> "Z" \in w.p)
      BY <1>9, BranchRows, Zenon DEF Taken, BranchTaken
    <2> QED
      BY <1>1, <1>10, <2>1, Zenon
  <1> QED
    BY <1>2, <1>3, <1>4, <1>5, <1>6, <1>7, <1>8, <1>9 DEF Branches

\* The branches keep the cores alike.
LEMMA BranchStep ==
    ASSUME NEW u, NEW v, Alike(u, v), NEW c \in Cases, c[2] \in Branches,
           NEW d \in Byte, NEW msb \in Byte, NEW w, Passed(w, v, Bytes(c[3]))
    PROVE  Alike(Switch(u, c[1], d, msb),
                 IF BranchTaken(w, c[2]) THEN [w EXCEPT !.pc = U16(@ + S8(d))] ELSE w)
  <1> DEFINE h == Skip(u, 1)
             q == BitOf(U16(U8(h.pc) + S8(d)), 8)
             to == U16(h.pc + S8(d))
  <1>1. c[3] = "rel" /\ c[3] # "acc" /\ Bytes(c[3]) = 1
    BY BranchRows DEF Bytes
  <1>2. Alike(h, w)
    BY <1>1, MovedAlike, MovedForms DEF Alike, SameRegs
  <1>3. Switch(u, c[1], d, msb) = Branch(u, c[1], d)
    BY <1>1, Classes DEF Switch, Stores, Transfers, IncDecs, Branches
  <1>4. Taken(u, c[1]) <=> BranchTaken(w, c[2])
    BY TakenSame DEF Passed, NFields
  <1>5. h.pc = w.pc /\ h.pc \in Word
    BY <1>2 DEF Alike, SameRegs
  <1>6. to \in Word
    <2>1. S8(d) \in Int
      BY DEF S8, Byte
    <2>2. h.pc + S8(d) \in Int
      BY <1>5, <2>1 DEF Word
    <2> QED
      BY <2>2, U16Word
  <1>7. Branch(u, c[1], d) = IF Taken(u, c[1]) THEN [h EXCEPT !.pc = to, !.s_time = @ + q]
                             ELSE [h EXCEPT !.s_time = @ - 1]
    BY DEF Branch
  <1>8. [w EXCEPT !.pc = U16(@ + S8(d))] = [w EXCEPT !.pc = to]
    BY <1>5
  <1> HIDE DEF h, q, to
  <1>9. CASE BranchTaken(w, c[2])
    <2> DEFINE f == [h EXCEPT !.pc = to]
               x == [w EXCEPT !.pc = to]
               f2 == [h EXCEPT !.pc = to, !.s_time = @ + q]
    <2>1. Alike(f, x)
      BY <1>2, <1>6, PcSame
    <2>2. Timely(f2, f) /\ Counted(x, x)
      BY <1>2 DEF Alike, Timely, Counted, GFields, NFields
    <2> HIDE DEF f, f2, x
    <2>3. Alike(f2, x)
      BY <2>1, <2>2, TimelyAlike
    <2> QED
      BY <1>3, <1>4, <1>7, <1>8, <1>9, <2>3 DEF f2, x
  <1>10. CASE ~BranchTaken(w, c[2])
    <2> DEFINE f2 == [h EXCEPT !.s_time = @ - 1]
    <2>1. Timely(f2, h) /\ Counted(w, w)
      BY <1>2 DEF Alike, Timely, Counted, GFields, NFields
    <2> HIDE DEF f2
    <2>2. Alike(f2, w)
      BY <1>2, <2>1, TimelyAlike
    <2> QED
      BY <1>3, <1>4, <1>7, <1>10, <2>2 DEF f2
  <1> QED
    BY <1>9, <1>10

\* The opcodes of the jumps.
LEMMA JumpRows ==
    ASSUME NEW c \in Cases
    PROVE  /\ c[1] = 32 <=> c[2] = "JSR"
           /\ c[1] = 76 <=> c[2] = "JMP" /\ c[3] = "abs"
           /\ c[1] = 108 <=> c[2] = "JMP" /\ c[3] = "ind"
           /\ c[1] = 96 <=> c[2] = "RTS"
           /\ c[1] = 64 <=> c[2] = "RTI"
           /\ c[2] = "JMP" => c[3] \in {"abs", "ind"}
           /\ c[2] = "JSR" => c[3] = "abs"
           /\ c[2] \in {"RTS", "RTI"} => c[3] = "none"
  BY DEF Cases

\* Two bytes make a word.
LEMMA WordOf ==
    ASSUME NEW lo \in Byte, NEW hi \in Byte
    PROVE  lo + 256 * hi \in Word /\ U16(1 + lo + 256 * hi) \in Word
           /\ U16(1 + lo + 256 * hi) = U16(lo + 256 * hi + 1)
  <1>1. lo + 256 * hi \in Word
    BY DEF Byte, Word
  <1>2. lo + 256 * hi + 1 \in Int /\ 1 + lo + 256 * hi = lo + 256 * hi + 1
    BY DEF Byte
  <1> QED
    BY <1>1, <1>2, U16Word

\* JMP keeps the cores alike.
LEMMA JmpStep ==
    ASSUME NEW u, NEW v, Alike(u, v), NEW c \in Cases, c[2] = "JMP", c[3] = "abs",
           NEW d \in Byte, NEW msb \in Byte, NEW w, Passed(w, v, Bytes(c[3]))
    PROVE  Alike(Switch(u, c[1], d, msb), Other(w, c[2], d, msb))
  <1> DEFINE word == d + 256 * msb
             h == Skip(u, 2)
             f == [h EXCEPT !.pc = word]
             f2 == [u EXCEPT !.pc = word]
             x == [w EXCEPT !.pc = word]
  <1>1. c[1] = 76 /\ Bytes(c[3]) = 2
    BY JumpRows DEF Bytes
  <1>2. Alike(h, w)
    BY <1>1, MovedAlike, MovedForms DEF Alike, SameRegs
  <1>3. Switch(u, c[1], d, msb) = Jump(u, c[1], word)
    BY Classes DEF Switch, Stores, Transfers, IncDecs, Branches
  <1>4. Jump(u, c[1], word) = f2
    BY <1>1 DEF Jump
  <1>5. Other(w, c[2], d, msb) = x
    BY DEF Other
  <1>6. word \in Word
    BY WordOf
  <1>7. Timely(f2, f)
    BY DEF Alike, Timely, GFields, Skip
  <1> HIDE DEF word, h
  <1>8. Alike(f, x)
    BY <1>2, <1>6, PcSame
  <1>9. Counted(x, x)
    BY <1>8 DEF Alike, Counted
  <1> HIDE DEF f, f2, x
  <1>10. Alike(f2, x)
    BY <1>7, <1>8, <1>9, TimelyAlike
  <1> QED
    BY <1>3, <1>4, <1>5, <1>10

\* The second byte of a pointer, in the same page.
NextByte(d, msb) == ((d + 256 * msb) \div 256) * 256 + U8(d + 256 * msb + 1)
\* The jump through a pointer.
Jumped(w, d, msb) ==
    [w EXCEPT !.pc = At(w.mem, d + 256 * msb) + 256 * At(w.mem, NextByte(d, msb)),
              !.reads = {d + 256 * msb, NextByte(d, msb)}]

\* JMP through a pointer keeps the cores alike: both stay in the pointer's page.
LEMMA JmpIndStep ==
    ASSUME NEW u, NEW v, Alike(u, v), NEW c \in Cases, c[2] = "JMP", c[3] = "ind",
           NEW d \in Byte, NEW msb \in Byte, NEW w, Passed(w, v, Bytes(c[3])),
           {d + 256 * msb, NextByte(d, msb)} \subseteq Readable
    PROVE  Alike(Switch(u, c[1], d, msb), Jumped(w, d, msb))
  <1> DEFINE word == d + 256 * msb
             next == NextByte(d, msb)
             to == At(w.mem, word) + 256 * At(w.mem, next)
             h == Skip(u, 2)
             f == [h EXCEPT !.pc = to]
             f2 == [u EXCEPT !.pc = to]
             y == [w EXCEPT !.pc = to]
             x == Jumped(w, d, msb)
  <1>1. c[1] = 108 /\ Bytes(c[3]) = 2
    BY JumpRows DEF Bytes
  <1>2. Alike(h, w)
    BY <1>1, MovedAlike, MovedForms DEF Alike, SameRegs
  <1>3. Switch(u, c[1], d, msb) = Jump(u, c[1], word)
    BY Classes DEF Switch, Stores, Transfers, IncDecs, Branches
  <1>4. w.mem = v.mem
    BY DEF Passed, NFields
  <1>5. /\ CpuRead(u, word) = At(w.mem, word) /\ At(w.mem, word) \in Byte
        /\ CpuRead(u, next) = At(w.mem, next) /\ At(w.mem, next) \in Byte
    <2>1. word \in Readable /\ next \in Readable
      OBVIOUS
    <2> QED
      BY <1>4, <2>1, FoundSame
  <1>6. Jump(u, c[1], word) = f2
    BY <1>1, <1>5 DEF Jump, JmpInd, NextByte
  <1>7. to \in Word
    BY <1>5, WordOf
  <1>8. Timely(f2, f)
    <2>1. DOMAIN u = GFields
      BY DEF Alike
    <2> HIDE DEF to
    <2> QED
      BY <2>1 DEF Timely, GFields, Skip
  <1>9. x = [w EXCEPT !.pc = to, !.reads = {word, next}]
    BY DEF Jumped
  <1> HIDE DEF word, h, next, to, x
  <1>10. Alike(f, y)
    BY <1>2, <1>7, PcSame
  <1>11. Counted(x, y)
    BY <1>2, <1>9 DEF Alike, Counted, NFields
  <1> HIDE DEF f, f2, y
  <1>12. Alike(f2, x)
    BY <1>8, <1>10, <1>11, TimelyAlike
  <1> QED
    BY <1>3, <1>6, <1>12 DEF x

\* JSR keeps the cores alike: both push the address of its last byte.
LEMMA JsrStep ==
    ASSUME NEW u, NEW v, Alike(u, v), NEW c \in Cases, c[2] = "JSR",
           NEW d \in Byte, NEW msb \in Byte, NEW w, Passed(w, v, Bytes(c[3]))
    PROVE  Alike(Switch(u, c[1], d, msb), Other(w, c[2], d, msb))
  <1> DEFINE word == d + 256 * msb
             h == Skip(u, 2)
             ret == U16(w.pc - 1)
             hi == ret \div 256
             lo == U8(ret)
             f == [Push(Push(h, hi), lo) EXCEPT !.pc = word]
             f2 == [Push(Push(u, hi), lo) EXCEPT !.pc = word]
             x == [Push8(Push8(w, hi), lo) EXCEPT !.pc = word]
  <1>1. c[1] = 32 /\ Bytes(c[3]) = 2 /\ c[3] # "acc"
    BY JumpRows DEF Bytes
  <1>2. Alike(h, w) /\ u.pc \in Word /\ DOMAIN u = GFields
    BY <1>1, MovedAlike, MovedForms DEF Alike, SameRegs
  <1>3. Switch(u, c[1], d, msb) = Jump(u, c[1], word)
    BY <1>1, Classes DEF Switch, Stores, Transfers, IncDecs, Branches
  <1>4. ret = U16(u.pc + 1)
    <2>1. w.pc = U16(u.pc + 2)
      BY <1>2 DEF Alike, SameRegs, Skip, GFields
    <2>2. U16(U16(u.pc + 2) - 1) = U16(u.pc + 1)
      BY <1>2 DEF Word, U16
    <2> QED
      BY <2>1, <2>2
  <1>5. Jump(u, c[1], word) = f2
    BY <1>1, <1>4 DEF Jump, Jsr
  <1>6. Other(w, c[2], d, msb) = x
    BY DEF Other
  <1>7. hi \in Byte /\ lo \in Byte
    <2>1. ret \in 0 .. 2^16 - 1
      BY <1>2, <1>4 DEF U16, Word
    <2> HIDE DEF ret
    <2>2. hi \in Byte
      BY <2>1 DEF Byte
    <2>3. lo \in Byte
      BY <2>1 DEF Byte, U8
    <2> QED
      BY <2>2, <2>3
  <1>8. word \in Word
    BY WordOf
  <1> HIDE DEF word, hi, lo
  <1>9. Timely(f2, f)
    BY <1>2 DEF Timely, GFields, Skip, Push
  <1> HIDE DEF h
  <1>10. Alike(Push(Push(h, hi), lo), Push8(Push8(w, hi), lo))
    BY <1>2, <1>7, PushSame
  <1>11. Alike(f, x)
    BY <1>8, <1>10, PcSame
  <1>12. Counted(x, x)
    BY <1>11 DEF Alike, Counted
  <1> HIDE DEF f, f2, x
  <1>13. Alike(f2, x)
    BY <1>9, <1>11, <1>12, TimelyAlike
  <1> QED
    BY <1>3, <1>5, <1>6, <1>13

\* RTS and RTI keep the cores alike.
LEMMA ReturnStep ==
    ASSUME NEW u, NEW v, Alike(u, v), NEW c \in Cases, c[2] \in {"RTS", "RTI"},
           NEW d \in Byte, NEW msb \in Byte, NEW w, Passed(w, v, Bytes(c[3]))
    PROVE  Alike(Switch(u, c[1], d, msb), Other(w, c[2], d, msb))
  <1> DEFINE word == d + 256 * msb
  <1>1. c[3] \in {"none", "acc"} /\ c[3] # "acc"
    BY JumpRows
  <1>2. Alike(u, w)
    BY <1>1, ByteOnly
  <1>3. Switch(u, c[1], d, msb) = Jump(u, c[1], word)
    BY <1>1, Classes DEF Switch, Stores, Transfers, IncDecs, Branches
  <1>4. \A i \in 1 .. 3 : Top(u, i) = Pulled(w, i) /\ Pulled(w, i) \in Byte
    BY <1>2, TopSame
  <1>5. /\ Top(u, 1) = Pulled(w, 1) /\ Pulled(w, 1) \in Byte
        /\ Top(u, 2) = Pulled(w, 2) /\ Pulled(w, 2) \in Byte
        /\ Top(u, 3) = Pulled(w, 3) /\ Pulled(w, 3) \in Byte
    BY <1>4
  <1>6. CASE c[2] = "RTS"
    <2> DEFINE to == U16(1 + Top(u, 1) + 256 * Top(u, 2))
               h == Drop(u, 2)
               x == Pull(w, 2)
    <2>1. Jump(u, c[1], word) = [h EXCEPT !.pc = to]
      BY <1>6, JumpRows DEF Jump, Rts
    <2>2. Other(w, c[2], d, msb) = [x EXCEPT !.pc = U16(Pulled(w, 1) + 256 * Pulled(w, 2) + 1)]
      BY <1>6 DEF Other
    <2>3. to = U16(Pulled(w, 1) + 256 * Pulled(w, 2) + 1) /\ to \in Word
      BY <1>5, WordOf
    <2>4. Alike(h, x)
      BY <1>2, PullSame
    <2> HIDE DEF to, h, x
    <2>5. Alike([h EXCEPT !.pc = to], [x EXCEPT !.pc = to])
      BY <2>3, <2>4, PcSame
    <2> QED
      BY <1>3, <2>1, <2>2, <2>3, <2>5
  <1>7. CASE c[2] = "RTI"
    <2> DEFINE to == Top(u, 2) + 256 * Top(u, 3)
               h == SetStatus(Drop(u, 3), Top(u, 1))
               x == SetP(Pull(w, 3), Pulled(w, 1))
    <2>1. Jump(u, c[1], word) = [h EXCEPT !.pc = to]
      BY <1>7, JumpRows DEF Jump, Rti
    <2>2. Other(w, c[2], d, msb) = [x EXCEPT !.pc = Pulled(w, 2) + 256 * Pulled(w, 3)]
      BY <1>7 DEF Other
    <2>3. to = Pulled(w, 2) + 256 * Pulled(w, 3) /\ to \in Word
      BY <1>5, WordOf
    <2>4. Alike(h, x)
      BY <1>2, PullStatus
    <2> HIDE DEF to, h, x
    <2>5. Alike([h EXCEPT !.pc = to], [x EXCEPT !.pc = to])
      BY <2>3, <2>4, PcSame
    <2> QED
      BY <1>3, <2>1, <2>2, <2>3, <2>5
  <1> QED
    BY <1>6, <1>7

-----------------------------------------------------------------------------
(* What an instruction does to the other core *)

\* What an instruction reads and writes, by its class.
LEMMA HistoryOf ==
    ASSUME NEW w, DOMAIN w = NFields, NEW ins, NEW a, NEW k
    PROVE  /\ ins \in Loads => WithOperand(w, ins, k).reads = w.reads
           /\ ins \in Stores => a \in StoreReg(w, ins, a).writes
           /\ ins \in Modifies => /\ Modify(w, ins, a).reads = w.reads
                                  /\ a \in Modify(w, ins, a).writes
  <1>1. ASSUME NEW f, DOMAIN f = NFields, NEW z
        PROVE  /\ UpdateNz(f, z).reads = f.reads /\ UpdateNz(f, z).writes = f.writes
               /\ DOMAIN UpdateNz(f, z) = NFields
    BY <1>1 DEF UpdateNz, NFields
  <1>2. ASSUME NEW f, DOMAIN f = NFields, NEW z, NEW on
        PROVE  /\ SetFlag(f, z, on).reads = f.reads /\ SetFlag(f, z, on).writes = f.writes
               /\ DOMAIN SetFlag(f, z, on) = NFields
    BY <1>2 DEF SetFlag, NFields
  <1>3. ASSUME NEW f, DOMAIN f = NFields, NEW z
        PROVE  /\ MemWrite(f, a, z).reads = f.reads /\ a \in MemWrite(f, a, z).writes
               /\ DOMAIN MemWrite(f, a, z) = NFields
    BY <1>3 DEF MemWrite, NFields
  <1>4. ASSUME NEW z
        PROVE  /\ OpAdc(w, z).reads = w.reads
               /\ \A reg : OpCmp(w, reg, z).reads = w.reads
    <2>1. \A e : DOMAIN [w EXCEPT !.a = e] = NFields /\ [w EXCEPT !.a = e].reads = w.reads
      BY DEF NFields
    <2>2. OpAdc(w, z).reads = w.reads
      <3> DEFINE sum == w.a + z + (IF "C" \in w.p THEN 1 ELSE 0)
                 e == U8(sum)
                 q == sum > 255
                 p == BitOf(w.a, 7) = BitOf(z, 7) /\ BitOf(w.a, 7) # BitOf(sum, 7)
                 f == [w EXCEPT !.a = e]
      <3>1. OpAdc(w, z) = UpdateNz(SetFlag(SetFlag(f, "C", q), "V", p), e)
        BY DEF OpAdc
      <3> HIDE DEF e, q, p
      <3>2. DOMAIN f = NFields /\ f.reads = w.reads
        BY <2>1
      <3> HIDE DEF f
      <3>3. /\ DOMAIN SetFlag(f, "C", q) = NFields
            /\ SetFlag(f, "C", q).reads = w.reads
        BY <1>2, <3>2
      <3> DEFINE h == SetFlag(f, "C", q)
      <3> HIDE DEF h
      <3>4. DOMAIN SetFlag(h, "V", p) = NFields /\ SetFlag(h, "V", p).reads = w.reads
        BY <1>2, <3>3 DEF h
      <3> QED
        BY <1>1, <3>1, <3>4 DEF h
    <2>3. ASSUME NEW reg PROVE OpCmp(w, reg, z).reads = w.reads
      BY <1>1, <1>2 DEF OpCmp
    <2> QED
      BY <2>2, <2>3
  <1>5. ASSUME ins \in Loads PROVE WithOperand(w, ins, k).reads = w.reads
    <2>1. \A e : /\ DOMAIN [w EXCEPT !.a = e] = NFields /\ [w EXCEPT !.a = e].reads = w.reads
                 /\ DOMAIN [w EXCEPT !.x = e] = NFields /\ [w EXCEPT !.x = e].reads = w.reads
                 /\ DOMAIN [w EXCEPT !.y = e] = NFields /\ [w EXCEPT !.y = e].reads = w.reads
      BY DEF NFields
    <2>2. CASE ins \in {"ADC", "SBC", "CMP", "CPX", "CPY"}
      BY <1>4, <2>2 DEF WithOperand
    <2>3. CASE ins \in {"LDA", "LDX", "LDY", "AND", "ORA", "EOR"}
      <3>1. \A e : /\ UpdateNz([w EXCEPT !.a = e], e).reads = w.reads
                   /\ UpdateNz([w EXCEPT !.x = e], e).reads = w.reads
                   /\ UpdateNz([w EXCEPT !.y = e], e).reads = w.reads
        <4>1. ASSUME NEW e
              PROVE  /\ UpdateNz([w EXCEPT !.a = e], e).reads = w.reads
                     /\ UpdateNz([w EXCEPT !.x = e], e).reads = w.reads
                     /\ UpdateNz([w EXCEPT !.y = e], e).reads = w.reads
          <5> DEFINE f == [w EXCEPT !.a = e]
                     h == [w EXCEPT !.x = e]
                     i == [w EXCEPT !.y = e]
          <5>1. /\ DOMAIN f = NFields /\ f.reads = w.reads
                /\ DOMAIN h = NFields /\ h.reads = w.reads
                /\ DOMAIN i = NFields /\ i.reads = w.reads
            BY <2>1
          <5> HIDE DEF f, h, i
          <5>2. /\ UpdateNz(f, e).reads = w.reads /\ UpdateNz(h, e).reads = w.reads
                /\ UpdateNz(i, e).reads = w.reads
            BY <1>1, <5>1
          <5> QED
            BY <5>2 DEF f, h, i
        <4> QED
          BY <4>1
      <3>2. CASE ins = "LDA"
        BY <3>1, <3>2 DEF WithOperand
      <3>3. CASE ins = "LDX"
        BY <3>1, <3>3 DEF WithOperand
      <3>4. CASE ins = "LDY"
        BY <3>1, <3>4 DEF WithOperand
      <3>5. CASE ins \in {"AND", "ORA", "EOR"}
        <4> DEFINE e == IF ins = "AND" THEN AndB(w.a, k) ELSE IF ins = "ORA" THEN OrB(w.a, k)
                        ELSE XorB(w.a, k)
        <4>1. WithOperand(w, ins, k) = UpdateNz([w EXCEPT !.a = e], e)
          BY <3>5 DEF WithOperand
        <4> HIDE DEF e
        <4> QED
          BY <3>1, <4>1
      <3> QED
        BY <2>3, <3>2, <3>3, <3>4, <3>5
    <2>4. CASE ins = "BIT"
      <3> DEFINE z == AndB(w.a, k) = 0
                 q == BitOf(k, 6) = 1
                 p == BitOf(k, 7) = 1
                 f == SetFlag(w, "Z", z)
                 h == SetFlag(f, "V", q)
      <3>1. WithOperand(w, ins, k) = SetFlag(h, "N", p)
        BY <2>4 DEF WithOperand
      <3> HIDE DEF z, q, p
      <3>2. DOMAIN f = NFields /\ f.reads = w.reads
        BY <1>2
      <3> HIDE DEF f
      <3>3. DOMAIN h = NFields /\ h.reads = w.reads
        BY <1>2, <3>2
      <3> HIDE DEF h
      <3> QED
        BY <1>2, <3>1, <3>3
    <2> QED
      BY <1>5, <2>2, <2>3, <2>4 DEF Loads
  <1>6. a \in StoreReg(w, ins, a).writes
    BY <1>3 DEF StoreReg
  <1>7. /\ Modify(w, ins, a).reads = w.reads
        /\ a \in Modify(w, ins, a).writes
    <2>1. \E z, f : /\ Modify(w, ins, a) = UpdateNz(MemWrite(f, a, z), z)
                    /\ f = w \/ \E on : f = SetFlag(w, "C", on)
      BY DEF Modify
    <2>2. PICK z, f : /\ Modify(w, ins, a) = UpdateNz(MemWrite(f, a, z), z)
                      /\ f = w \/ \E on : f = SetFlag(w, "C", on)
      BY <2>1
    <2>3. DOMAIN f = NFields /\ f.reads = w.reads
      BY <1>2, <2>2
    <2> QED
      BY <1>1, <1>3, <2>2, <2>3
  <1> QED
    BY <1>5, <1>6, <1>7

\* A byte that is modified is read and written at one address.
LEMMA ModifyHistory ==
    ASSUME NEW w, DOMAIN w = NFields, NEW ins \in Modifies, NEW a
    PROVE  Modify(w, ins, a).reads = w.reads /\ a \in Modify(w, ins, a).writes
  <1>1. \A k : ins \in Modifies => /\ Modify(w, ins, a).reads = w.reads
                                   /\ a \in Modify(w, ins, a).writes
    BY HistoryOf
  <1> QED
    BY <1>1

\* After the opcode.
Fetched(v0, c) == [v0 EXCEPT !.pc = U16(@ + 1), !.cycles = @ + c[4], !.reads = {}, !.writes = {}]
\* After the operand bytes; and when the operand is read.
Decoded(v, c) == [v EXCEPT !.pc = U16(@ + Bytes(c[3]))]
Reading(v, c, d, msb) ==
    [Decoded(v, c) EXCEPT !.reads = IF c[3] = "imm" THEN {} ELSE {Addr(v, c[3], d, msb)}]

\* The bytes of the instruction are passed; the address of the operand is noted.
LEMMA DecodedPassed ==
    ASSUME NEW v, DOMAIN v = NFields, NEW c, NEW d, NEW msb
    PROVE  /\ Passed(Decoded(v, c), v, Bytes(c[3]))
           /\ Passed(Reading(v, c, d, msb), v, Bytes(c[3]))
           /\ Reading(v, c, d, msb).reads = IF c[3] = "imm" THEN {} ELSE {Addr(v, c[3], d, msb)}
           /\ DOMAIN Decoded(v, c) = NFields /\ DOMAIN Reading(v, c, d, msb) = NFields
           /\ Decoded(v, c).mem = v.mem
  <1> DEFINE pc == U16(v.pc + Bytes(c[3]))
             s == IF c[3] = "imm" THEN {} ELSE {Addr(v, c[3], d, msb)}
  <1>1. Decoded(v, c) = [v EXCEPT !.pc = pc]
    BY DEF Decoded
  <1>2. Reading(v, c, d, msb) = [Decoded(v, c) EXCEPT !.reads = s]
    BY DEF Reading
  <1>3. DOMAIN v = NFields
    OBVIOUS
  <1> HIDE DEF pc, s
  <1>4. /\ DOMAIN Decoded(v, c) = NFields /\ Decoded(v, c).pc = pc
        /\ \A e \in NFields \ {"pc"} : Decoded(v, c)[e] = v[e]
    BY <1>1, <1>3 DEF NFields
  <1>5. /\ DOMAIN Reading(v, c, d, msb) = NFields /\ Reading(v, c, d, msb).reads = s
        /\ \A e \in NFields \ {"reads"} : Reading(v, c, d, msb)[e] = Decoded(v, c)[e]
    BY <1>2, <1>4 DEF NFields
  <1> QED
    BY <1>4, <1>5 DEF Passed, NFields, pc, s

\* nes_cpu_step, once the instruction is known.
Done(v, c, d, msb, x) ==
    LET ins == c[2]
        mode == c[3]
        a == Addr(v, mode, d, msb)
        w == Decoded(v, c)
        r0 == Reading(v, c, d, msb)
    IN  /\ ins \in Loads => x = WithOperand(r0, ins, Value(v, mode, d, msb))
        /\ ins \in Stores => x = StoreReg(w, ins, a)
        /\ ins \in Modifies /\ mode # "acc" => x = Modify(r0, ins, a)
        /\ ins \in Modifies /\ mode = "acc" => x = ShiftAcc(w, ins)
        /\ ins \in Transfers => x = Transfer(w, ins)
        /\ ins \in IncDecs => x = IncDec(w, ins)
        /\ ins \in Branches =>
              x = IF BranchTaken(w, ins) THEN [w EXCEPT !.pc = U16(@ + S8(d))] ELSE w
        /\ ins = "JMP" /\ mode = "ind" =>
              x = Jumped(w, d, msb)
        /\ ins \in {"PHA", "PLA", "PHP", "PLP", "JSR", "RTS", "RTI", "NOP",
                    "SEC", "CLC", "CLV", "CLD", "SED", "CLI", "SEI"} => x = Other(w, ins, d, msb)
        /\ ins = "JMP" /\ mode = "abs" => x = Other(w, ins, d, msb)

\* The official instructions, by class.
LEMMA ModeRows ==
    ASSUME NEW c \in Cases
    PROVE  /\ c[2] \in Stores \cup Modifies \cup Branches \cup {"JMP"} => c[3] # "imm"
           /\ c[2] \in Loads \cup Stores \cup Modifies \cup Transfers \cup IncDecs \cup Branches
                \cup {"PHA", "PLA", "PHP", "PLP", "JSR", "JMP", "RTS", "RTI", "NOP", "BRK",
                      "SEC", "CLC", "CLV", "CLD", "SED", "CLI", "SEI"}
           /\ c[2] \in Loads => c[2] \in DOMAIN AluBase \cup {"LDX", "LDY", "CPX", "CPY", "BIT"}
  BY DEF Cases, Stores, Modifies, Branches, Loads, Transfers, IncDecs, AluBase

\* nes_cpu_step of an official opcode does what its class does.
LEMMA StepIs ==
    ASSUME NEW v0, DOMAIN v0 = NFields, NEW c \in Cases, NEW d, NEW msb
    PROVE  Done(Fetched(v0, c), c, d, msb, NesCpuStep(v0, c[1], d, msb))
  <1> DEFINE x == NesCpuStep(v0, c[1], d, msb)
             v == Fetched(v0, c)
             a == IF c[3] = "imm" THEN v.pc ELSE Addr(v, c[3], d, msb)
             w == Decoded(v, c)
             r0 == [w EXCEPT !.reads = IF c[3] = "imm" THEN {} ELSE {a}]
             word == d + 256 * msb
  <1>1. CaseOf[c[1]] = c
    BY CaseIs
  <1>2. x = CASE c[2] \in Loads -> WithOperand(r0, c[2], IF c[3] = "imm" THEN d ELSE At(w.mem, a))
              [] c[2] \in Stores -> StoreReg(w, c[2], a)
              [] c[2] \in Modifies /\ c[3] # "acc" -> Modify(r0, c[2], a)
              [] c[2] \in Modifies /\ c[3] = "acc" -> ShiftAcc(w, c[2])
              [] c[2] \in Transfers -> Transfer(w, c[2])
              [] c[2] \in IncDecs -> IncDec(w, c[2])
              [] c[2] \in Branches ->
                    IF BranchTaken(w, c[2]) THEN [w EXCEPT !.pc = U16(@ + S8(d))] ELSE w
              [] c[2] = "JMP" /\ c[3] = "ind" ->
                    [w EXCEPT !.pc = At(w.mem, word)
                                     + 256 * At(w.mem, (word \div 256) * 256 + U8(word + 1)),
                              !.reads = {word, (word \div 256) * 256 + U8(word + 1)}]
              [] OTHER -> Other(w, c[2], d, msb)
    BY <1>1 DEF NesCpuStep, Fetched, Decoded
  <1>3. r0 = Reading(v, c, d, msb)
    BY DEF Reading
  <1>4. w.mem = v.mem
    BY DEF Decoded, Fetched, NFields
  <1>5. c[3] # "imm" => a = Addr(v, c[3], d, msb)
    OBVIOUS
  <1>6. (IF c[3] = "imm" THEN d ELSE At(w.mem, a)) = Value(v, c[3], d, msb)
    BY <1>4 DEF Value
  <1> HIDE DEF x, v, w, r0, a
  <1> USE DEF Loads, Stores, Modifies, Transfers, IncDecs, Branches
  <1>7. c[2] \in Loads => x = WithOperand(r0, c[2], IF c[3] = "imm" THEN d ELSE At(w.mem, a))
    BY <1>2
  <1>8. c[2] \in Stores => x = StoreReg(w, c[2], a)
    BY <1>2
  <1>9. c[2] \in Modifies => x = IF c[3] # "acc" THEN Modify(r0, c[2], a) ELSE ShiftAcc(w, c[2])
    BY <1>2
  <1>10. /\ c[2] \in Transfers => x = Transfer(w, c[2])
         /\ c[2] \in IncDecs => x = IncDec(w, c[2])
    BY <1>2
  <1>11. c[2] \in Branches => x = IF BranchTaken(w, c[2]) THEN [w EXCEPT !.pc = U16(@ + S8(d))] ELSE w
    BY <1>2
  <1>12. c[2] = "JMP" /\ c[3] = "ind" =>
            x = Jumped(w, d, msb)
    BY <1>2 DEF NextByte, Jumped
  <1>13. c[2] \in {"PHA", "PLA", "PHP", "PLP", "JSR", "RTS", "RTI", "NOP",
                   "SEC", "CLC", "CLV", "CLD", "SED", "CLI", "SEI"} => x = Other(w, c[2], d, msb)
    BY <1>2
  <1>14. c[2] = "JMP" /\ c[3] = "abs" => x = Other(w, c[2], d, msb)
    BY <1>2
  <1>15. c[2] \in Stores \cup Modifies => c[3] # "imm"
    BY ModeRows
  <1> USE DEF v, w
  <1> QED
    BY <1>3, <1>5, <1>6, <1>7, <1>8, <1>9, <1>10, <1>11, <1>12, <1>13, <1>14, <1>15 DEF Done, x

-----------------------------------------------------------------------------
(* One instruction *)

\* After the opcode and its clocks.
Begun(u, t) == [u EXCEPT !.pc = U16(@ + 1), !.s_time = @ + t]

\* The opcode and its clocks keep the cores alike.
LEMMA FetchSame ==
    ASSUME NEW u, NEW v, Alike(u, v), NEW c, NEW t
    PROVE  /\ Alike(Begun(u, t), Fetched(v, c))
           /\ Fetched(v, c).x = v.x /\ Fetched(v, c).y = v.y
  <1> DEFINE h == Begun(u, t)
             w == Fetched(v, c)
  <1>1. Moved(h, u, 1)
    BY DEF Alike, Moved, Begun, GFields
  <1>2. Passed(w, v, 1)
    BY DEF Alike, Passed, Fetched, NFields
  <1> HIDE DEF h, w
  <1>3. Alike(h, w)
    BY <1>1, <1>2, MovedAlike
  <1>4. w.x = v.x /\ w.y = v.y
    BY <1>2 DEF Passed, NFields
  <1> QED
    BY <1>3, <1>4 DEF h, w

\* One official instruction, on bytes that both cores define, keeps the cores alike.
LEMMA StepAlike ==
    ASSUME NEW u0, NEW v0, Alike(u0, v0), NEW c \in Cases, c[1] # 0,
           NEW d \in Byte, NEW msb \in Byte, NEW x, x = NesCpuStep(v0, c[1], d, msb),
           x.reads \subseteq Readable, x.writes \subseteq Writable,
           c[1] \in {190, 188} => d + 256 * msb + (IF c[1] = 190 THEN v0.y ELSE v0.x) <= 65535
    PROVE  Alike(GmeStep(u0, c[1], d, msb), x)
  <1> DEFINE u == Begun(u0, Clocks(c[1]))
             v == Fetched(v0, c)
             w == Decoded(v, c)
             r0 == Reading(v, c, d, msb)
             ins == c[2]
             mode == c[3]
             a == Addr(v, mode, d, msb)
             k == Value(v, mode, d, msb)
             y == Switch(u, c[1], d, msb)
  <1>1. GmeStep(u0, c[1], d, msb) = y
    BY DEF GmeStep, Begun
  <1>2. Alike(u, v) /\ v.x = v0.x /\ v.y = v0.y
    BY FetchSame
  <1>3. c[1] \in {190, 188} => d + 256 * msb + (IF c[1] = 190 THEN v.y ELSE v.x) <= 65535
    BY <1>2
  <1>4. Done(v, c, d, msb, x)
    BY StepIs DEF Alike
  <1> HIDE DEF u, v
  <1>5. /\ Passed(w, v, Bytes(mode)) /\ Passed(r0, v, Bytes(mode))
        /\ r0.reads = IF mode = "imm" THEN {} ELSE {a}
        /\ DOMAIN w = NFields /\ DOMAIN r0 = NFields /\ w.mem = v.mem
    <2>1. DOMAIN v = NFields
      BY <1>2 DEF Alike
    <2> QED
      BY <2>1, DecodedPassed
  <1> HIDE DEF w, r0
  <1>6. /\ ins \in Loads => x = WithOperand(r0, ins, k)
        /\ ins \in Stores => x = StoreReg(w, ins, a)
        /\ ins \in Modifies /\ mode # "acc" => x = Modify(r0, ins, a)
        /\ ins \in Modifies /\ mode = "acc" => x = ShiftAcc(w, ins)
        /\ ins \in Transfers => x = Transfer(w, ins)
        /\ ins \in IncDecs => x = IncDec(w, ins)
        /\ ins \in Branches =>
              x = IF BranchTaken(w, ins) THEN [w EXCEPT !.pc = U16(@ + S8(d))] ELSE w
        /\ ins = "JMP" /\ mode = "ind" =>
              x = Jumped(w, d, msb)
        /\ ins \in {"PHA", "PLA", "PHP", "PLP", "JSR", "RTS", "RTI", "NOP",
                    "SEC", "CLC", "CLV", "CLD", "SED", "CLI", "SEI"} => x = Other(w, ins, d, msb)
        /\ ins = "JMP" /\ mode = "abs" => x = Other(w, ins, d, msb)
    BY <1>4 DEF Done, w, r0
  <1>7. CASE ins \in Loads
    <2>1. x = WithOperand(r0, ins, k) /\ x.reads = r0.reads
      BY <1>5, <1>6, <1>7, HistoryOf
    <2>2. Reachable(v, mode, d, msb)
      BY <1>5, <2>1 DEF Reachable
    <2>3. CASE ins \in DOMAIN AluBase
      BY <1>1, <1>2, <1>5, <2>1, <2>2, <2>3, AluStep
    <2>4. CASE ins \in {"LDX", "LDY"}
      <3>1. Alike(y, WithOperand(r0, ins, k))
        BY <1>2, <1>3, <1>5, <2>2, <2>4, LoadXYStep
      <3> QED
        BY <1>1, <2>1, <3>1
    <2>5. CASE ins \in {"CPX", "CPY", "BIT"}
      BY <1>1, <1>2, <1>5, <2>1, <2>2, <2>5, CompareXYStep
    <2> QED
      BY <1>7, <2>3, <2>4, <2>5, ModeRows
  <1>8. CASE ins \in Stores
    <2>1. x = StoreReg(w, ins, a) /\ a \in x.writes
      <3>1. a \in StoreReg(w, ins, a).writes
        BY <1>5, <1>8, HistoryOf
      <3> QED
        BY <1>6, <1>8, <3>1
    <2>2. a \in Writable
      BY <2>1
    <2> QED
      BY <1>1, <1>2, <1>5, <1>8, <2>1, <2>2, StoreStep
  <1>9. CASE ins \in Modifies /\ mode # "acc"
    <2>1. x = Modify(r0, ins, a) /\ x.reads = r0.reads /\ a \in x.writes
      <3>1. Modify(r0, ins, a).reads = r0.reads /\ a \in Modify(r0, ins, a).writes
        <4>1. DOMAIN r0 = NFields
          BY <1>5
        <4> HIDE DEF a
        <4> QED
          BY <1>9, <4>1, ModifyHistory
      <3> QED
        BY <1>6, <1>9, <3>1
    <2>2. mode # "imm"
      BY <1>9, ModeRows
    <2>3. a \in Readable \cap Writable
      BY <1>5, <2>1, <2>2
    <2> QED
      BY <1>1, <1>2, <1>5, <1>9, <2>1, <2>3, ModifyStep
  <1>10. CASE ins \in Modifies /\ mode = "acc"
    BY <1>1, <1>2, <1>5, <1>6, <1>10, ShiftAStep
  <1>11. CASE ins \in Transfers \cup IncDecs
    <2>1. x = IF ins \in Transfers THEN Transfer(w, ins) ELSE IncDec(w, ins)
      BY <1>6, <1>11 DEF Transfers, IncDecs
    <2> QED
      BY <1>1, <1>2, <1>5, <1>11, <2>1, RegisterStep
  <1>12. CASE ins \in Branches
    BY <1>1, <1>2, <1>5, <1>6, <1>12, BranchStep
  <1>13. CASE ins = "JMP"
    <2>1. CASE mode = "abs"
      BY <1>1, <1>2, <1>5, <1>6, <1>13, <2>1, JmpStep
    <2>2. CASE mode = "ind"
      <3>1. x = Jumped(w, d, msb)
        BY <1>6, <1>13, <2>2
      <3>2. Jumped(w, d, msb).reads = {d + 256 * msb, NextByte(d, msb)}
        BY <1>5 DEF Jumped, NFields
      <3>3. {d + 256 * msb, NextByte(d, msb)} \subseteq Readable
        BY <3>1, <3>2
      <3>4. Alike(Switch(u, c[1], d, msb), Jumped(w, d, msb))
        BY <1>2, <1>5, <1>13, <2>2, <3>3, JmpIndStep
      <3> QED
        BY <1>1, <3>1, <3>4
    <2> QED
      BY <1>13, <2>1, <2>2, JumpRows
  <1>14. CASE ins \in {"PHA", "PLA", "PHP", "PLP"}
    BY <1>1, <1>2, <1>5, <1>6, <1>14, StackStep
  <1>15. CASE ins \in {"SEC", "CLC", "CLV", "CLD", "SED", "CLI", "SEI"}
    BY <1>1, <1>2, <1>5, <1>6, <1>15, FlagStep
  <1>16. CASE ins = "JSR"
    BY <1>1, <1>2, <1>5, <1>6, <1>16, JsrStep
  <1>17. CASE ins \in {"RTS", "RTI"}
    BY <1>1, <1>2, <1>5, <1>6, <1>17, ReturnStep
  <1>18. CASE ins = "NOP"
    BY <1>1, <1>2, <1>5, <1>6, <1>18, NopStep
  <1>19. ins # "BRK"
    BY Classes
  <1> QED
    BY <1>7, <1>8, <1>9, <1>10, <1>11, <1>12, <1>13, <1>14, <1>15, <1>16, <1>17, <1>18, <1>19,
       ModeRows

-----------------------------------------------------------------------------
(* The tune and the runs *)

\* An instruction has one to three bytes.
LEMMA CodeIs ==
    ASSUME NEW c \in Cases, NEW d \in Byte, NEW msb \in Byte
    PROVE  /\ DOMAIN Code(c[1], d, msb) \subseteq 1 .. 3
           /\ \A i \in DOMAIN Code(c[1], d, msb) : Code(c[1], d, msb)[i] \in Byte
  <1> DEFINE all == <<c[1], d, msb>>
             k == 1 + Bytes(c[3])
  <1>1. c[1] \in Byte /\ CaseOf[c[1]] = c
    BY CaseIs
  <1>2. all \in Seq(Byte) /\ Len(all) = 3
    BY <1>1
  <1>3. k \in 1 .. 3
    BY DEF Bytes
  <1>4. Code(c[1], d, msb) = SubSeq(all, 1, k)
    BY <1>1 DEF Code
  <1> HIDE DEF all, k
  <1>5. \A i \in 1 .. k : all[i] \in Byte
    BY <1>2, <1>3
  <1>6. SubSeq(all, 1, k) \in Seq(Byte)
    BY <1>3, <1>5, SubSeqProperties
  <1>7. Len(SubSeq(all, 1, k)) = k
    <2>1. Len(SubSeq(all, 1, k)) = IF 1 <= k THEN k - 1 + 1 ELSE 0
      BY <1>3, <1>5, SubSeqProperties
    <2> QED
      BY <1>3, <2>1
  <1> QED
    BY <1>3, <1>4, <1>6, <1>7

\* The bytes found at pc are the same in both memories.
LEMMA WithCodeSame ==
    ASSUME NEW m, NEW k, SameMemory(m, k), NEW pc \in Word, NEW code,
           DOMAIN code \subseteq 1 .. 3, \A i \in DOMAIN code : code[i] \in Byte
    PROVE  SameMemory(WithCode(m, pc, code), WithCode(k, pc, code))
  <1> DEFINE span == {U16(pc + i - 1) : i \in DOMAIN code}
             place(a) == U16(a - pc) + 1
  <1>1. pc \in Int /\ DOMAIN code \subseteq Int
    BY DEF Word
  <1>2. \A a \in span : a \in Word /\ code[place(a)] \in Byte
    <2> TAKE a \in span
    <2>1. PICK i \in DOMAIN code : a = U16(pc + i - 1)
      OBVIOUS
    <2>2. i \in 1 .. 3 /\ code[i] \in Byte
      OBVIOUS
    <2>3. pc + i - 1 \in Int
      BY <1>1, <2>2
    <2>4. a \in Word
      BY <2>1, <2>3, U16Word
    <2>5. place(a) = i
      BY <2>1, <2>2 DEF Word, U16
    <2> HIDE DEF place
    <2>6. code[place(a)] \in Byte
      BY <2>2, <2>5
    <2> QED
      BY <2>4, <2>6
  <1>3. ASSUME NEW q, IsMemory(q)
        PROVE  /\ IsMemory(WithCode(q, pc, code))
               /\ \A a \in Word : At(WithCode(q, pc, code), a) =
                                    IF a \in span THEN code[place(a)] ELSE At(q, a)
    <2>1. DOMAIN WithCode(q, pc, code) = DOMAIN q \cup span
      BY DEF WithCode
    <2>2. \A a \in Word : a \in Int
      BY DEF Word
    <2>3. \A a \in Word : At(WithCode(q, pc, code), a) =
                            IF a \in span THEN code[place(a)] ELSE At(q, a)
      BY DEF WithCode, At
    <2> HIDE DEF span, place
    <2>4. \A a \in Word : At(WithCode(q, pc, code), a) \in Byte
      BY <1>2, <1>3, <2>3 DEF IsMemory
    <2> QED
      BY <1>2, <1>3, <2>1, <2>3, <2>4 DEF IsMemory
  <1> HIDE DEF span, place
  <1>4. IsMemory(m) /\ IsMemory(k) /\ \A a \in Word \ ApuRegs : At(m, a) = At(k, a)
    BY DEF SameMemory
  <1>5. \A a \in Word \ ApuRegs : At(WithCode(m, pc, code), a) = At(WithCode(k, pc, code), a)
    <2> TAKE a \in Word \ ApuRegs
    <2>1. /\ At(WithCode(m, pc, code), a) = IF a \in span THEN code[place(a)] ELSE At(m, a)
          /\ At(WithCode(k, pc, code), a) = IF a \in span THEN code[place(a)] ELSE At(k, a)
      BY <1>3, <1>4
    <2>2. At(m, a) = At(k, a)
      BY <1>4
    <2> QED
      BY <2>1, <2>2
  <1> QED
    BY <1>3, <1>4, <1>5 DEF SameMemory

\* The registers k, kept between two runs, are those of the other core.
Kept(k, v) ==
    /\ v.pc \in Word /\ v.a \in Byte /\ v.x \in Byte /\ v.y \in Byte /\ v.sp \in Byte
    /\ k.pc = v.pc /\ k.a = v.a /\ k.x = v.x /\ k.y = v.y /\ k.sp = v.sp
    /\ k.status \in Byte /\ v.p \subseteq FlagNames /\ FlagsOf(k.status) = v.p \ {"U", "B"}
\* Outside of a run the rest is still there.
Rests(u, v) ==
    /\ DOMAIN u = GFields /\ DOMAIN v = NFields
    /\ SameMemory(u.mem, v.mem) /\ u.apu = v.apu

TakenOver(u, k, t) ==
    SetStatus([SetEndTime(u, t) EXCEPT !.pc = k.pc, !.a = k.a, !.x = k.x, !.y = k.y,
                                       !.sp = SetSp(k.sp)], k.status)

\* The registers that run() takes over make the cores alike.
LEMMA StartAlike ==
    ASSUME NEW u, NEW v, Rests(u, v), NEW k, Kept(k, v), NEW t
    PROVE  Alike(TakenOver(u, k, t), v)
  <1> DEFINE f == SetEndTime(u, t)
             h == [f EXCEPT !.pc = k.pc, !.a = k.a, !.x = k.x, !.y = k.y, !.sp = SetSp(k.sp)]
             s == FlagsOf(k.status) \cap {"V", "D", "I"}
             c == k.status * 256
             nz == k.status * 256 + (IF "Z" \in FlagsOf(k.status) THEN 0 ELSE 2)
             y == [h EXCEPT !.status = s, !.c = c, !.nz = nz]
  <1>1. TakenOver(u, k, t) = y
    BY DEF TakenOver, SetStatus
  <1>2. FlagsAre((FlagsOf(k.status) \ {"B"}) \cup {"U"}, s, nz, c)
    BY StatusFlags DEF Kept
  <1>3. \A e \in FlagNames \ {"U", "B"} : e \in (FlagsOf(k.status) \ {"B"}) \cup {"U"} <=> e \in v.p
    BY DEF Kept
  <1>4. v.p \subseteq FlagNames
    BY DEF Kept
  <1> HIDE DEF s, c, nz
  <1>5. FlagsAre(v.p, s, nz, c)
    BY <1>2, <1>3, <1>4 DEF FlagsAre, FlagNames
  <1>6. DOMAIN f = GFields /\ f.mem = u.mem /\ f.apu = u.apu
    BY DEF Rests, SetEndTime, GFields
  <1> HIDE DEF f
  <1>7. /\ DOMAIN h = GFields /\ h.mem = u.mem /\ h.apu = u.apu
        /\ h.pc = k.pc /\ h.a = k.a /\ h.x = k.x /\ h.y = k.y /\ h.sp = SetSp(k.sp)
    BY <1>6 DEF GFields
  <1> HIDE DEF h
  <1>8. /\ DOMAIN y = GFields /\ y.status = s /\ y.nz = nz /\ y.c = c
        /\ \A e \in GFields \ {"status", "nz", "c"} : y[e] = h[e]
    BY <1>7 DEF GFields
  <1> HIDE DEF y
  <1>9. SameRegs(y, v)
    BY <1>7, <1>8 DEF Kept, SameRegs, GFields
  <1>10. y.mem = u.mem /\ y.apu = u.apu
    BY <1>7, <1>8 DEF GFields
  <1> QED
    BY <1>1, <1>5, <1>8, <1>9, <1>10 DEF Rests, Alike

Left(u) == [pc |-> u.pc, a |-> u.a, x |-> u.x, y |-> u.y, sp |-> GetSp(u),
            status |-> ByteOf(CalcStatus(u))]

\* The registers that run() leaves are those of the other core.
LEMMA LeaveKept ==
    ASSUME NEW u, NEW v, Alike(u, v)
    PROVE  Kept(Left(u), v) /\ Rests(u, v)
  <1>1. GetSp(u) = v.sp
    BY SpIs
  <1>2. CalcStatus(u) = v.p \ {"U", "B"}
    BY FlagsSame
  <1>3. v.p \subseteq FlagNames
    BY DEF Alike, FlagsAre
  <1>4. FlagsOf(ByteOf(CalcStatus(u))) = v.p \ {"U", "B"} /\ ByteOf(CalcStatus(u)) \in Byte
    <2>1. FlagsOf(ByteOf(CalcStatus(u))) = CalcStatus(u) \cap FlagNames
      BY FlagsOfByte
    <2> QED
      BY <1>2, <1>3, <2>1, ByteOfIs
  <1>5. Kept(Left(u), v)
    BY <1>1, <1>3, <1>4 DEF Left, Kept, Alike, SameRegs
  <1> QED
    BY <1>5 DEF Rests, Alike

\* Cores that are alike show the same registers and flags.
LEMMA AlikeMachine ==
    ASSUME NEW u, NEW v, Alike(u, v)
    PROVE  [pc |-> u.pc, a |-> u.a, x |-> u.x, y |-> u.y, sp |-> GetSp(u), flags |-> CalcStatus(u)]
           = [pc |-> v.pc, a |-> v.a, x |-> v.x, y |-> v.y, sp |-> v.sp, flags |-> v.p \ {"U", "B"}]
  BY SpIs, FlagsSame DEF Alike, SameRegs

\* The tune at pc, found by both, keeps the cores alike.
LEMMA TuneAlike ==
    ASSUME NEW u, NEW v, Alike(u, v), NEW code, DOMAIN code \subseteq 1 .. 3,
           \A i \in DOMAIN code : code[i] \in Byte
    PROVE  Alike([u EXCEPT !.mem = WithCode(@, u.pc, code)], [v EXCEPT !.mem = WithCode(@, v.pc, code)])
  <1> DEFINE m == WithCode(u.mem, u.pc, code)
             k == WithCode(v.mem, v.pc, code)
             h == [u EXCEPT !.mem = m]
             w == [v EXCEPT !.mem = k]
  <1>1. SameMemory(u.mem, v.mem) /\ v.pc \in Word /\ u.pc = v.pc
    BY DEF Alike, SameRegs
  <1>2. SameMemory(m, k)
    BY <1>1, WithCodeSame
  <1> HIDE DEF m, k
  <1>3. /\ DOMAIN h = GFields /\ h.mem = m /\ \A e \in GFields \ {"mem"} : h[e] = u[e]
        /\ DOMAIN w = NFields /\ w.mem = k /\ \A e \in NFields \ {"mem"} : w[e] = v[e]
    BY DEF Alike, GFields, NFields
  <1> HIDE DEF h, w
  <1>4. SameRegs(h, w)
    BY <1>3 DEF Alike, SameRegs, GFields, NFields
  <1>5. /\ h.apu = u.apu /\ w.apu = v.apu
        /\ h.status = u.status /\ h.nz = u.nz /\ h.c = u.c /\ w.p = v.p
    BY <1>3 DEF GFields, NFields
  <1>6. Alike(h, w)
    BY <1>2, <1>3, <1>4, <1>5 DEF Alike
  <1> QED
    BY <1>6 DEF h, w, m, k

-----------------------------------------------------------------------------
(* The machine *)

\* Until the tune leaves what both define.
Machine == ~apart => IF running THEN Alike(g, n) ELSE Kept(r, n) /\ Rests(g, n)

\* Before the first run the registers kept are those of the other core.
LEMMA InitMachine == Init => Machine
  <1> SUFFICES ASSUME Init PROVE Machine
    OBVIOUS
  <1>1. PICK s \in Starts :
          /\ r = [pc |-> StartPc, a |-> s[1], x |-> s[2], y |-> s[3], sp |-> s[4],
                  status |-> ByteOf(s[5])]
          /\ n = [pc |-> StartPc, a |-> s[1], x |-> s[2], y |-> s[3], sp |-> s[4],
                  p |-> s[5] \cup {"U"}, mem |-> Untouched, apu |-> <<>>, cycles |-> 0,
                  halted |-> FALSE, reads |-> {}, writes |-> {}]
    BY DEF Init
  <1>2. /\ s[1] \in Byte /\ s[2] \in Byte /\ s[3] \in Byte /\ s[4] \in Byte
        /\ s[5] \subseteq {"N", "V", "D", "I", "Z", "C"} /\ StartPc \in Word
    BY LockstepAssumption
  <1>3. FlagsOf(ByteOf(s[5])) = s[5] \cap FlagNames /\ ByteOf(s[5]) \in Byte
    BY FlagsOfByte, ByteOfIs
  <1>4. /\ s[5] \cap FlagNames = (s[5] \cup {"U"}) \ {"U", "B"}
        /\ s[5] \cup {"U"} \subseteq FlagNames
    BY <1>2 DEF FlagNames
  <1>5. Kept(r, n)
    BY <1>1, <1>2, <1>3, <1>4 DEF Kept
  <1>6. SameMemory(Untouched, Untouched)
    <2>1. \A a \in Word : At(Untouched, a) \in Byte
      BY LockstepAssumption DEF Untouched, At
    <2>2. DOMAIN Untouched \subseteq Word
      BY DEF Untouched
    <2> QED
      BY <2>1, <2>2 DEF SameMemory, IsMemory
  <1>7. Rests(g, n)
    BY <1>1, <1>6 DEF Init, Rests, GFields, NFields
  <1> QED
    BY <1>5, <1>7 DEF Init, Machine

\* An instruction that the tune holds keeps the machine the same.
LEMMA ExecuteAlike ==
    ASSUME Machine, NEW op \in Byte, NEW o \in Byte \X Byte,
           NEW q \in Behind(n.pc, Code(op, o[1], o[2]), o), Execute(op, o, q)
    PROVE  Machine'
  <1> SUFFICES ASSUME ~apart' PROVE Alike(g, n)'
    BY DEF Machine, Execute
  <1> DEFINE d == o[1]
             msb == o[2]
             code == Code(op, d, msb)
             u0 == [g EXCEPT !.mem = WithCode(@, g.pc, code)]
             v0 == [n EXCEPT !.mem = WithCode(@, n.pc, code)]
  <1>1. /\ Alike(g, n) /\ ~Parts(op, d, msb)
        /\ Straight(n.pc, code)
        /\ n' = NesCpuStep(v0, op, d, msb) /\ g' = GmeStep(u0, op, q[1], q[2])
        /\ n'.reads \subseteq Readable /\ n'.writes \subseteq Writable
    BY DEF Machine, Execute
  <1>4. d \in Byte /\ msb \in Byte /\ q[1] = d /\ q[2] = msb
    BY <1>1 DEF Behind
  <1>2. PICK c \in Cases : c[1] = op
    BY <1>1 DEF Parts, Official
  <1>3. op # 0 /\ (op \in {190, 188} => ~(d + 256 * msb + (IF op = 190 THEN n.y ELSE n.x) > 65535))
    BY <1>1 DEF Parts
  <1>5. DOMAIN code \subseteq 1 .. 3 /\ \A i \in DOMAIN code : code[i] \in Byte
    BY <1>4, <1>2, CodeIs
  <1> HIDE DEF code, d, msb
  <1>6. Alike(u0, v0)
    BY <1>1, <1>5, TuneAlike
  <1>7. v0.x = n.x /\ v0.y = n.y /\ n.x \in Byte /\ n.y \in Byte
    BY <1>1 DEF Alike, SameRegs, NFields
  <1> HIDE DEF u0, v0
  <1>8. op \in {190, 188} => d + 256 * msb + (IF op = 190 THEN v0.y ELSE v0.x) <= 65535
    BY <1>4, <1>3, <1>7 DEF Byte
  <1>9. Alike(GmeStep(u0, c[1], d, msb), n')
    BY <1>4, <1>1, <1>2, <1>3, <1>6, <1>8, StepAlike
  <1> QED
    BY <1>4, <1>1, <1>2, <1>9

\* So does every step: the start of a run, an instruction, the end of a run.
LEMMA NextMachine == Machine /\ [Next]_vars => Machine'
  <1> SUFFICES ASSUME Machine, [Next]_vars PROVE Machine'
    OBVIOUS
  <1>1. ASSUME NEW d \in Durations, StartRun(d) PROVE Machine'
    <2>1. Rests(g, n) /\ Kept(r, n) /\ g' = TakenOver(g, r, Time(g) + d) /\ n' = n /\ running'
      BY <1>1 DEF Machine, StartRun, TakenOver
    <2>2. Alike(g', n')
      BY <2>1, StartAlike
    <2> QED
      BY <2>1, <2>2 DEF Machine
  <1>2. ASSUME NEW op \in (IF steps = 0 THEN Opcodes ELSE Follow), NEW o \in Operands,
               NEW q \in Behind(n.pc, Code(op, o[1], o[2]), o), Execute(op, o, q)
        PROVE  Machine'
    <2>1. op \in Byte /\ o \in Byte \X Byte
      BY TuneAssumption
    <2> QED
      BY <1>2, <2>1, ExecuteAlike
  <1>3. CASE LeaveRun
    <2>1. /\ r' = Left(g) /\ ~running' /\ g' = g /\ n' = n /\ apart' = apart
          /\ ~apart => Alike(g, n)
      BY <1>3 DEF LeaveRun, Left, Machine
    <2>2. ~apart => Kept(r', n) /\ Rests(g, n)
      BY <2>1, LeaveKept
    <2> QED
      BY <2>1, <2>2 DEF Machine
  <1>4. CASE UNCHANGED vars
    BY <1>4 DEF vars, Machine
  <1>5. CASE Astray
    BY <1>5 DEF Astray, Machine
  <1> QED
    BY <1>1, <1>2, <1>3, <1>4, <1>5 DEF Next

\* Machine is stronger than what TLC checks.
LEMMA MachineSame == Machine => SameMachine
  <1> SUFFICES ASSUME Machine, ~apart PROVE SameMachine
    BY DEF SameMachine
  <1>1. SameMemory(g.mem, n.mem) /\ g.apu = n.apu
    BY DEF Machine, Alike, Rests
  <1>2. Gme = [pc |-> n.pc, a |-> n.a, x |-> n.x, y |-> n.y, sp |-> n.sp, flags |-> n.p \ {"U", "B"}]
    <2>1. CASE running
      BY <2>1, AlikeMachine DEF Machine, Gme
    <2>2. CASE ~running
      BY <2>2 DEF Machine, Kept, Gme
    <2> QED
      BY <2>1, <2>2
  <1>3. \A a \in (DOMAIN g.mem \cup DOMAIN n.mem) \ ApuRegs : At(g.mem, a) = At(n.mem, a)
    BY <1>1 DEF SameMemory, IsMemory
  <1> QED
    BY <1>1, <1>2, <1>3 DEF SameMachine

\* For every tune and every file, on any start, with any operands and runs of any length: the same
\* registers, flags and RAM, and the same writes to the sound chip in the same order
\* (Nes_Cpu::run, nes_cpu_step), until the tune runs BRK or an opcode that is not official, runs or
\* reads from elsewhere than the RAM and the file, writes elsewhere than to the RAM and the sound
\* chip, or has an instruction whose operands lie beyond the piece of memory its opcode is in.
THEOREM MachineAlways == Spec => []SameMachine
  BY InitMachine, NextMachine, MachineSame, PTL DEF Spec

-----------------------------------------------------------------------------
(* Time *)

\* The clocks of clock_table are the cycles of the other core's switch, and one more for a branch.
LEMMA ClockRows ==
    ASSUME NEW c \in Cases, c[1] # 0
    PROVE  Clocks(c[1]) = c[4] + (IF c[3] = "rel" THEN 1 ELSE 0) /\ c[4] \in 2 .. 7
  BY DEF Cases, Clocks, clock_table

\* No time passes from u to h.
Untimed(h, u) == /\ DOMAIN h = GFields
                 /\ h.s_time = u.s_time /\ h.base = u.base /\ h.end_time = u.end_time

\* The parts that instructions are made of take no time of their own.
LEMMA UntimedSteps ==
    ASSUME NEW u, DOMAIN u = GFields, NEW i, NEW k, NEW e
    PROVE  /\ Untimed(Skip(u, i), u)
           /\ Untimed(Push(u, k), u) /\ Untimed(Drop(u, i), u)
           /\ Untimed(CpuWrite(u, i, k), u)
           /\ Untimed(Compare(u, e, k), u) /\ Untimed(Logic(u, k), u) /\ Untimed(Adc(u, k), u)
           /\ Untimed(SetStatus(u, k), u)
  <1> USE DEF Untimed, GFields
  <1>1. Untimed(Skip(u, i), u) /\ Untimed(Drop(u, i), u) /\ Untimed(Push(u, k), u)
    BY DEF Skip, Drop, Push
  <1>2. Untimed(CpuWrite(u, i, k), u)
    BY DEF CpuWrite
  <1>3. Untimed(Compare(u, e, k), u) /\ Untimed(Logic(u, k), u)
    BY DEF Compare, Logic
  <1>4. Untimed(Adc(u, k), u)
    <2>1. \E s, z, b : Adc(u, k) = [u EXCEPT !.status = s, !.c = z, !.nz = z, !.a = b]
      BY DEF Adc
    <2> QED
      BY <2>1
  <1>5. Untimed(SetStatus(u, k), u)
    <2>1. \E s, z, b : SetStatus(u, k) = [u EXCEPT !.status = s, !.c = z, !.nz = b]
      BY DEF SetStatus
    <2> QED
      BY <2>1
  <1> QED
    BY <1>1, <1>2, <1>3, <1>4, <1>5

\* Changing a register takes no time.
LEMMA UntimedFields ==
    ASSUME NEW h, NEW u, Untimed(h, u)
    PROVE  /\ \A p, q : Untimed([h EXCEPT !.a = p, !.nz = q], u)
           /\ \A p, q : Untimed([h EXCEPT !.x = p, !.nz = q], u)
           /\ \A p, q : Untimed([h EXCEPT !.y = p, !.nz = q], u)
           /\ \A p, q : Untimed([h EXCEPT !.status = p, !.nz = q], u)
           /\ \A p, q, e : Untimed([h EXCEPT !.nz = p, !.c = q, !.a = e], u)
           /\ \A p, q : Untimed([h EXCEPT !.nz = p, !.c = q], u)
           /\ \A p : Untimed([h EXCEPT !.pc = p], u)
           /\ \A p : Untimed([h EXCEPT !.nz = p], u)
           /\ \A p : Untimed([h EXCEPT !.sp = p], u)
           /\ \A p : Untimed([h EXCEPT !.status = p], u)
           /\ \A p : Untimed([h EXCEPT !.c = p], u)
  BY DEF Untimed, GFields

\* k clocks pass from u to h.
Spent(h, u, k) == /\ DOMAIN h = GFields
                  /\ h.s_time = u.s_time + k /\ h.base = u.base /\ h.end_time = u.end_time
\* What an indexed read of another page costs.
PageClocks(u, mode, d) ==
    IF mode = "abx" THEN (d + u.x) \div 256
    ELSE IF mode = "aby" THEN (d + u.y) \div 256
    ELSE IF mode = "izy" THEN (Low(u, d) + u.y) \div 256 ELSE 0

\* Of the addressing modes only the indexed ones take time, that of a page crossed.
LEMMA OperandTime ==
    ASSUME NEW u, DOMAIN u = GFields, u.s_time \in Int, NEW mode \in AluModes, NEW d \in Byte, NEW msb
    PROVE  /\ Spent(Operand(u, GmeMode[mode], d, msb).h, u, PageClocks(u, mode, d))
           /\ DOMAIN Operand(u, GmeMode[mode], d, msb) = {"h", "v"}
  <1> DEFINE o == Operand(u, GmeMode[mode], d, msb)
  <1>1. u.s_time + 0 = u.s_time /\ d \div 256 = 0
    BY DEF Byte
  <1>2. ASSUME NEW k PROVE Spent(Late(Skip(u, 1), k), u, k \div 256) /\ Spent(Late(u, k), u, k \div 256)
    BY DEF Spent, Late, Skip, GFields
  <1>3. Spent(u, u, 0)
    BY <1>1 DEF Spent
  <1>4. CASE mode \in {"imm", "zp", "zpx", "izx"}
    <2>1. PageClocks(u, mode, d) = 0
      BY <1>4 DEF PageClocks
    <2>2. /\ mode = "imm" => o = [h |-> u, v |-> d]
          /\ mode = "zp" => o = [h |-> u, v |-> Low(u, d)]
          /\ mode = "zpx" => o = [h |-> u, v |-> Low(u, d + u.x)]
          /\ mode = "izx" => o = [h |-> u, v |-> CpuRead(u, U16(IndX(u, d)))]
      BY <1>4 DEF Operand, GmeMode
    <2> HIDE DEF o
    <2>3. o.h = u /\ DOMAIN o = {"h", "v"}
      BY <1>4, <2>2
    <2> QED
      BY <1>3, <2>1, <2>3 DEF o
  <1>5. CASE mode \in {"abs", "abx", "aby"}
    <2> DEFINE k == IF mode = "abs" THEN d ELSE IF mode = "abx" THEN d + u.x ELSE d + u.y
    <2>1. PageClocks(u, mode, d) = k \div 256
      BY <1>1, <1>5 DEF PageClocks
    <2> DEFINE h == Late(Skip(u, 1), k)
               v == CpuRead(h, U16(k + 256 * msb))
    <2>2. o = [h |-> h, v |-> v]
      <3>1. CASE mode = "abs"
        BY <3>1 DEF Operand, GmeMode
      <3>2. CASE mode = "abx"
        BY <3>2 DEF Operand, GmeMode
      <3>3. CASE mode = "aby"
        BY <3>3 DEF Operand, GmeMode
      <3> QED
        BY <1>5, <3>1, <3>2, <3>3
    <2> HIDE DEF k, v, h, o
    <2>3. o.h = h /\ DOMAIN o = {"h", "v"}
      BY <2>2
    <2> QED
      BY <1>2, <2>1, <2>3 DEF h, o
  <1>6. CASE mode = "izy"
    <2> DEFINE k == Low(u, d) + u.y
    <2>1. PageClocks(u, mode, d) = k \div 256
      BY <1>6 DEF PageClocks
    <2>2. \E v : o = [h |-> Late(u, k), v |-> v]
      BY <1>6 DEF Operand, GmeMode
    <2> HIDE DEF k
    <2> QED
      BY <1>2, <2>1, <2>2
  <1> QED
    BY <1>4, <1>5, <1>6 DEF AluModes

\* An operation on A takes the time of its operand.
LEMMA AluTime ==
    ASSUME NEW u, DOMAIN u = GFields, u.s_time \in Int, NEW c \in Cases, c[2] \in DOMAIN AluBase,
           NEW d \in Byte, NEW msb
    PROVE  Spent(Switch(u, c[1], d, msb), u, PageClocks(u, c[3], d))
  <1> DEFINE op == c[1]
             mode == c[3]
             b == AluBase[c[2]]
             o == Operand(u, GmeMode[mode], d, msb)
             h == Skip(o.h, 1)
             q == Arith(u, op, b, d, msb)
             z == Switch(u, op, d, msb)
  <1>1. op = b + Offset[GmeMode[mode]] /\ mode \in AluModes /\ op # 0 /\ op # 235
    BY AluRows
  <1>2. b \in ArithOps \cup {165} /\ (b = 165 <=> c[2] = "LDA")
    BY DEF AluBase, ArithOps
  <1>3. /\ IsArith(op, b) /\ ArithMode(op, b) = GmeMode[mode]
        /\ \A e \in ArithOps \cup {165} : IsArith(op, e) => e = b
    BY <1>1, <1>2, ArithIs
  <1>4. Spent(o.h, u, PageClocks(u, mode, d)) /\ DOMAIN o = {"h", "v"}
    BY <1>1, OperandTime
  <1>5. q.h = h
    <2>1. q = [o EXCEPT !.h = Skip(@, 1)]
      BY <1>3 DEF Arith
    <2> HIDE DEF o
    <2> QED
      BY <1>4, <2>1
  <1> HIDE DEF o, q, b, op
  <1>6. Untimed(h, o.h)
    BY <1>4, UntimedSteps DEF Spent
  <1> HIDE DEF h
  <1>7. Untimed(z, h)
    <2>1. CASE c[2] = "LDA"
      <3>1. b = 165 /\ c[3] # "acc"
        BY <1>2, <2>1, Classes
      <3>2. z = LoadA(u, op, d, msb)
        BY <2>1, <3>1, Classes DEF Switch, Stores, Transfers, IncDecs, Branches, op
      <3>3. LoadA(u, op, d, msb) = [q.h EXCEPT !.a = q.v, !.nz = q.v]
        BY <3>1 DEF LoadA, q
      <3>4. DOMAIN h = GFields
        BY <1>6 DEF Untimed
      <3> DEFINE k == q.v
      <3> HIDE DEF k, z
      <3>5. z = [h EXCEPT !.a = k, !.nz = k]
        BY <1>5, <3>2, <3>3 DEF k, z
      <3> QED
        BY <3>4, <3>5 DEF Untimed, GFields, z
    <2>2. CASE c[2] # "LDA"
      <3>1. b \in ArithOps /\ b # 165 /\ c[3] # "acc"
        BY <1>2, <2>2, Classes DEF AluBase
      <3>2. z = ArithOp(u, op, d, msb)
        BY <2>2, <3>1, Classes DEF Switch, Stores, Transfers, IncDecs, Branches, op, AluBase
      <3>3. (CHOOSE e \in ArithOps : IsArith(op, e) \/ (op = 235 /\ e = 229)) = b
        BY <1>1, <1>3, <3>1
      <3>4. op # 235
        BY <1>1 DEF op
      <3> HIDE DEF z
      <3>5. z = CASE b = 197 -> Compare(h, h.a, q.v)
                  [] b = 37 -> Logic(h, AndB(h.a, q.v))
                  [] b = 69 -> Logic(h, XorB(h.a, q.v))
                  [] b = 5 -> Logic(h, OrB(h.a, q.v))
                  [] b = 229 -> Adc(h, 255 - q.v)
                  [] b = 101 -> Adc(h, q.v)
        BY <1>5, <3>2, <3>3, <3>4 DEF ArithOp, q
      <3>6. \/ \E e, k : z = Compare(h, e, k)
            \/ \E k : z = Logic(h, k)
            \/ \E k : z = Adc(h, k)
        BY <3>1, <3>5 DEF ArithOps
      <3>7. DOMAIN h = GFields
        BY <1>6 DEF Untimed
      <3> QED
        BY <3>6, <3>7, UntimedSteps DEF z
    <2> QED
      BY <2>1, <2>2
  <1>8. Spent(z, u, PageClocks(u, mode, d))
    BY <1>4, <1>6, <1>7 DEF Spent, Untimed
  <1> QED
    BY <1>8 DEF op

\* LDX and LDY take the time of their operand.
LEMMA LoadXYTime ==
    ASSUME NEW u, DOMAIN u = GFields, u.s_time \in Int, NEW c \in Cases, c[2] \in {"LDX", "LDY"},
           NEW d \in Byte, NEW msb
    PROVE  Spent(Switch(u, c[1], d, msb), u, PageClocks(u, c[3], d))
  <1> DEFINE op == c[1]
             mode == c[3]
             i == IF op \in {182, 190} THEN u.y ELSE IF op \in {180, 188} THEN u.x ELSE 0
             wide == op \in {174, 190, 172, 188}
             h == IF wide THEN Late(Skip(u, 2), d + i) ELSE Skip(u, 1)
  <1>1. u.s_time + 0 = u.s_time /\ (d + 0) \div 256 = 0
    BY DEF Byte
  <1>2. Spent(h, u, PageClocks(u, mode, d))
    <2>1. CASE mode \in {"abs", "abx", "aby"}
      <3>1. h = Late(Skip(u, 2), d + i)
        BY <2>1, XYRows
      <3>2. PageClocks(u, mode, d) = (d + i) \div 256
        BY <1>1, <2>1, XYRows DEF PageClocks
      <3> DEFINE k == d + i
      <3> HIDE DEF h, k
      <3>3. Spent(Late(Skip(u, 2), k), u, k \div 256)
        BY DEF Spent, Late, Skip, GFields
      <3> QED
        BY <3>1, <3>2, <3>3 DEF k
    <2>2. CASE mode \notin {"abs", "abx", "aby"}
      <3>1. h = Skip(u, 1) /\ PageClocks(u, mode, d) = 0
        BY <2>2, XYRows DEF PageClocks
      <3>2. Untimed(Skip(u, 1), u)
        BY UntimedSteps
      <3> QED
        BY <1>1, <3>1, <3>2 DEF Untimed, Spent
    <2> QED
      BY <2>1, <2>2
  <1>3. c[3] # "acc"
    BY XYRows
  <1>4. Switch(u, op, d, msb) = LoadXY(u, op, d, msb)
    BY <1>3, Classes DEF Switch, Stores, Transfers, IncDecs, Branches
  <1> DEFINE k == IF op \in {162, 160} THEN d
                  ELSE IF wide THEN CpuRead(u, d + i + 256 * msb) ELSE Low(u, d + i)
  <1>5. \/ LoadXY(u, op, d, msb) = [h EXCEPT !.x = k, !.nz = k]
        \/ LoadXY(u, op, d, msb) = [h EXCEPT !.y = k, !.nz = k]
    BY DEF LoadXY
  <1> HIDE DEF h, k
  <1>6. DOMAIN h = GFields
    BY <1>2 DEF Spent
  <1>7. Untimed(Switch(u, op, d, msb), h)
    <2>1. Untimed([h EXCEPT !.x = k, !.nz = k], h) /\ Untimed([h EXCEPT !.y = k, !.nz = k], h)
      BY <1>6 DEF Untimed, GFields
    <2> QED
      BY <1>4, <1>5, <2>1
  <1> QED
    BY <1>2, <1>7 DEF Spent, Untimed

\* CPX, CPY and BIT take no time beyond their clocks.
LEMMA CompareXYTime ==
    ASSUME NEW u, DOMAIN u = GFields, NEW c \in Cases, c[2] \in {"CPX", "CPY", "BIT"},
           NEW d, NEW msb
    PROVE  Untimed(Switch(u, c[1], d, msb), u)
  <1> DEFINE z == Switch(u, c[1], d, msb)
  <1>1. c[3] # "acc"
    BY CompareRows
  <1>2. ASSUME NEW i PROVE DOMAIN Skip(u, i) = GFields /\ Untimed(Skip(u, i), u)
    BY UntimedSteps DEF Untimed
  <1>3. CASE c[2] \in {"CPX", "CPY"}
    <2>1. z = CompareXY(u, c[1], d, msb)
      BY <1>1, <1>3, Classes DEF Switch, Stores, Transfers, IncDecs, Branches
    <2>2. \E i, e, k : z = Compare(Skip(u, i), e, k)
      BY <2>1 DEF CompareXY
    <2>3. PICK i, e, k : z = Compare(Skip(u, i), e, k)
      BY <2>2
    <2>4. Untimed(Compare(Skip(u, i), e, k), Skip(u, i))
      BY <1>2, UntimedSteps
    <2> QED
      BY <1>2, <2>3, <2>4 DEF Untimed
  <1>4. CASE c[2] = "BIT"
    <2>1. z = BitTest(u, c[1], d, msb)
      BY <1>1, <1>4, Classes DEF Switch, Stores, Transfers, IncDecs, Branches
    <2> DEFINE f == Skip(u, IF c[1] = 36 THEN 1 ELSE 2)
               v == IF c[1] = 36 THEN Low(u, d) ELSE CpuRead(u, d + 256 * msb)
               p == WithFlag(f.status, "V", BitOf(v, 6) = 1)
               q == IF AndB(u.a, v) # 0 THEN v ELSE U16(v * 256)
    <2> HIDE DEF z
    <2>2. z = [f EXCEPT !.status = p, !.nz = q]
      BY <2>1 DEF BitTest
    <2> HIDE DEF p, q, f
    <2>3. DOMAIN f = GFields /\ Untimed(f, u)
      BY <1>2 DEF f
    <2> QED
      BY <2>2, <2>3 DEF Untimed, GFields, z
  <1> QED
    BY <1>3, <1>4

\* A store takes no time beyond its clocks.
LEMMA StoreTime ==
    ASSUME NEW u, DOMAIN u = GFields, NEW c \in Cases, c[2] \in Stores, NEW d, NEW msb
    PROVE  Untimed(Switch(u, c[1], d, msb), u)
  <1>1. c[3] # "acc"
    BY StoreRows DEF MemoryModes
  <1>2. Switch(u, c[1], d, msb) = Store(u, c[1], d, msb)
    BY <1>1, Classes DEF Switch, Stores, Transfers, IncDecs, Branches
  <1>3. PICK i, a : Store(u, c[1], d, msb) = CpuWrite(Skip(u, i), a, StoredReg(u, c[1]))
    BY DEF Store
  <1>4. Untimed(Skip(u, i), u)
    BY UntimedSteps
  <1>5. Untimed(CpuWrite(Skip(u, i), a, StoredReg(u, c[1])), Skip(u, i))
    BY <1>4, UntimedSteps DEF Untimed
  <1> QED
    BY <1>2, <1>3, <1>4, <1>5 DEF Untimed

\* An instruction that modifies a byte takes no time beyond its clocks.
LEMMA ModifyTime ==
    ASSUME NEW u, DOMAIN u = GFields, NEW c \in Cases, c[2] \in Modifies, NEW d, NEW msb
    PROVE  Untimed(Switch(u, c[1], d, msb), u)
  <1> DEFINE z == Switch(u, c[1], d, msb)
  <1>1. CASE c[3] = "acc"
    <2>1. z = ShiftA(u, c[1])
      BY <1>1, Classes DEF Switch, Stores, Transfers, IncDecs, Branches
    <2> DEFINE s == Shifted(c[1], u.a, Carry(u))
               p == s.nz
               q == s.c
               k == U8(p)
    <2> HIDE DEF z
    <2>2. z = [u EXCEPT !.nz = p, !.c = q, !.a = k]
      BY <2>1 DEF ShiftA
    <2> HIDE DEF p, q, k
    <2> QED
      BY <2>2 DEF Untimed, GFields, z
  <1>2. ASSUME NEW f, Untimed(f, u), NEW a, NEW k, z = CpuWrite(f, a, k)
        PROVE  Untimed(z, u)
    <2>1. Untimed(CpuWrite(f, a, k), f)
      BY <1>2, UntimedSteps DEF Untimed
    <2> QED
      BY <1>2, <2>1 DEF Untimed
  <1> DEFINE f == Skip(u, Width(c[1]))
             a == ModifyAddr(u, c[1], d, msb)
  <1>3. Untimed(f, u)
    BY UntimedSteps
  <1>4. CASE c[2] \in {"INC", "DEC"}
    <2> DEFINE p == U16(CpuRead(u, a) + (IF c[1] >= 224 THEN 1 ELSE -1))
    <2>1. z = IncDecM(u, c[1], d, msb)
      BY <1>4, Classes DEF Switch, Stores, Transfers, IncDecs, Branches
    <2>2. IncDecM(u, c[1], d, msb) = CpuWrite([f EXCEPT !.nz = p], a, U8(p))
      BY DEF IncDecM
    <2> HIDE DEF z, p, f, a
    <2>3. Untimed([f EXCEPT !.nz = p], u)
      BY <1>3 DEF Untimed, GFields
    <2> QED
      BY <1>2, <2>1, <2>2, <2>3 DEF z
  <1>5. CASE c[2] \notin {"INC", "DEC"} /\ c[3] # "acc"
    <2> DEFINE s == Shifted(c[1], CpuRead(u, a), Carry(u))
               p == s.nz
               q == s.c
    <2>1. z = ShiftM(u, c[1], d, msb)
      BY <1>5, Classes DEF Switch, Stores, Transfers, IncDecs, Branches, Modifies
    <2>2. ShiftM(u, c[1], d, msb) = CpuWrite([f EXCEPT !.nz = p, !.c = q], a, U8(p))
      BY DEF ShiftM
    <2> HIDE DEF z, p, q, f, a
    <2>3. Untimed([f EXCEPT !.nz = p, !.c = q], u)
      BY <1>3 DEF Untimed, GFields
    <2> QED
      BY <1>2, <2>1, <2>2, <2>3 DEF z
  <1> QED
    BY <1>1, <1>4, <1>5

\* The clocks of a run are whole numbers; moving its end changes no time.
OnTime(u) == u.s_time \in Int /\ u.base \in Int /\ u.end_time \in Int
Clocked(h, u, k) == /\ DOMAIN h = GFields /\ OnTime(h) /\ Time(h) = Time(u) + k
                    /\ h.base \in {u.base, u.end_time} /\ h.end_time = u.end_time

\* HANDLE_SEI moves the base of the clock and keeps the time.
LEMMA ClockedForms ==
    ASSUME NEW u, OnTime(u), NEW h, NEW k \in Int
    PROVE  /\ Untimed(h, u) => Clocked(h, u, 0) /\ Clocked(HandleSei(h), u, 0)
           /\ Spent(h, u, k) => Clocked(h, u, k)
  <1>1. Untimed(h, u) => Clocked(h, u, 0)
    BY DEF Untimed, Clocked, OnTime, Time
  <1>2. Spent(h, u, k) => Clocked(h, u, k)
    BY DEF Spent, Clocked, OnTime, Time
  <1>3. ASSUME Untimed(h, u) PROVE Clocked(HandleSei(h), u, 0)
    <2> DEFINE f == HandleSei(h)
    <2>1. /\ DOMAIN f = GFields /\ f.s_time = h.s_time + (h.base - h.end_time)
          /\ f.base = h.end_time /\ f.end_time = h.end_time
      BY <1>3 DEF Untimed, HandleSei, GFields
    <2> HIDE DEF f
    <2>2. /\ h.s_time \in Int /\ h.base \in Int /\ h.end_time \in Int /\ Time(u) = h.s_time + h.base
          /\ h.end_time = u.end_time
      BY <1>3 DEF Untimed, OnTime, Time
    <2>3. OnTime(f) /\ Time(f) = Time(u) + 0
      BY <2>1, <2>2 DEF OnTime, Time
    <2> QED
      BY <2>1, <2>2, <2>3 DEF Clocked, f
  <1> QED
    BY <1>1, <1>2, <1>3

\* The transfers and INX, DEX, INY and DEY take no time beyond their clocks.
LEMMA RegisterTime ==
    ASSUME NEW u, DOMAIN u = GFields, NEW c \in Cases, c[2] \in Transfers \cup IncDecs,
           NEW d, NEW msb
    PROVE  Untimed(Switch(u, c[1], d, msb), u)
  <1> DEFINE z == Switch(u, c[1], d, msb)
  <1>1. c[3] # "acc" /\ c[1] \in RegisterOps
    BY RegisterRows, Classes
  <1>2. z = Register(u, c[1])
    BY <1>1, Classes DEF Switch, Stores, Transfers, IncDecs, Branches
  <1> DEFINE q == GetSp(u)
             sp == SetSp(u.x)
             x1 == U8(u.x + 1)
             x2 == U16(u.x - 1)
             x3 == U8(u.x - 1)
             y1 == U8(u.y + 1)
             y2 == U16(u.y - 1)
             y3 == U8(u.y - 1)
  <1>3. \/ z = [u EXCEPT !.x = u.a, !.nz = u.a] \/ z = [u EXCEPT !.a = u.x, !.nz = u.x]
        \/ z = [u EXCEPT !.y = u.a, !.nz = u.a] \/ z = [u EXCEPT !.a = u.y, !.nz = u.y]
        \/ z = [u EXCEPT !.sp = sp] \/ z = [u EXCEPT !.x = q, !.nz = q]
        \/ z = [u EXCEPT !.x = x1, !.nz = u.x + 1] \/ z = [u EXCEPT !.x = x3, !.nz = x2]
        \/ z = [u EXCEPT !.y = y1, !.nz = u.y + 1] \/ z = [u EXCEPT !.y = y3, !.nz = y2]
    BY <1>1, <1>2 DEF Register, RegisterOps
  <1> HIDE DEF z, q, sp, x1, x2, x3, y1, y2, y3
  <1> QED
    BY <1>3 DEF Untimed, GFields, z

\* PHA, PLA, PHP and PLP take no time beyond their clocks, also when PLP ends the run early.
LEMMA StackTime ==
    ASSUME NEW u, DOMAIN u = GFields, OnTime(u), NEW c \in Cases,
           c[2] \in {"PHA", "PLA", "PHP", "PLP"}, NEW d, NEW msb
    PROVE  Clocked(Switch(u, c[1], d, msb), u, 0)
  <1> DEFINE z == Switch(u, c[1], d, msb)
             f == Drop(u, 1)
             k == Top(u, 1)
             h == SetStatus(f, k)
  <1>1. c[3] # "acc"
    BY StackRows
  <1>2. z = Stack(u, c[1])
    BY <1>1, Classes DEF Switch, Stores, Transfers, IncDecs, Branches
  <1>3. \/ \E i : z = Push(u, i)
        \/ z = [f EXCEPT !.a = k, !.nz = k]
        \/ z = h
        \/ z = HandleSei(h)
    <2>1. c[1] \in {72, 104, 8, 40}
      BY StackRows
    <2> QED
      BY <1>2, <2>1 DEF Stack
  <1>4. Untimed(f, u)
    BY UntimedSteps
  <1> HIDE DEF z, f, k
  <1>5. Untimed([f EXCEPT !.a = k, !.nz = k], u)
    BY <1>4 DEF Untimed, GFields
  <1>6. Untimed(h, u)
    <2>1. Untimed(h, f)
      BY <1>4, UntimedSteps DEF Untimed
    <2> QED
      BY <1>4, <2>1 DEF Untimed
  <1> HIDE DEF h
  <1>7. CASE z = HandleSei(h)
    BY <1>6, <1>7, ClockedForms DEF z
  <1>8. CASE Untimed(z, u)
    BY <1>8, ClockedForms DEF z
  <1> QED
    BY <1>3, <1>5, <1>6, <1>7, <1>8, UntimedSteps

\* The instructions on flags take no time beyond their clocks, also when SEI ends the run early.
LEMMA FlagTime ==
    ASSUME NEW u, DOMAIN u = GFields, OnTime(u), NEW c \in Cases,
           c[2] \in {"SEC", "CLC", "CLV", "CLD", "SED", "CLI", "SEI", "NOP"}, NEW d, NEW msb
    PROVE  Clocked(Switch(u, c[1], d, msb), u, 0)
  <1> DEFINE z == Switch(u, c[1], d, msb)
             s == u.status \cup {"I"}
             h == [u EXCEPT !.status = s]
  <1>1. c[3] # "acc"
    BY FlagRows
  <1>2. Untimed(u, u)
    BY DEF Untimed
  <1>3. CASE c[2] = "NOP"
    <2>1. c[1] = 234
      BY <1>3, FlagRows
    <2>2. z = Unofficial(u, c[1], d)
      BY <1>1, <1>3, Classes DEF Switch, Stores, Transfers, IncDecs, Branches
    <2>3. Unofficial(u, 234, d) = u
      BY DEF Unofficial, SkipWordOps, SkipByteOps, NopOps, HaltOps, BadOpcode
    <2> QED
      BY <1>2, <2>1, <2>2, <2>3, ClockedForms
  <1>4. CASE c[2] # "NOP"
    <2>1. z = SetFlags(u, c[1])
      BY <1>1, <1>4, Classes DEF Switch, Stores, Transfers, IncDecs, Branches
    <2>2. c[1] \in {56, 24, 184, 216, 248, 88, 120}
      BY <1>4, FlagRows
    <2> DEFINE p1 == u.status \ {"V"}
               p2 == u.status \ {"D"}
               p3 == u.status \cup {"D"}
               p4 == u.status \ {"I"}
    <2>3. \/ z = [u EXCEPT !.c = 65535] \/ z = [u EXCEPT !.c = 0]
          \/ z = [u EXCEPT !.status = p1] \/ z = [u EXCEPT !.status = p2]
          \/ z = [u EXCEPT !.status = p3] \/ z = [u EXCEPT !.status = p4]
          \/ z = u \/ z = HandleSei(h)
      <3>1. /\ c[1] = 56 => z = [u EXCEPT !.c = 65535]
            /\ c[1] = 24 => z = [u EXCEPT !.c = 0]
            /\ c[1] = 184 => z = [u EXCEPT !.status = p1]
            /\ c[1] = 216 => z = [u EXCEPT !.status = p2]
            /\ c[1] = 248 => z = [u EXCEPT !.status = p3]
            /\ c[1] = 88 => z = [u EXCEPT !.status = p4]
            /\ c[1] = 120 => z = u \/ z = HandleSei(h)
        BY <2>1 DEF SetFlags
      <3> QED
        BY <2>2, <3>1
    <2> HIDE DEF z, s, p1, p2, p3, p4
    <2>4. Untimed(h, u)
      BY DEF Untimed, GFields
    <2> HIDE DEF h
    <2>5. CASE z = HandleSei(h)
      BY <2>4, <2>5, ClockedForms DEF z
    <2>6. CASE z # HandleSei(h)
      <3>1. Untimed(z, u)
        BY <1>2, <2>3, <2>6 DEF Untimed, GFields
      <3> QED
        BY <3>1, ClockedForms DEF z
    <2> QED
      BY <2>5, <2>6
  <1> QED
    BY <1>3, <1>4

\* The jumps take no time beyond their clocks.
LEMMA JumpTime ==
    ASSUME NEW u, DOMAIN u = GFields, NEW c \in Cases, c[2] \in {"JSR", "JMP", "RTS", "RTI"},
           NEW d, NEW msb
    PROVE  Untimed(Switch(u, c[1], d, msb), u)
  <1> DEFINE z == Switch(u, c[1], d, msb)
             word == d + 256 * msb
  <1>1. c[1] \in {32, 76, 96, 64, 108} /\ c[3] # "acc"
    BY JumpRows, Classes
  <1>2. z = Jump(u, c[1], word)
    BY <1>1, Classes DEF Switch, Stores, Transfers, IncDecs, Branches
  <1>3. \E f, pc : z = [f EXCEPT !.pc = pc] /\ Untimed(f, u)
    <2>1. CASE c[1] = 32
      <3> DEFINE k == U16(u.pc + 1) \div 256
                 i == U8(U16(u.pc + 1))
      <3>1. z = [Push(Push(u, k), i) EXCEPT !.pc = word]
        BY <1>2, <2>1 DEF Jump, Jsr
      <3> HIDE DEF k, i, z, word
      <3>2. Untimed(Push(u, k), u)
        BY UntimedSteps
      <3>3. Untimed(Push(Push(u, k), i), Push(u, k))
        BY <3>2, UntimedSteps DEF Untimed
      <3>4. Untimed(Push(Push(u, k), i), u)
        BY <3>2, <3>3 DEF Untimed
      <3> QED
        BY <3>1, <3>4
    <2>2. CASE c[1] = 76
      <3>1. z = [u EXCEPT !.pc = word]
        BY <1>2, <2>2 DEF Jump
      <3> HIDE DEF z, word
      <3> QED
        BY <3>1 DEF Untimed
    <2>3. CASE c[1] = 96
      <3> DEFINE pc == U16(1 + Top(u, 1) + 256 * Top(u, 2))
      <3>1. z = [Drop(u, 2) EXCEPT !.pc = pc]
        BY <1>2, <2>3 DEF Jump, Rts
      <3> HIDE DEF z, pc
      <3>2. Untimed(Drop(u, 2), u)
        BY UntimedSteps
      <3> QED
        BY <3>1, <3>2
    <2>4. CASE c[1] = 64
      <3> DEFINE pc == Top(u, 2) + 256 * Top(u, 3)
                 k == Top(u, 1)
      <3>1. z = [SetStatus(Drop(u, 3), k) EXCEPT !.pc = pc]
        BY <1>2, <2>4 DEF Jump, Rti
      <3> HIDE DEF z, pc, k
      <3>2. Untimed(Drop(u, 3), u)
        BY UntimedSteps
      <3>3. Untimed(SetStatus(Drop(u, 3), k), Drop(u, 3))
        BY <3>2, UntimedSteps DEF Untimed
      <3>4. Untimed(SetStatus(Drop(u, 3), k), u)
        BY <3>2, <3>3 DEF Untimed
      <3> QED
        BY <3>1, <3>4
    <2>5. CASE c[1] = 108
      <3> DEFINE pc == CpuRead(u, word) + 256 * CpuRead(u, (word \div 256) * 256 + U8(word + 1))
      <3>1. z = [u EXCEPT !.pc = pc]
        BY <1>2, <2>5 DEF Jump, JmpInd
      <3> HIDE DEF z, pc
      <3> QED
        BY <3>1 DEF Untimed
    <2> QED
      BY <1>1, <2>1, <2>2, <2>3, <2>4, <2>5
  <1>4. PICK f, pc : z = [f EXCEPT !.pc = pc] /\ Untimed(f, u)
    BY <1>3
  <1> HIDE DEF z
  <1> QED
    BY <1>4 DEF Untimed, GFields, z

\* What a branch costs beyond its cycles.
BranchClocks(u, op, d) ==
    IF Taken(u, op) THEN BitOf(U16(U8(U16(u.pc + 1)) + S8(d)), 8) ELSE -1

\* A branch gives a clock back when it is not taken, and takes one when it leaves the page.
LEMMA BranchTime ==
    ASSUME NEW u, DOMAIN u = GFields, u.s_time \in Int, NEW c \in Cases, c[2] \in Branches,
           NEW d \in Byte, NEW msb
    PROVE  Spent(Switch(u, c[1], d, msb), u, BranchClocks(u, c[1], d))
  <1> DEFINE h == Skip(u, 1)
             q == BitOf(U16(U8(h.pc) + S8(d)), 8)
             to == U16(h.pc + S8(d))
             z == Switch(u, c[1], d, msb)
  <1>1. c[3] # "acc"
    BY BranchRows
  <1>2. z = Branch(u, c[1], d)
    BY <1>1, Classes DEF Switch, Stores, Transfers, IncDecs, Branches
  <1>3. Branch(u, c[1], d) = IF Taken(u, c[1]) THEN [h EXCEPT !.pc = to, !.s_time = @ + q]
                             ELSE [h EXCEPT !.s_time = @ - 1]
    BY DEF Branch
  <1>4. h.pc = U16(u.pc + 1) /\ Untimed(h, u)
    <2>1. h.pc = U16(u.pc + 1)
      BY DEF Skip, GFields
    <2> QED
      BY <2>1, UntimedSteps
  <1>5. BranchClocks(u, c[1], d) = IF Taken(u, c[1]) THEN q ELSE -1
    BY <1>4 DEF BranchClocks
  <1> HIDE DEF h, q, to, z
  <1>6. CASE Taken(u, c[1])
    <2>1. z = [h EXCEPT !.pc = to, !.s_time = @ + q]
      BY <1>2, <1>3, <1>6
    <2>2. Spent(z, u, q)
      BY <1>4, <2>1 DEF Untimed, Spent, GFields
    <2> QED
      BY <1>5, <1>6, <2>2 DEF z
  <1>7. CASE ~Taken(u, c[1])
    <2>1. z = [h EXCEPT !.s_time = @ - 1]
      BY <1>2, <1>3, <1>7
    <2>2. u.s_time - 1 = u.s_time + (-1)
      OBVIOUS
    <2>3. Spent(z, u, -1)
      BY <1>4, <2>1, <2>2 DEF Untimed, Spent, GFields
    <2> QED
      BY <1>5, <1>7, <2>3 DEF z
  <1> QED
    BY <1>6, <1>7

\* The carry out of the low byte tells whether an index leaves the page.
LEMMA PageCrossed ==
    ASSUME NEW lo \in Byte, NEW hi \in Byte, NEW i \in Byte
    PROVE  (lo + i) \div 256 =
              IF U16(lo + 256 * hi + i) \div 256 = (lo + 256 * hi) \div 256 THEN 0 ELSE 1
  <1>1. (lo + 256 * hi) \div 256 = hi
    BY DEF Byte
  <1>2. CASE lo + i < 256
    <2>1. (lo + i) \div 256 = 0
      BY <1>2 DEF Byte
    <2>2. U16(lo + 256 * hi + i) = lo + 256 * hi + i
      BY <1>2 DEF U16, Byte
    <2>3. (lo + 256 * hi + i) \div 256 = hi
      BY <1>2 DEF Byte
    <2> QED
      BY <1>1, <2>1, <2>2, <2>3
  <1>3. CASE ~(lo + i < 256)
    <2>1. (lo + i) \div 256 = 1
      BY <1>3 DEF Byte
    <2>2. CASE hi < 255
      <3>1. U16(lo + 256 * hi + i) = lo + 256 * hi + i
        BY <2>2 DEF U16, Byte
      <3>2. (lo + 256 * hi + i) \div 256 = hi + 1
        BY <1>3, <2>2 DEF Byte
      <3>3. hi + 1 # hi
        BY DEF Byte
      <3> QED
        BY <1>1, <2>1, <3>1, <3>2, <3>3
    <2>3. CASE ~(hi < 255)
      <3>1. hi = 255
        BY <2>3 DEF Byte
      <3>2. U16(lo + 256 * 255 + i) = lo + i - 256
        BY <1>3 DEF U16, Byte
      <3>3. (lo + i - 256) \div 256 = 0
        BY <1>3 DEF Byte
      <3> QED
        BY <1>1, <2>1, <3>1, <3>2, <3>3
    <2> QED
      BY <2>2, <2>3
  <1> QED
    BY <1>2, <1>3

\* Bit 8 of the low byte's sum tells whether a branch leaves the page.
LEMMA PageLeft ==
    ASSUME NEW lo \in Byte, NEW hi \in Byte, NEW s \in -128 .. 127
    PROVE  BitOf(U16(lo + s), 8) = IF U16(lo + 256 * hi + s) \div 256 = hi THEN 0 ELSE 1
  <1> DEFINE t == lo + s
             m == U16(lo + 256 * hi + s)
  <1>0. lo + 256 * hi + s = t + 256 * hi /\ t \in -128 .. 382
    BY DEF Byte
  <1>1. CASE t < 0
    <2>1. BitOf(U16(t), 8) = 1
      <3> HIDE DEF t
      <3>1. U16(t) = 65536 + t
        BY <1>0, <1>1 DEF U16
      <3>2. BitOf(65536 + t, 8) = 1
        BY <1>0, <1>1 DEF BitOf
      <3> QED
        BY <3>1, <3>2
    <2>2. m \div 256 # hi
      <3> HIDE DEF t
      <3>1. m = (t + 256 * hi) % 65536
        BY <1>0 DEF U16
      <3> HIDE DEF m
      <3>2. CASE hi < 1
        <4>1. hi = 0 /\ (t + 256 * 0) % 65536 = 65536 + t
          BY <1>0, <1>1, <3>2 DEF Byte
        <4>2. m = 65536 + t
          BY <3>1, <4>1
        <4> QED
          BY <1>0, <1>1, <4>1, <4>2
      <3>3. CASE ~(hi < 1)
        <4>1. m = t + 256 * hi
          BY <1>0, <1>1, <3>1, <3>3 DEF Byte
        <4>2. (t + 256 * hi) \div 256 = hi - 1
          BY <1>0, <1>1, <3>3 DEF Byte
        <4> QED
          BY <4>1, <4>2 DEF Byte
      <3> QED
        BY <3>2, <3>3
    <2> QED
      BY <2>1, <2>2
  <1>2. CASE t \in 0 .. 255
    <2> HIDE DEF t
    <2>1. BitOf(U16(t), 8) = 0
      BY <1>2 DEF U16, BitOf
    <2>2. m = t + 256 * hi
      <3>1. m = U16(t + 256 * hi)
        BY <1>0
      <3> DEFINE e == t + 256 * hi
      <3>2. e \in Int /\ 0 <= e /\ e < 65536
        BY <1>2 DEF Byte
      <3> HIDE DEF e
      <3>3. U16(e) = e
        BY <3>2 DEF U16
      <3> QED
        BY <3>1, <3>3 DEF e
    <2>3. (t + 256 * hi) \div 256 = hi
      BY <1>2 DEF Byte
    <2> QED
      BY <2>1, <2>2, <2>3 DEF t
  <1>3. CASE t \in 256 .. 382
    <2> HIDE DEF t
    <2>1. BitOf(U16(t), 8) = 1
      BY <1>3 DEF U16, BitOf
    <2>2. m \div 256 # hi
      <3>1. m = (t + 256 * hi) % 65536
        BY <1>0 DEF U16
      <3> HIDE DEF m
      <3>2. CASE hi < 255
        <4>1. m = t + 256 * hi
          BY <1>3, <3>1, <3>2 DEF Byte
        <4>2. (t + 256 * hi) \div 256 = hi + 1
          BY <1>3, <3>2 DEF Byte
        <4> QED
          BY <4>1, <4>2 DEF Byte
      <3>3. CASE ~(hi < 255)
        <4>1. hi = 255 /\ (t + 256 * 255) % 65536 = t - 256
          BY <1>3, <3>3 DEF Byte
        <4>2. m = t - 256 /\ (t - 256) \div 256 = 0
          BY <1>3, <3>1, <4>1
        <4> QED
          BY <4>1, <4>2
      <3> QED
        BY <3>2, <3>3
    <2> QED
      BY <2>1, <2>2 DEF t
  <1> QED
    BY <1>0, <1>1, <1>2, <1>3

\* A word is its low and its high byte.
LEMMA WordParts ==
    ASSUME NEW a \in Word
    PROVE  U8(a) \in Byte /\ a \div 256 \in Byte /\ a = U8(a) + 256 * (a \div 256)
  <1>1. U8(a) \in Byte
    BY DEF Word, U8, Byte
  <1>2. a \div 256 \in Byte
    BY DEF Word, Byte
  <1>3. a = U8(a) + 256 * (a \div 256)
    BY DEF Word, U8
  <1> QED
    BY <1>1, <1>2, <1>3

\* The clocks of an instruction that depend on its operand, beyond those of the table.
Extra(u, c, d) ==
    IF c[2] \in Loads THEN PageClocks(u, c[3], d)
    ELSE IF c[2] \in Branches THEN BranchClocks(u, c[1], d) ELSE 0

\* The clocks that depend on the operand are a whole number.
LEMMA ExtraIsInt ==
    ASSUME NEW u, NEW v, Alike(u, v), NEW c \in Cases, NEW d \in Byte
    PROVE  Extra(u, c, d) \in Int
  <1>1. u.x \in Byte /\ u.y \in Byte
    BY DEF Alike, SameRegs
  <1>2. Low(u, d) \in Byte
    BY PointerSame DEF Byte
  <1>3. PageClocks(u, c[3], d) \in Int
    <2> DEFINE p == (d + u.x) \div 256
               q == (d + u.y) \div 256
               lo == Low(u, d)
               e == (lo + u.y) \div 256
    <2>1. p \in Int /\ q \in Int
      BY <1>1 DEF Byte
    <2>2. e \in Int
      <3>1. lo \in Int /\ u.y \in Int
        BY <1>1, <1>2 DEF Byte
      <3> HIDE DEF lo
      <3> QED
        BY <3>1
    <2>3. PageClocks(u, c[3], d) \in {p, q, e, 0}
      BY DEF PageClocks
    <2> HIDE DEF p, q, e
    <2> QED
      BY <2>1, <2>2, <2>3
  <1>4. BranchClocks(u, c[1], d) \in Int
    <2>1. u.pc \in Int
      BY DEF Alike, SameRegs, Word
    <2>2. S8(d) \in Int
      BY DEF S8, Byte
    <2> DEFINE e == U8(U16(u.pc + 1)) + S8(d)
    <2>3. e \in Int
      BY <2>1, <2>2 DEF U8, U16
    <2> HIDE DEF e
    <2>4. BitOf(U16(e), 8) \in Int
      BY <2>3 DEF BitOf, U16
    <2> QED
      BY <2>4 DEF BranchClocks, e
  <1> QED
    BY <1>3, <1>4 DEF Extra

\* The switch takes the clocks that depend on the operand, and no others.
LEMMA StepTime ==
    ASSUME NEW u, NEW v, Alike(u, v), OnTime(u), NEW c \in Cases, c[1] # 0,
           NEW d \in Byte, NEW msb
    PROVE  Clocked(Switch(u, c[1], d, msb), u, Extra(u, c, d))
  <1> DEFINE z == Switch(u, c[1], d, msb)
             k == Extra(u, c, d)
  <1>1. DOMAIN u = GFields /\ u.s_time \in Int
    BY DEF Alike, OnTime
  <1>2. k \in Int
    BY ExtraIsInt
  <1>3. CASE c[2] \in DOMAIN AluBase \cup {"LDX", "LDY"}
    <2>1. c[2] \in Loads
      BY <1>3 DEF AluBase, Loads
    <2>2. Spent(z, u, PageClocks(u, c[3], d))
      BY <1>1, <1>3, AluTime, LoadXYTime
    <2>3. Spent(z, u, k)
      BY <2>1, <2>2 DEF Extra
    <2> HIDE DEF z, k
    <2> QED
      BY <1>2, <2>3, ClockedForms DEF z, k
  <1>4. CASE c[2] \in Branches
    <2>1. c[2] \notin Loads
      BY <1>4 DEF Branches, Loads
    <2>2. Spent(z, u, BranchClocks(u, c[1], d))
      BY <1>1, <1>4, BranchTime
    <2>3. Spent(z, u, k)
      BY <1>4, <2>1, <2>2 DEF Extra
    <2> HIDE DEF z, k
    <2> QED
      BY <1>2, <2>3, ClockedForms DEF z, k
  <1>5. ASSUME k = 0, Clocked(z, u, 0) PROVE Clocked(z, u, k)
    BY <1>5
  <1>6. CASE c[2] \in {"CPX", "CPY", "BIT"}
    <2>1. c[3] \in {"imm", "zp", "abs"}
      BY <1>6, CompareRows
    <2>2. k = 0
      BY <1>6, <2>1 DEF Extra, Loads, PageClocks
    <2>3. Untimed(z, u)
      BY <1>1, <1>6, CompareXYTime
    <2>4. Clocked(z, u, 0)
      <3> HIDE DEF z
      <3> QED
        BY <2>3, ClockedForms
    <2> QED
      BY <1>5, <2>2, <2>4
  <1>7. CASE c[2] \in Stores \cup Modifies \cup Transfers \cup IncDecs
                      \cup {"JSR", "JMP", "RTS", "RTI"}
    <2>1. k = 0
      BY <1>7 DEF Extra, Loads, Branches, Stores, Modifies, Transfers, IncDecs
    <2>2. Untimed(z, u)
      BY <1>1, <1>7, StoreTime, ModifyTime, RegisterTime, JumpTime
    <2>3. Clocked(z, u, 0)
      <3> HIDE DEF z
      <3> QED
        BY <2>2, ClockedForms
    <2> QED
      BY <1>5, <2>1, <2>3
  <1>8. CASE c[2] \in {"PHA", "PLA", "PHP", "PLP", "SEC", "CLC", "CLV", "CLD", "SED", "CLI", "SEI",
                       "NOP"}
    <2>1. k = 0
      BY <1>8 DEF Extra, Loads, Branches
    <2>2. Clocked(z, u, 0)
      BY <1>1, <1>8, StackTime, FlagTime
    <2> QED
      BY <1>5, <2>1, <2>2
  <1>9. c[2] # "BRK"
    BY Classes
  <1> HIDE DEF z, k
  <1> QED
    BY <1>3, <1>4, <1>6, <1>7, <1>8, <1>9, ModeRows DEF z, k

\* What game-music-emu adds for a page crossed is what the rule of the 6502 adds.
LEMMA PagePenalty ==
    ASSUME NEW u, NEW v, Alike(u, v), NEW c \in Cases, c[2] \in Loads,
           NEW d \in Byte, NEW msb \in Byte,
           NEW w, w.x = v.x, w.y = v.y, w.mem = v.mem
    PROVE  PageClocks(u, c[3], d) = Penalty(w, c[1], d, msb)
  <1> DEFINE mode == c[3]
             to == Addr(w, mode, d, msb)
  <1>1. CaseOf[c[1]] = c /\ c[2] \notin Branches
    BY CaseIs DEF Loads, Branches
  <1>2. v.x \in Byte /\ v.y \in Byte /\ u.x = v.x /\ u.y = v.y
    BY DEF Alike, SameRegs
  <1>3. CASE mode \in {"abx", "aby"}
    <2> DEFINE from == d + 256 * msb
               i == IF mode = "abx" THEN v.x ELSE v.y
    <2>1. Penalty(w, c[1], d, msb) = IF to \div 256 = from \div 256 THEN 0 ELSE 1
      BY <1>1, <1>3 DEF Penalty
    <2>2. to = U16(d + 256 * msb + i)
      BY <1>3 DEF Addr
    <2>3. PageClocks(u, mode, d) = (d + i) \div 256
      BY <1>2, <1>3 DEF PageClocks
    <2>4. i \in Byte
      BY <1>2
    <2> HIDE DEF i, to
    <2>5. (d + i) \div 256 = IF U16(d + 256 * msb + i) \div 256 = (d + 256 * msb) \div 256
                             THEN 0 ELSE 1
      BY <2>4, PageCrossed
    <2> QED
      BY <2>1, <2>2, <2>3, <2>5
  <1>4. CASE mode = "izy"
    <2> DEFINE from == Pointer(w, d)
               lo == Low(u, d)
               hi == Low(u, d + 1)
               i == v.y
    <2>1. Penalty(w, c[1], d, msb) = IF to \div 256 = from \div 256 THEN 0 ELSE 1
      BY <1>1, <1>4 DEF Penalty
    <2>2. to = U16(from + i)
      BY <1>4 DEF Addr
    <2>3. PageClocks(u, mode, d) = (lo + i) \div 256
      BY <1>2, <1>4 DEF PageClocks
    <2>4. lo \in Byte /\ hi \in Byte
      <3>1. SameMemory(u.mem, v.mem) /\ d \in Int /\ d + 1 \in Int
        BY DEF Alike, Byte
      <3> QED
        BY <3>1, LowSame
    <2>5. from = 256 * hi + lo
      <3>1. d \in Int
        BY DEF Byte
      <3>2. Pointer(w, d) = Pointer(v, d)
        BY DEF Pointer
      <3> QED
        BY <3>1, <3>2, PointerSame
    <2> HIDE DEF from, lo, hi, i, to
    <2>6. i \in Byte
      BY <1>2 DEF i
    <2>7. (lo + i) \div 256 = IF U16(lo + 256 * hi + i) \div 256 = (lo + 256 * hi) \div 256
                              THEN 0 ELSE 1
      BY <2>4, <2>6, PageCrossed
    <2>8. from = lo + 256 * hi
      <3>1. lo \in Int /\ hi \in Int
        BY <2>4 DEF Byte
      <3> QED
        BY <2>5, <3>1
    <2> QED
      BY <2>1, <2>2, <2>3, <2>7, <2>8
  <1>5. CASE mode \notin {"abx", "aby", "izy"}
    BY <1>1, <1>5 DEF Penalty, PageClocks
  <1> QED
    BY <1>3, <1>4, <1>5

\* What it adds and takes for a branch is what the rule of the 6502 adds.
LEMMA BranchPenalty ==
    ASSUME NEW u, NEW v, Alike(u, v), NEW c \in Cases, c[2] \in Branches,
           NEW d \in Byte, NEW msb \in Byte,
           NEW w, w.p = v.p, w.pc \in Word, u.pc = U16(w.pc + 1)
    PROVE  BranchClocks(u, c[1], d) + 1 = Penalty(w, c[1], d, msb)
  <1> DEFINE next == U16(w.pc + 2)
             s == S8(d)
  <1>1. CaseOf[c[1]] = c /\ c[2] \notin Loads
    BY CaseIs DEF Loads, Branches
  <1>2. U16(u.pc + 1) = next
    <2>1. w.pc \in Int /\ 1 \in Int /\ 1 + 1 = 2
      BY DEF Word
    <2> QED
      BY <2>1, SkipTwice
  <1>3. Taken(u, c[1]) <=> BranchTaken(w, c[2])
    BY TakenSame
  <1>4. CASE ~Taken(u, c[1])
    <2>1. Penalty(w, c[1], d, msb) = 0
      BY <1>1, <1>3, <1>4 DEF Penalty
    <2>2. BranchClocks(u, c[1], d) = -1
      BY <1>4 DEF BranchClocks
    <2> QED
      BY <2>1, <2>2
  <1>5. CASE Taken(u, c[1])
    <2> DEFINE lo == U8(next)
               hi == next \div 256
    <2>1. Penalty(w, c[1], d, msb) = IF U16(next + s) \div 256 = hi THEN 1 ELSE 2
      BY <1>1, <1>3, <1>5 DEF Penalty
    <2>2. BranchClocks(u, c[1], d) = BitOf(U16(lo + s), 8)
      BY <1>2, <1>5 DEF BranchClocks
    <2>3. next \in Word
      <3> DEFINE e == w.pc + 2
      <3>1. e \in Int
        BY DEF Word
      <3> HIDE DEF e
      <3>2. U16(e) \in Word
        BY <3>1 DEF U16, Word
      <3> QED
        BY <3>2 DEF e
    <2>4. s \in -128 .. 127
      BY DEF S8, Byte
    <2> HIDE DEF next, s
    <2>5. lo \in Byte /\ hi \in Byte /\ next = lo + 256 * hi
      BY <2>3, WordParts
    <2> HIDE DEF lo, hi
    <2>6. BitOf(U16(lo + s), 8) = IF U16(lo + 256 * hi + s) \div 256 = hi THEN 0 ELSE 1
      BY <2>4, <2>5, PageLeft
    <2> QED
      BY <2>1, <2>2, <2>5, <2>6
  <1> QED
    BY <1>4, <1>5

\* The clocks of the table and those of the operand are the cycles and the penalty.
LEMMA PenaltyIs ==
    ASSUME NEW u0, NEW v0, Alike(u0, v0), NEW c \in Cases, c[1] # 0,
           NEW d \in Byte, NEW msb \in Byte
    PROVE  /\ Clocks(c[1]) + Extra(Begun(u0, Clocks(c[1])), c, d) = c[4] + Penalty(v0, c[1], d, msb)
           /\ c[4] \in Int /\ Penalty(v0, c[1], d, msb) \in Int
  <1> DEFINE u == Begun(u0, Clocks(c[1]))
             v == Fetched(v0, c)
             p == Penalty(v0, c[1], d, msb)
             e == Extra(u, c, d)
  <1>1. Alike(u, v)
    BY FetchSame
  <1>2. v.x = v0.x /\ v.y = v0.y /\ v.mem = v0.mem /\ v.p = v0.p
    BY DEF Fetched, Alike, NFields
  <1>3. v0.pc \in Word /\ u.pc = U16(v0.pc + 1)
    BY DEF Begun, Alike, SameRegs, GFields
  <1>4. c[3] = "rel" <=> c[2] \in Branches
    BY DEF Cases, Branches
  <1>5. Clocks(c[1]) = c[4] + (IF c[2] \in Branches THEN 1 ELSE 0) /\ c[4] \in Int
    BY <1>4, ClockRows
  <1>6. e \in Int
    BY <1>1, ExtraIsInt
  <1> HIDE DEF u, v
  <1>7. e + (IF c[2] \in Branches THEN 1 ELSE 0) = p
    <2>1. CASE c[2] \in Loads
      <3>1. c[2] \notin Branches /\ e = PageClocks(u, c[3], d)
        BY <2>1 DEF Extra, Loads, Branches
      <3>2. PageClocks(u, c[3], d) = p
        BY <1>1, <1>2, <2>1, PagePenalty
      <3> HIDE DEF e, p
      <3> QED
        BY <1>6, <3>1, <3>2
    <2>2. CASE c[2] \in Branches
      <3>1. c[2] \notin Loads
        BY <2>2 DEF Loads, Branches
      <3>2. e = BranchClocks(u, c[1], d)
        BY <2>2, <3>1 DEF Extra
      <3>3. BranchClocks(u, c[1], d) + 1 = p
        BY <1>1, <1>2, <1>3, <2>2, BranchPenalty
      <3> QED
        BY <2>2, <3>2, <3>3
    <2>3. CASE c[2] \notin Loads \cup Branches
      <3>1. e = 0
        BY <2>3 DEF Extra
      <3>2. CaseOf[c[1]] = c
        BY CaseIs
      <3>3. p = 0
        BY <2>3, <3>2 DEF Penalty
      <3> QED
        BY <2>3, <3>1, <3>3
    <2> QED
      BY <2>1, <2>2, <2>3
  <1> HIDE DEF e, p
  <1>8. Clocks(c[1]) + e = c[4] + p /\ p \in Int
    BY <1>5, <1>6, <1>7
  <1> QED
    BY <1>5, <1>8 DEF u, e, p

-----------------------------------------------------------------------------
(* The cycles of the other core *)

\* The cycles of the other core are those of its switch, whatever the instruction does.
Timeless(h, w) == DOMAIN h = NFields /\ h.cycles = w.cycles

\* The parts that nes_cpu_step is made of leave its cycles alone.
LEMMA TimelessSteps ==
    ASSUME NEW w, NEW f, Timeless(f, w), NEW i, NEW k, NEW on
    PROVE  /\ Timeless(UpdateNz(f, k), w) /\ Timeless(SetFlag(f, i, on), w)
           /\ Timeless(MemWrite(f, i, k), w)
           /\ Timeless(Push8(f, k), w) /\ Timeless(Pull(f, i), w) /\ Timeless(SetP(f, k), w)
           /\ Timeless([f EXCEPT !.a = k], w) /\ Timeless([f EXCEPT !.x = k], w)
           /\ Timeless([f EXCEPT !.y = k], w) /\ Timeless([f EXCEPT !.sp = k], w)
           /\ Timeless([f EXCEPT !.pc = k], w)
  <1> USE DEF Timeless, NFields
  <1>1. Timeless(UpdateNz(f, k), w) /\ Timeless(SetFlag(f, i, on), w) /\ Timeless(SetP(f, k), w)
    BY DEF UpdateNz, SetFlag, SetP
  <1>2. Timeless(MemWrite(f, i, k), w)
    BY DEF MemWrite
  <1>3. Timeless(Push8(f, k), w) /\ Timeless(Pull(f, i), w)
    BY DEF Push8, Pull
  <1>4. /\ Timeless([f EXCEPT !.a = k], w) /\ Timeless([f EXCEPT !.x = k], w)
        /\ Timeless([f EXCEPT !.y = k], w) /\ Timeless([f EXCEPT !.sp = k], w)
        /\ Timeless([f EXCEPT !.pc = k], w)
    OBVIOUS
  <1> QED
    BY <1>1, <1>2, <1>3, <1>4

\* Additions and comparisons leave the cycles alone.
LEMMA CompareTimeless ==
    ASSUME NEW w, DOMAIN w = NFields, NEW k, NEW reg
    PROVE  Timeless(OpAdc(w, k), w) /\ Timeless(OpCmp(w, reg, k), w)
  <1>0. Timeless(w, w)
    BY DEF Timeless
  <1>1. Timeless(OpAdc(w, k), w)
    <2> DEFINE sum == w.a + k + (IF "C" \in w.p THEN 1 ELSE 0)
               e == U8(sum)
               q == sum > 255
               p == BitOf(w.a, 7) = BitOf(k, 7) /\ BitOf(w.a, 7) # BitOf(sum, 7)
               f == [w EXCEPT !.a = e]
    <2>1. OpAdc(w, k) = UpdateNz(SetFlag(SetFlag(f, "C", q), "V", p), e)
      BY DEF OpAdc
    <2> HIDE DEF e, q, p
    <2>2. Timeless(f, w)
      BY <1>0, TimelessSteps
    <2> HIDE DEF f
    <2>3. Timeless(SetFlag(f, "C", q), w)
      BY <2>2, TimelessSteps
    <2>4. Timeless(SetFlag(SetFlag(f, "C", q), "V", p), w)
      BY <2>3, TimelessSteps
    <2>5. Timeless(UpdateNz(SetFlag(SetFlag(f, "C", q), "V", p), e), w)
      BY <2>4, TimelessSteps
    <2> QED
      BY <2>1, <2>5
  <1>2. Timeless(OpCmp(w, reg, k), w)
    <2> DEFINE q == reg >= k
               e == U8(reg - k)
    <2>1. OpCmp(w, reg, k) = UpdateNz(SetFlag(w, "C", q), e)
      BY DEF OpCmp
    <2> HIDE DEF q, e
    <2>2. Timeless(SetFlag(w, "C", q), w)
      BY <1>0, TimelessSteps
    <2>3. Timeless(UpdateNz(SetFlag(w, "C", q), e), w)
      BY <2>2, TimelessSteps
    <2> QED
      BY <2>1, <2>3
  <1> QED
    BY <1>1, <1>2

\* An instruction that reads its operand leaves the cycles alone.
LEMMA LoadTimeless ==
    ASSUME NEW w, DOMAIN w = NFields, NEW ins \in Loads, NEW k
    PROVE  Timeless(WithOperand(w, ins, k), w)
  <1>0. Timeless(w, w)
    BY DEF Timeless
  <1>1. CASE ins \in {"ADC", "SBC", "CMP", "CPX", "CPY"}
    BY <1>1, CompareTimeless DEF WithOperand
  <1>2. ASSUME NEW e, NEW j
        PROVE  /\ Timeless(UpdateNz([w EXCEPT !.a = e], j), w)
               /\ Timeless(UpdateNz([w EXCEPT !.x = e], j), w)
               /\ Timeless(UpdateNz([w EXCEPT !.y = e], j), w)
    <2>1. Timeless([w EXCEPT !.a = e], w) /\ Timeless([w EXCEPT !.x = e], w)
          /\ Timeless([w EXCEPT !.y = e], w)
      BY <1>0, TimelessSteps
    <2> QED
      BY <2>1, TimelessSteps
  <1>3. CASE ins \in {"LDA", "LDX", "LDY"}
    BY <1>2, <1>3 DEF WithOperand
  <1>4. CASE ins \in {"AND", "ORA", "EOR"}
    <2> DEFINE q1 == AndB(w.a, k)
               q2 == OrB(w.a, k)
               q3 == XorB(w.a, k)
    <2>1. /\ ins = "AND" => WithOperand(w, ins, k) = UpdateNz([w EXCEPT !.a = q1], q1)
          /\ ins = "ORA" => WithOperand(w, ins, k) = UpdateNz([w EXCEPT !.a = q2], q2)
          /\ ins = "EOR" => WithOperand(w, ins, k) = UpdateNz([w EXCEPT !.a = q3], q3)
      BY DEF WithOperand
    <2> HIDE DEF q1, q2, q3
    <2> QED
      BY <1>2, <1>4, <2>1
  <1>5. CASE ins = "BIT"
    <2> DEFINE p1 == AndB(w.a, k) = 0
               p2 == BitOf(k, 6) = 1
               p3 == BitOf(k, 7) = 1
    <2>1. WithOperand(w, ins, k) = SetFlag(SetFlag(SetFlag(w, "Z", p1), "V", p2), "N", p3)
      BY <1>5 DEF WithOperand
    <2> HIDE DEF p1, p2, p3
    <2>2. Timeless(SetFlag(w, "Z", p1), w)
      BY <1>0, TimelessSteps
    <2>3. Timeless(SetFlag(SetFlag(w, "Z", p1), "V", p2), w)
      BY <2>2, TimelessSteps
    <2>4. Timeless(SetFlag(SetFlag(SetFlag(w, "Z", p1), "V", p2), "N", p3), w)
      BY <2>3, TimelessSteps
    <2> QED
      BY <2>1, <2>4
  <1> QED
    BY <1>1, <1>3, <1>4, <1>5 DEF Loads

\* Stores, and what modifies a byte, leave the cycles alone.
LEMMA ModifyTimeless ==
    ASSUME NEW w, DOMAIN w = NFields, NEW ins, NEW a
    PROVE  Timeless(Modify(w, ins, a), w) /\ Timeless(ShiftAcc(w, ins), w)
           /\ Timeless(StoreReg(w, ins, a), w)
  <1>0. Timeless(w, w)
    BY DEF Timeless
  <1>1. Timeless(Modify(w, ins, a), w)
    <2> DEFINE v == At(w.mem, a)
               s == ShiftResult(ins, v, IF "C" \in w.p THEN 1 ELSE 0)
               new == IF ins = "INC" THEN U8(v + 1) ELSE IF ins = "DEC" THEN U8(v - 1) ELSE s.v
               q == s.c = 1
               h == IF ins \in {"INC", "DEC"} THEN w ELSE SetFlag(w, "C", q)
    <2>1. Modify(w, ins, a) = UpdateNz(MemWrite(h, a, new), new)
      BY DEF Modify
    <2> HIDE DEF new, q
    <2>2. Timeless(h, w)
      BY <1>0, TimelessSteps
    <2> HIDE DEF h
    <2>3. Timeless(MemWrite(h, a, new), w)
      BY <2>2, TimelessSteps
    <2>4. Timeless(UpdateNz(MemWrite(h, a, new), new), w)
      BY <2>3, TimelessSteps
    <2> QED
      BY <2>1, <2>4
  <1>2. Timeless(ShiftAcc(w, ins), w)
    <2> DEFINE s == ShiftResult(ins, w.a, IF "C" \in w.p THEN 1 ELSE 0)
               e == s.v
               q == s.c = 1
               f == SetFlag(w, "C", q)
    <2>1. ShiftAcc(w, ins) = UpdateNz([f EXCEPT !.a = e], e)
      BY DEF ShiftAcc
    <2> HIDE DEF e, q
    <2>2. Timeless(f, w)
      BY <1>0, TimelessSteps
    <2> HIDE DEF f
    <2>3. Timeless([f EXCEPT !.a = e], w)
      BY <2>2, TimelessSteps
    <2>4. Timeless(UpdateNz([f EXCEPT !.a = e], e), w)
      BY <2>3, TimelessSteps
    <2> QED
      BY <2>1, <2>4
  <1>3. Timeless(StoreReg(w, ins, a), w)
    BY <1>0, TimelessSteps DEF StoreReg
  <1> QED
    BY <1>1, <1>2, <1>3

\* The transfers, increments and decrements leave the cycles alone.
LEMMA RegisterTimeless ==
    ASSUME NEW w, DOMAIN w = NFields, NEW ins
    PROVE  /\ ins \in Transfers => Timeless(Transfer(w, ins), w)
           /\ Timeless(IncDec(w, ins), w)
  <1>0. Timeless(w, w)
    BY DEF Timeless
  <1>1. ASSUME NEW e, NEW j
        PROVE  /\ Timeless(UpdateNz([w EXCEPT !.a = e], j), w)
               /\ Timeless(UpdateNz([w EXCEPT !.x = e], j), w)
               /\ Timeless(UpdateNz([w EXCEPT !.y = e], j), w)
    <2>1. Timeless([w EXCEPT !.a = e], w) /\ Timeless([w EXCEPT !.x = e], w)
          /\ Timeless([w EXCEPT !.y = e], w)
      BY <1>0, TimelessSteps
    <2> QED
      BY <2>1, TimelessSteps
  <1>2. ins \in Transfers => Timeless(Transfer(w, ins), w)
    <2>1. /\ ins = "TAX" => Transfer(w, ins) = UpdateNz([w EXCEPT !.x = w.a], w.a)
          /\ ins = "TXA" => Transfer(w, ins) = UpdateNz([w EXCEPT !.a = w.x], w.x)
          /\ ins = "TAY" => Transfer(w, ins) = UpdateNz([w EXCEPT !.y = w.a], w.a)
          /\ ins = "TYA" => Transfer(w, ins) = UpdateNz([w EXCEPT !.a = w.y], w.y)
          /\ ins = "TSX" => Transfer(w, ins) = UpdateNz([w EXCEPT !.x = w.sp], w.sp)
          /\ ins = "TXS" => Transfer(w, ins) = [w EXCEPT !.sp = w.x]
      BY DEF Transfer
    <2>2. Timeless([w EXCEPT !.sp = w.x], w)
      BY <1>0, TimelessSteps
    <2> QED
      BY <1>1, <2>1, <2>2 DEF Transfers
  <1>3. Timeless(IncDec(w, ins), w)
    <2> DEFINE d == IF ins \in {"INX", "INY"} THEN 1 ELSE -1
               p == U8(w.x + d)
               q == U8(w.y + d)
    <2>1. IncDec(w, ins) = IF ins \in {"INX", "DEX"} THEN UpdateNz([w EXCEPT !.x = p], p)
                           ELSE UpdateNz([w EXCEPT !.y = q], q)
      BY DEF IncDec
    <2> HIDE DEF p, q
    <2> QED
      BY <1>1, <2>1
  <1> QED
    BY <1>2, <1>3

\* The other instructions leave the cycles alone.
LEMMA OtherTimeless ==
    ASSUME NEW w, DOMAIN w = NFields, NEW d, NEW msb,
           NEW ins \in {"PHA", "PLA", "PHP", "PLP", "JSR", "JMP", "RTS", "RTI", "NOP",
                        "SEC", "CLC", "CLV", "CLD", "SED", "CLI", "SEI"}
    PROVE  Timeless(Other(w, ins, d, msb), w)
  <1> DEFINE z == Other(w, ins, d, msb)
             word == d + 256 * msb
  <1>0. Timeless(w, w)
    BY DEF Timeless
  <1>1. CASE ins \in {"CLC", "SEC", "CLI", "SEI", "CLD", "SED", "CLV", "NOP"}
    <2>1. ASSUME NEW f, NEW on PROVE Timeless(SetFlag(w, f, on), w)
      BY <1>0, TimelessSteps
    <2>2. /\ ins = "CLC" => z = SetFlag(w, "C", FALSE)
          /\ ins = "SEC" => z = SetFlag(w, "C", TRUE)
          /\ ins = "CLI" => z = SetFlag(w, "I", FALSE)
          /\ ins = "SEI" => z = SetFlag(w, "I", TRUE)
          /\ ins = "CLD" => z = SetFlag(w, "D", FALSE)
          /\ ins = "SED" => z = SetFlag(w, "D", TRUE)
          /\ ins = "CLV" => z = SetFlag(w, "V", FALSE)
          /\ ins = "NOP" => z = w
      BY DEF Other
    <2> HIDE DEF z
    <2>3. Timeless(z, w)
      BY <1>0, <1>1, <2>1, <2>2
    <2> QED
      BY <2>3 DEF z
  <1>2. CASE ins \in {"PHA", "PHP"}
    <2>1. ASSUME NEW k PROVE Timeless(Push8(w, k), w)
      BY <1>0, TimelessSteps
    <2>2. \E k : z = Push8(w, k)
      BY <1>2 DEF Other
    <2> QED
      BY <2>1, <2>2
  <1>3. CASE ins = "PLA"
    <2> DEFINE k == Pulled(w, 1)
               f == Pull(w, 1)
    <2>1. z = UpdateNz([f EXCEPT !.a = k], k)
      BY <1>3 DEF Other
    <2> HIDE DEF k, f, z
    <2>2. Timeless(f, w)
      BY <1>0, TimelessSteps DEF f
    <2>3. Timeless([f EXCEPT !.a = k], w)
      BY <2>2, TimelessSteps
    <2>4. Timeless(UpdateNz([f EXCEPT !.a = k], k), w)
      BY <2>3, TimelessSteps
    <2> QED
      BY <2>1, <2>4 DEF z
  <1>4. CASE ins = "PLP"
    <2>1. z = SetP(Pull(w, 1), Pulled(w, 1))
      BY <1>4 DEF Other
    <2>2. Timeless(Pull(w, 1), w)
      BY <1>0, TimelessSteps
    <2>3. Timeless(SetP(Pull(w, 1), Pulled(w, 1)), w)
      BY <2>2, TimelessSteps
    <2> QED
      BY <2>1, <2>3
  <1>5. ASSUME NEW f, Timeless(f, w), NEW k PROVE Timeless([f EXCEPT !.pc = k], w)
    BY <1>5, TimelessSteps
  <1>6. CASE ins = "JMP"
    <2>1. z = [w EXCEPT !.pc = word]
      BY <1>6 DEF Other
    <2>2. Timeless([w EXCEPT !.pc = word], w)
      BY <1>0, <1>5
    <2> QED
      BY <2>1, <2>2
  <1>7. CASE ins = "JSR"
    <2> DEFINE ret == U16(w.pc - 1)
               i == ret \div 256
               j == U8(ret)
               f == Push8(Push8(w, i), j)
    <2>1. z = [f EXCEPT !.pc = word]
      BY <1>7 DEF Other
    <2> HIDE DEF z, i, j, word
    <2>2. Timeless(Push8(w, i), w)
      BY <1>0, TimelessSteps
    <2>3. Timeless(f, w)
      BY <2>2, TimelessSteps
    <2>4. Timeless([f EXCEPT !.pc = word], w)
      BY <1>5, <2>3
    <2> QED
      BY <2>1, <2>4 DEF z
  <1>8. CASE ins = "RTS"
    <2> DEFINE k == U16(Pulled(w, 1) + 256 * Pulled(w, 2) + 1)
    <2>1. z = [Pull(w, 2) EXCEPT !.pc = k]
      BY <1>8 DEF Other
    <2> HIDE DEF z, k
    <2>2. Timeless(Pull(w, 2), w)
      BY <1>0, TimelessSteps
    <2>3. Timeless([Pull(w, 2) EXCEPT !.pc = k], w)
      BY <1>5, <2>2
    <2> QED
      BY <2>1, <2>3 DEF z
  <1>9. CASE ins = "RTI"
    <2> DEFINE k == Pulled(w, 2) + 256 * Pulled(w, 3)
               i == Pulled(w, 1)
               f == SetP(Pull(w, 3), i)
    <2>1. z = [f EXCEPT !.pc = k]
      BY <1>9 DEF Other
    <2> HIDE DEF z, k, i
    <2>2. Timeless(Pull(w, 3), w)
      BY <1>0, TimelessSteps
    <2>3. Timeless(f, w)
      BY <2>2, TimelessSteps
    <2>4. Timeless([f EXCEPT !.pc = k], w)
      BY <1>5, <2>3
    <2> QED
      BY <2>1, <2>4 DEF z
  <1> QED
    BY <1>1, <1>2, <1>3, <1>4, <1>6, <1>7, <1>8, <1>9

\* nes_cpu_step counts the cycles of its switch, whatever the instruction does.
LEMMA CyclesOf ==
    ASSUME NEW u0, NEW v0, Alike(u0, v0), NEW c \in Cases, c[1] # 0, NEW d, NEW msb
    PROVE  NesCpuStep(v0, c[1], d, msb).cycles = v0.cycles + c[4]
  <1> DEFINE v == Fetched(v0, c)
             w == Decoded(v, c)
             r0 == Reading(v, c, d, msb)
             x == NesCpuStep(v0, c[1], d, msb)
             ins == c[2]
             mode == c[3]
             a == Addr(v, mode, d, msb)
             k == Value(v, mode, d, msb)
  <1>1. Done(v, c, d, msb, x)
    BY StepIs DEF Alike
  <1>2. DOMAIN v = NFields /\ v.cycles = v0.cycles + c[4]
    BY DEF Alike, Fetched, NFields
  <1> HIDE DEF v, x
  <1>3. DOMAIN w = NFields /\ w.cycles = v.cycles
    BY <1>2 DEF Decoded, NFields
  <1>4. DOMAIN r0 = NFields /\ r0.cycles = w.cycles
    BY <1>2, <1>3 DEF Reading, NFields
  <1>5. /\ ins \in Loads => x = WithOperand(r0, ins, k)
        /\ ins \in Stores => x = StoreReg(w, ins, a)
        /\ ins \in Modifies /\ mode # "acc" => x = Modify(r0, ins, a)
        /\ ins \in Modifies /\ mode = "acc" => x = ShiftAcc(w, ins)
        /\ ins \in Transfers => x = Transfer(w, ins)
        /\ ins \in IncDecs => x = IncDec(w, ins)
        /\ ins \in Branches =>
              x = IF BranchTaken(w, ins) THEN [w EXCEPT !.pc = U16(@ + S8(d))] ELSE w
        /\ ins = "JMP" /\ mode = "ind" => x = Jumped(w, d, msb)
        /\ ins \in {"PHA", "PLA", "PHP", "PLP", "JSR", "RTS", "RTI", "NOP",
                    "SEC", "CLC", "CLV", "CLD", "SED", "CLI", "SEI"} => x = Other(w, ins, d, msb)
        /\ ins = "JMP" /\ mode = "abs" => x = Other(w, ins, d, msb)
    BY <1>1 DEF Done, w, r0
  <1> HIDE DEF w, r0, a, k
  <1>6. Timeless(w, w) /\ Timeless(r0, w)
    BY <1>3, <1>4 DEF Timeless
  <1> SUFFICES Timeless(x, w)
    BY <1>2, <1>3 DEF Timeless, x
  <1>7. ASSUME Timeless(x, r0) PROVE Timeless(x, w)
    BY <1>4, <1>7 DEF Timeless
  <1>8. CASE ins \in Loads
    <2>1. Timeless(WithOperand(r0, ins, k), r0)
      BY <1>4, <1>8, LoadTimeless
    <2> QED
      BY <1>5, <1>7, <1>8, <2>1
  <1>9. CASE ins \in Stores \cup Modifies
    <2>1. /\ Timeless(StoreReg(w, ins, a), w) /\ Timeless(ShiftAcc(w, ins), w)
          /\ Timeless(Modify(r0, ins, a), r0)
      BY <1>3, <1>4, ModifyTimeless
    <2> QED
      BY <1>5, <1>7, <1>9, <2>1
  <1>10. CASE ins \in Transfers \cup IncDecs
    <2>1. /\ ins \in Transfers => Timeless(Transfer(w, ins), w)
          /\ Timeless(IncDec(w, ins), w)
      BY <1>3, RegisterTimeless
    <2> QED
      BY <1>5, <1>10, <2>1
  <1>11. CASE ins \in Branches
    <2> DEFINE pc == U16(w.pc + S8(d))
    <2>1. Timeless([w EXCEPT !.pc = pc], w)
      <3> HIDE DEF pc
      <3> QED
        BY <1>6, TimelessSteps
    <2> QED
      BY <1>5, <1>6, <1>11, <2>1
  <1>12. CASE ins = "JMP" /\ mode = "ind"
    <2>1. x = Jumped(w, d, msb)
      BY <1>5, <1>12
    <2>2. Timeless(Jumped(w, d, msb), w)
      BY <1>3 DEF Jumped, Timeless, NFields
    <2> QED
      BY <2>1, <2>2
  <1>13. CASE \/ ins \in {"PHA", "PLA", "PHP", "PLP", "JSR", "RTS", "RTI", "NOP",
                         "SEC", "CLC", "CLV", "CLD", "SED", "CLI", "SEI"}
              \/ ins = "JMP" /\ mode = "abs"
    <2>1. x = Other(w, ins, d, msb)
      BY <1>5, <1>13
    <2>2. Timeless(Other(w, ins, d, msb), w)
      BY <1>3, <1>13, OtherTimeless
    <2> QED
      BY <2>1, <2>2
  <1>14. ins # "BRK"
    BY Classes
  <1>15. ins = "JMP" => mode \in {"ind", "abs"}
    BY DEF Cases
  <1> QED
    BY <1>8, <1>9, <1>10, <1>11, <1>12, <1>13, <1>14, <1>15, ModeRows

-----------------------------------------------------------------------------
(* The clocks *)

\* The clock of game-music-emu's core, what it is made of, and how far it is from a run's end.
InTime ==
    ~apart => /\ OnTime(g) /\ n.cycles \in Int /\ late \in Int
              /\ Time(g) = n.cycles + late
              /\ -32767 <= g.s_time /\ g.s_time <= 8
              /\ running => g.base = g.end_time

\* An official instruction takes game-music-emu its cycles and the penalty.
LEMMA GmeTime ==
    ASSUME NEW u0, NEW v0, Alike(u0, v0), OnTime(u0), NEW c \in Cases, c[1] # 0,
           NEW d \in Byte, NEW msb \in Byte
    PROVE  Clocked(GmeStep(u0, c[1], d, msb), u0, c[4] + Penalty(v0, c[1], d, msb))
  <1> DEFINE t == Clocks(c[1])
             u == Begun(u0, t)
             v == Fetched(v0, c)
             z == Switch(u, c[1], d, msb)
             e == Extra(u, c, d)
             p == c[4] + Penalty(v0, c[1], d, msb)
  <1>1. GmeStep(u0, c[1], d, msb) = z
    BY DEF GmeStep, Begun
  <1>2. Alike(u, v)
    BY FetchSame
  <1>3. t \in Int
    <2>1. (IF c[3] = "rel" THEN 1 ELSE 0) \in Int /\ c[4] \in Int
      BY ClockRows
    <2> QED
      BY <2>1, ClockRows
  <1>4. t + e = p
    BY PenaltyIs
  <1>5. e \in Int
    BY <1>2, ExtraIsInt
  <1> HIDE DEF t, e, p, v
  <1>6. /\ u.s_time = u0.s_time + t /\ u.base = u0.base /\ u.end_time = u0.end_time
    BY DEF Begun, Alike, GFields
  <1> HIDE DEF u
  <1>7. OnTime(u) /\ Time(u) = Time(u0) + t
    BY <1>3, <1>6 DEF OnTime, Time
  <1>8. Clocked(z, u, e)
    BY <1>2, <1>7, StepTime DEF e
  <1> HIDE DEF z
  <1>9. Time(u0) \in Int
    BY DEF OnTime, Time
  <1>10. Time(z) = Time(u0) + p
    BY <1>3, <1>4, <1>5, <1>7, <1>8, <1>9 DEF Clocked
  <1>11. Clocked(z, u0, p)
    BY <1>6, <1>8, <1>10 DEF Clocked
  <1> QED
    BY <1>1, <1>11 DEF p

\* An instruction costs at most two clocks more than the table says.
LEMMA PenaltyBound ==
    ASSUME NEW w, NEW op, NEW d, NEW msb
    PROVE  Penalty(w, op, d, msb) \in 0 .. 2
  BY DEF Penalty

\* The start of a run moves the base of the clock and keeps the time.
LEMMA StartTime ==
    ASSUME NEW u, DOMAIN u = GFields, OnTime(u), NEW k, NEW t \in Int
    PROVE  /\ OnTime(TakenOver(u, k, t)) /\ Time(TakenOver(u, k, t)) = Time(u)
           /\ TakenOver(u, k, t).base = t /\ TakenOver(u, k, t).end_time = t
  <1> DEFINE f == SetEndTime(u, t)
             sp == SetSp(k.sp)
             h == [f EXCEPT !.pc = k.pc, !.a = k.a, !.x = k.x, !.y = k.y, !.sp = sp]
             i == k.status
  <1>1. TakenOver(u, k, t) = SetStatus(h, i)
    BY DEF TakenOver
  <1>2. /\ DOMAIN f = GFields /\ f.s_time = u.s_time + (u.base - t)
        /\ f.base = t /\ f.end_time = t
    BY DEF SetEndTime, GFields
  <1> HIDE DEF f, sp, i
  <1>3. OnTime(f) /\ Time(f) = Time(u) + 0
    BY <1>2 DEF OnTime, Time
  <1>4. Untimed(h, f)
    BY <1>2 DEF Untimed, GFields
  <1> HIDE DEF h
  <1>5. Untimed(SetStatus(h, i), h)
    BY <1>4, UntimedSteps DEF Untimed
  <1>6. Untimed(SetStatus(h, i), f)
    BY <1>4, <1>5 DEF Untimed
  <1>7. /\ OnTime(SetStatus(h, i)) /\ Time(SetStatus(h, i)) = Time(u)
        /\ SetStatus(h, i).base = t /\ SetStatus(h, i).end_time = t
    BY <1>2, <1>3, <1>6 DEF Untimed, OnTime, Time
  <1> QED
    BY <1>1, <1>7

\* All clocks start at 0.
LEMMA InitInTime == Init => InTime
  <1> SUFFICES ASSUME Init PROVE InTime
    OBVIOUS
  <1>1. n.cycles = 0
    BY DEF Init
  <1>2. g.s_time = 0 /\ g.base = 0 /\ g.end_time = 0 /\ late = 0
    BY DEF Init
  <1> QED
    BY <1>1, <1>2 DEF Init, InTime, OnTime, Time

\* An instruction that the tune holds keeps the clocks in step.
LEMMA ExecuteInTime ==
    ASSUME Machine, InTime, NEW op \in Byte, NEW o \in Byte \X Byte,
           NEW q \in Behind(n.pc, Code(op, o[1], o[2]), o), Execute(op, o, q)
    PROVE  InTime'
  <1> SUFFICES ASSUME ~apart' PROVE (OnTime(g) /\ n.cycles \in Int /\ late \in Int
                                     /\ Time(g) = n.cycles + late
                                     /\ -32767 <= g.s_time /\ g.s_time <= 8
                                     /\ g.base = g.end_time)'
    BY DEF InTime
  <1> DEFINE d == o[1]
             msb == o[2]
             code == Code(op, d, msb)
             u0 == [g EXCEPT !.mem = WithCode(@, g.pc, code)]
             v0 == [n EXCEPT !.mem = WithCode(@, n.pc, code)]
             p == Penalty(v0, op, d, msb)
  <1>1. /\ Alike(g, n) /\ ~Parts(op, d, msb) /\ Straight(n.pc, code)
        /\ n' = NesCpuStep(v0, op, d, msb) /\ g' = GmeStep(u0, op, q[1], q[2])
        /\ late' = late + p
    BY DEF Machine, Execute
  <1>2. PICK c \in Cases : c[1] = op
    BY <1>1 DEF Parts, Official
  <1>3. op # 0
    BY <1>1 DEF Parts
  <1>4. d \in Byte /\ msb \in Byte /\ q[1] = d /\ q[2] = msb
    BY <1>1 DEF Behind
  <1>5. DOMAIN code \subseteq 1 .. 3 /\ \A i \in DOMAIN code : code[i] \in Byte
    BY <1>2, <1>4, CodeIs
  <1> HIDE DEF code, d, msb
  <1>6. Alike(u0, v0)
    BY <1>1, <1>5, TuneAlike
  <1>7. /\ OnTime(g) /\ n.cycles \in Int /\ late \in Int /\ Time(g) = n.cycles + late
        /\ -32767 <= g.s_time /\ g.s_time < 0 /\ g.base = g.end_time
    BY DEF InTime, Execute
  <1>8. OnTime(u0) /\ Time(u0) = Time(g) /\ u0.base = g.base /\ u0.end_time = g.end_time
    BY <1>1, <1>7 DEF Alike, GFields, OnTime, Time
  <1>9. v0.cycles = n.cycles
    BY <1>1 DEF Alike, NFields
  <1> HIDE DEF u0, v0
  <1>10. Clocked(g', u0, c[4] + Penalty(v0, c[1], d, msb))
    <2>1. Clocked(GmeStep(u0, c[1], d, msb), u0, c[4] + Penalty(v0, c[1], d, msb))
      BY <1>2, <1>3, <1>4, <1>6, <1>8, GmeTime
    <2> QED
      BY <1>1, <1>2, <1>4, <2>1
  <1>11. n'.cycles = n.cycles + c[4]
    <2>1. NesCpuStep(v0, c[1], d, msb).cycles = v0.cycles + c[4]
      BY <1>2, <1>3, <1>6, CyclesOf
    <2> QED
      BY <1>1, <1>2, <1>9, <2>1
  <1>12. c[4] \in 2 .. 7 /\ p \in 0 .. 2
    BY <1>2, <1>3, ClockRows, PenaltyBound
  <1>13. OnTime(g') /\ Time(g') = Time(g) + (c[4] + p) /\ g'.base = g.base /\ g'.base = g'.end_time
    BY <1>2, <1>7, <1>8, <1>10 DEF Clocked
  <1> HIDE DEF p
  <1>14. Time(g') = n'.cycles + late' /\ n'.cycles \in Int /\ late' \in Int
    BY <1>1, <1>7, <1>11, <1>12, <1>13
  <1>15. g'.s_time = g.s_time + (c[4] + p)
    BY <1>7, <1>12, <1>13 DEF OnTime, Time
  <1>16. -32767 <= g'.s_time /\ g'.s_time <= 8
    BY <1>7, <1>12, <1>15 DEF OnTime
  <1> QED
    BY <1>13, <1>14, <1>16 DEF OnTime, Time

\* So does every step.
LEMMA NextInTime == Machine /\ InTime /\ [Next]_vars => InTime'
  <1> SUFFICES ASSUME Machine, InTime, [Next]_vars PROVE InTime'
    OBVIOUS
  <1>1. ASSUME NEW d \in Durations, StartRun(d) PROVE InTime'
    <2>1. Rests(g, n)
      BY <1>1 DEF Machine, StartRun
    <2>2. g' = TakenOver(g, r, Time(g) + d) /\ n' = n /\ late' = late
      BY <1>1 DEF StartRun, TakenOver
    <2>3. OnTime(g) /\ n.cycles \in Int /\ late \in Int /\ Time(g) = n.cycles + late
      BY <1>1 DEF InTime, StartRun
    <2>4. d \in Int /\ 1 <= d /\ d <= 32767
      BY RunAssumption
    <2>5. Time(g) + d \in Int
      <3>1. d \in Int
        BY <2>4
      <3>2. Time(g) \in Int
        BY <2>3 DEF OnTime, Time
      <3> QED
        BY <3>1, <3>2
    <2> DEFINE t == Time(g) + d
    <2> HIDE DEF t
    <2>6. /\ OnTime(TakenOver(g, r, t)) /\ Time(TakenOver(g, r, t)) = Time(g)
          /\ TakenOver(g, r, t).base = t /\ TakenOver(g, r, t).end_time = t
      BY <2>1, <2>5, <2>3, StartTime DEF Rests, t
    <2>7. OnTime(g') /\ Time(g') = Time(g) /\ g'.base = Time(g) + d /\ g'.end_time = Time(g) + d
      BY <2>2, <2>6 DEF t
    <2>8. OnTime(g)' /\ Time(g)' = n'.cycles + late' /\ n'.cycles \in Int /\ late' \in Int
      BY <2>2, <2>3, <2>7 DEF OnTime, Time
    <2>9. g'.s_time = -d
      <3> DEFINE now == Time(g)
                 ends == g'.base
                 ahead == g'.s_time
      <3>1. now \in Int /\ ends \in Int /\ ahead \in Int /\ d \in Int
        BY <2>3, <2>7, <2>4 DEF OnTime, Time
      <3>2. ahead + ends = Time(g')
        BY DEF Time
      <3>3. ahead + ends = now /\ ends = now + d
        BY <3>2, <2>7
      <3> HIDE DEF now, ends, ahead
      <3>4. ahead = -d
        BY <3>1, <3>3
      <3> QED
        BY <3>4 DEF ahead
    <2>10. -32767 <= g'.s_time /\ g'.s_time <= 8
      BY <2>4, <2>9
    <2> QED
      BY <2>7, <2>8, <2>10 DEF InTime
  <1>2. ASSUME NEW op \in (IF steps = 0 THEN Opcodes ELSE Follow), NEW o \in Operands,
               NEW q \in Behind(n.pc, Code(op, o[1], o[2]), o), Execute(op, o, q)
        PROVE  InTime'
    <2>1. op \in Byte /\ o \in Byte \X Byte
      BY TuneAssumption
    <2> QED
      BY <1>2, <2>1, ExecuteInTime
  <1>3. CASE LeaveRun
    BY <1>3 DEF LeaveRun, InTime, OnTime, Time
  <1>4. CASE UNCHANGED vars
    BY <1>4 DEF vars, InTime, OnTime, Time
  <1>5. CASE Astray
    BY <1>5 DEF Astray, InTime
  <1> QED
    BY <1>1, <1>2, <1>3, <1>4, <1>5 DEF Next

\* For every such tune: game-music-emu's clock is ahead of the fixed cycles of the other core by
\* exactly the clocks of pages crossed and branches taken, however the ends of runs, SEI and PLP
\* move its base; and run()'s own check of s_time holds, so that its 16 bits never cut it off.
THEOREM ClocksAlways == Spec => []ClocksAgree
  <1>1. Init => Machine /\ InTime
    BY InitMachine, InitInTime
  <1>2. Machine /\ InTime /\ [Next]_vars => (Machine /\ InTime)'
    BY NextMachine, NextInTime
  <1>3. InTime => ClocksAgree
    BY DEF InTime, ClocksAgree, OnTime
  <1> QED
    BY <1>1, <1>2, <1>3, PTL DEF Spec
=============================================================================
