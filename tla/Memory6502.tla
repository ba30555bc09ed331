---------------------------- MODULE Memory6502 ----------------------------
(***************************************************************************)
(* Bytes, words, flags and memory, as both 6502 cores of the repository    *)
(* use them. A memory is a function from the addresses that are known to   *)
(* their bytes; the others still hold what the file or the power-up left.  *)
(***************************************************************************)
EXTENDS Integers

CONSTANT Fill(_)      \* what an address holds before anything is stored there

Byte == 0 .. 255
Word == 0 .. 2^16 - 1
U8(v) == v % 256
U16(v) == v % 65536
S8(v) == IF v > 127 THEN v - 256 ELSE v          \* (int8_t) v
BitOf(v, i) == (v \div 2^i) % 2

Untouched == [a \in {} |-> 0]                     \* nothing is stored yet
At(m, a) == IF a \in DOMAIN m THEN m[a] ELSE Fill(a)
Put(m, a, v) == [b \in DOMAIN m \cup {a} |-> IF b = a THEN v ELSE m[b]]

\* The byte whose bits are b(0) to b(7); &, | and ^ of two bytes, bit by bit.
OfBits(b(_)) == b(0) + 2 * b(1) + 4 * b(2) + 8 * b(3)
                + 16 * b(4) + 32 * b(5) + 64 * b(6) + 128 * b(7)
AndB(u, v) == LET b(i) == BitOf(u, i) * BitOf(v, i) IN OfBits(b)
OrB(u, v)  == LET b(i) == IF BitOf(u, i) = 1 THEN 1 ELSE BitOf(v, i) IN OfBits(b)
XorB(u, v) == LET b(i) == (BitOf(u, i) + BitOf(v, i)) % 2 IN OfBits(b)

FlagNames == {"N", "V", "U", "B", "D", "I", "Z", "C"}
Weight == [N |-> 128, V |-> 64, U |-> 32, B |-> 16, D |-> 8, I |-> 4, Z |-> 2, C |-> 1]

\* The flags of a status byte.
FlagsOf(v) == {f \in FlagNames : (v \div Weight[f]) % 2 = 1}
\* The status byte of a set of flags.
ByteOf(flags) ==
    LET W(f) == IF f \in flags THEN Weight[f] ELSE 0
    IN  W("N") + W("V") + W("U") + W("B") + W("D") + W("I") + W("Z") + W("C")

\* Adds or removes a flag.
WithFlag(flags, f, on) == IF on THEN flags \cup {f} ELSE flags \ {f}

\* The addresses of the 2A03's registers, of the RAM of an NES and of a cartridge, and of all
\* that a cartridge holds.
ApuRegs == 2^14 .. 2^14 + 23
LowRam == 0 .. 2^11 - 1
Sram == {a \in Word : 24576 <= a /\ a < 32768}
Cartridge == {a \in Word : 24576 <= a}
===========================================================================
