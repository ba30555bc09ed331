----------------------------- MODULE RomData -----------------------------
(***************************************************************************)
(* Rom_Data (Classic_Emu.h, Classic_Emu.cpp): a file's bytes with a page   *)
(* of padding on both sides, so that any page of the cartridge, and the    *)
(* few bytes past its end that the CPU may fetch, is a window into one     *)
(* vector. A ROM is [bytes: the vector's length, file: the bytes of the    *)
(* file in it, addr, mask, size]; what the bytes are is RomByte.           *)
(***************************************************************************)
EXTENDS Integers

\* 1L << shift.
Bit[shift \in Nat] == IF shift = 0 THEN 1 ELSE 2 * Bit[shift - 1]

CONSTANT Unit                 \* the size of a page
ASSUME UnitAssumption == Unit \in Nat \ {0} /\ \E shift \in 0 .. Unit : Unit = Bit[shift]

PadExtra == 8
Pad == Unit + PadExtra
NoRom == [bytes |-> 0, file |-> 0, addr |-> 0, mask |-> 0, size |-> 0]

\* The whole file is read so that what follows its header starts after the first padding.
LoadRom(length, header) ==
    [NoRom EXCEPT !.bytes = (Pad - header) + length + Pad, !.file = length - header]

\* As many low bits as n has: shift goes up while n >> shift is not zero.
MaskOf(n) ==
    LET Clears(shift) == n < Bit[shift]
    IN Bit[CHOOSE shift \in 0 .. n : Clears(shift) /\ \A s \in 0 .. shift - 1 : ~Clears(s)] - 1

RoundUp(n) == ((n + Unit - 1) \div Unit) * Unit

SetAddr(rom, addr) ==
    LET rounded == RoundUp(addr + rom.file)
        start   == addr - Unit - PadExtra
    IN [rom EXCEPT !.addr = start,
                   !.mask = MaskOf(rounded - 1),
                   !.size = rounded,
                   !.bytes = rounded - start + PadExtra]

MaskAddr(rom, a) == a % (rom.mask + 1)

\* Mutant of AtAddr: the page only has to start in the vector.
AtAddrByStart(rom, a) ==
    LET offset == MaskAddr(rom, a) - rom.addr
    IN IF offset < 0 \/ offset > rom.bytes THEN 0 ELSE offset
\* Where the page at an address starts in the vector; the padding in front if there is none.
AtAddr(rom, a) ==
    LET offset == MaskAddr(rom, a) - rom.addr
    IN IF offset < 0 \/ offset > rom.bytes - Pad THEN 0 ELSE offset

\* What a byte of the vector holds: a byte of the file, or the filling.
Filling == -1
RomByte(rom, i) == IF i - Pad \in 0 .. rom.file - 1 THEN i - Pad ELSE Filling

\* The window of a page, with the bytes past its end that an instruction may reach.
InRom(rom, offset) == offset >= 0 /\ offset + Unit + PadExtra <= rom.bytes
==========================================================================
