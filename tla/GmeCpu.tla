------------------------------ MODULE GmeCpu ------------------------------
(***************************************************************************)
(* The 6502 core of game-music-emu, Nes_Cpu::run: what one turn of its     *)
(* loop does to the local copies of the registers. The flags N and Z are   *)
(* kept in nz (Z when its low byte is 0, N by bits 7 and 15), the carry in *)
(* bit 8 of c, the stack pointer as the address of the byte last pushed,   *)
(* the time as s_time, which is negative until the run's end at base. Its  *)
(* 16 bits are not cut off here: CpuLockstep's ClocksAgree says they need  *)
(* not be. The operands of an instruction are what is found behind the     *)
(* opcode's host pointer (instr), so that they are arguments of a step.    *)
(***************************************************************************)
EXTENDS Memory6502, Sequences

BadOpcode == 242          \* bad_opcode, which fills unmapped_code

clock_table == <<
    0,6,2,8,3,3,5,5,3,2,2,2,4,4,6,6,  3,5,2,8,4,4,6,6,2,4,2,7,4,4,7,7,
    6,6,2,8,3,3,5,5,4,2,2,2,4,4,6,6,  3,5,2,8,4,4,6,6,2,4,2,7,4,4,7,7,
    6,6,2,8,3,3,5,5,3,2,2,2,3,4,6,6,  3,5,2,8,4,4,6,6,2,4,2,7,4,4,7,7,
    6,6,2,8,3,3,5,5,4,2,2,2,5,4,6,6,  3,5,2,8,4,4,6,6,2,4,2,7,4,4,7,7,
    2,6,2,6,3,3,3,3,2,2,2,2,4,4,4,4,  3,6,2,6,4,4,4,4,2,5,2,5,5,5,5,5,
    2,6,2,6,3,3,3,3,2,2,2,2,4,4,4,4,  3,5,2,5,4,4,4,4,2,4,2,4,4,4,4,4,
    2,6,2,8,3,3,5,5,2,2,2,2,4,4,6,6,  3,5,2,8,4,4,6,6,2,4,2,7,4,4,7,7,
    2,6,2,8,3,3,5,5,2,2,2,2,4,4,6,6,  3,5,0,8,4,4,6,6,2,4,2,7,4,4,7,7 >>
Clocks(op) == clock_table[op + 1]

\* Memory.
CpuRead(g, addr) ==
    CASE addr < 8192 -> At(g.mem, addr % 2048)
      [] addr > 65535 -> BadOpcode
      [] addr \in Cartridge -> At(g.mem, addr)
      [] OTHER -> addr \div 256                       \* open bus
CpuWrite(g, addr, v) ==
    CASE addr \in Sram -> [g EXCEPT !.mem = Put(@, addr, v)]
      [] addr < 8192 -> [g EXCEPT !.mem = Put(@, addr % 2048, v)]
      [] addr \in ApuRegs -> [g EXCEPT !.apu = Append(@, <<addr, v>>)]
      [] OTHER -> g                                   \* banks and other chips

\* The registers as a run takes them over and leaves them.
InStack(a) == (a % 256) + 256                              \* 0x100 | a
SetSp(v) == InStack(v + 1)
GetSp(g) == (g.sp - 1) % 256
IsNeg(g) == BitOf(g.nz, 7) = 1 \/ BitOf(g.nz, 15) = 1
IsZero(g) == U8(g.nz) = 0
Carry(g) == BitOf(g.c, 8)
CalcStatus(g) ==
    g.status \cup {f \in {"N", "Z", "C"} : \/ f = "N" /\ IsNeg(g)
                                           \/ f = "Z" /\ IsZero(g)
                                           \/ f = "C" /\ Carry(g) = 1}
SetStatus(g, v) ==
    [g EXCEPT !.status = FlagsOf(v) \cap {"V", "D", "I"},
              !.c = v * 256,
              !.nz = v * 256 + (IF "Z" \in FlagsOf(v) THEN 0 ELSE 2)]

Time(g) == g.s_time + g.base
\* The run's end is moved; the time stays what it is. No IRQ is ever scheduled.
SetEndTime(g, t) == [g EXCEPT !.s_time = @ + (g.base - t), !.base = t, !.end_time = t]
HandleSei(g) == [g EXCEPT !.s_time = @ + (g.base - g.end_time), !.base = g.end_time]

\* Steps that many instructions share.
Skip(g, n) == [g EXCEPT !.pc = U16(@ + n)]
Late(g, sum) == [g EXCEPT !.s_time = @ + sum \div 256]     \* HANDLE_PAGE_CROSSING
Push(g, v) == [g EXCEPT !.sp = InStack(g.sp - 1), !.mem = Put(@, InStack(g.sp - 1), v)]
Top(g, i) == At(g.mem, InStack(g.sp + i - 1))               \* the i-th byte of the stack
Drop(g, n) == [g EXCEPT !.sp = InStack(g.sp + n)]
Low(g, a) == At(g.mem, U8(a))                              \* READ_LOW of a uint8_t
IndX(g, d) == 256 * Low(g, d + g.x + 1) + Low(g, d + g.x)
IndY(g, d) == U16(256 * Low(g, d + 1) + Low(g, d) + g.y)

\* ARITH_ADDR_MODES: the operand of a mode, with pc and time moved past it. pc is left on the
\* last byte of the instruction; imm## adds the one that is missing.
Offset == [izx |-> -4, izy |-> 12, zpx |-> 16, zp |-> 0, absy |-> 20, absx |-> 24,
           abs |-> 8, imm |-> 4]
Operand(g, mode, d, msb) ==
    LET Ind(h, a) == [h |-> h, v |-> CpuRead(h, U16(a))]
        Abs(sum) == Ind(Late(Skip(g, 1), sum), sum + 256 * msb)
    IN CASE mode = "imm" -> [h |-> g, v |-> d]
         [] mode = "zp" -> [h |-> g, v |-> Low(g, d)]
         [] mode = "zpx" -> [h |-> g, v |-> Low(g, d + g.x)]
         [] mode = "abs" -> Abs(d)
         [] mode = "absx" -> Abs(d + g.x)
         [] mode = "absy" -> Abs(d + g.y)
         [] mode = "izx" -> Ind(g, IndX(g, d))
         [] mode = "izy" -> Ind(Late(g, Low(g, d) + g.y), IndY(g, d))
IsArith(op, base) == \E m \in DOMAIN Offset : op = base + Offset[m]
ArithMode(op, base) == CHOOSE m \in DOMAIN Offset : op = base + Offset[m]
Arith(g, op, base, d, msb) ==
    LET o == Operand(g, ArithMode(op, base), d, msb) IN [o EXCEPT !.h = Skip(@, 1)]

Compare(g, reg, v) == [g EXCEPT !.nz = U8(reg - v), !.c = 65535 - U16(reg - v)]

\* ADC, and SBC as the ADC of the complement.
Adc(g, v) ==
    LET ov == XorB(g.a, 128) + Carry(g) + S8(v)
        sum == g.a + v + Carry(g)
    IN [g EXCEPT !.status = WithFlag(@, "V", BitOf(U16(ov), 8) = 1),
                 !.c = sum, !.nz = sum, !.a = U8(sum)]

Logic(g, v) == [g EXCEPT !.a = v, !.nz = v]

ArithOps == {197, 37, 69, 5, 229, 101}
ArithOp(g, op, d, msb) ==
    LET base == CHOOSE b \in ArithOps : IsArith(op, b) \/ (op = 235 /\ b = 229)
        o == IF op = 235 THEN [h |-> Skip(g, 1), v |-> d] ELSE Arith(g, op, base, d, msb)
        h == o.h
    IN CASE base = 197 -> Compare(h, h.a, o.v)
         [] base = 37 -> Logic(h, AndB(h.a, o.v))
         [] base = 69 -> Logic(h, XorB(h.a, o.v))
         [] base = 5 -> Logic(h, OrB(h.a, o.v))
         [] base = 229 -> Adc(h, 255 - o.v)
         [] base = 101 -> Adc(h, o.v)

\* LDA. Its indexed cases read ROM and RAM without a call, the same byte as CPU_READ.
LoadA(g, op, d, msb) ==
    LET o == Arith(g, op, 165, d, msb) IN [o.h EXCEPT !.a = o.v, !.nz = o.v]

\* LDX, LDY, CPX, CPY. The sum of an indexed address is an unsigned int and does not wrap.
LoadXYOps == {162, 166, 182, 174, 190, 160, 164, 180, 172, 188}
LoadXY(g, op, d, msb) ==
    LET index == IF op \in {182, 190} THEN g.y ELSE IF op \in {180, 188} THEN g.x ELSE 0
        isX == op \in {162, 166, 182, 174, 190}
        wide == op \in {174, 190, 172, 188}
        v == IF op \in {162, 160} THEN d
             ELSE IF wide THEN CpuRead(g, d + index + 256 * msb) ELSE Low(g, d + index)
        h == IF wide THEN Late(Skip(g, 2), d + index) ELSE Skip(g, 1)
    IN IF isX THEN [h EXCEPT !.x = v, !.nz = v] ELSE [h EXCEPT !.y = v, !.nz = v]
CompareXY(g, op, d, msb) ==
    LET reg == IF op \in {224, 228, 236} THEN g.x ELSE g.y
        v == CASE op \in {224, 192} -> d
               [] op \in {228, 196} -> Low(g, d)
               [] op \in {236, 204} -> CpuRead(g, d + 256 * msb)
    IN Compare(Skip(g, IF op \in {236, 204} THEN 2 ELSE 1), reg, v)

StoreOps == {133, 149, 141, 157, 153, 145, 129, 134, 150, 142, 132, 148, 140}
StoredReg(g, op) ==
    CASE op \in {133, 149, 141, 157, 153, 145, 129} -> g.a
      [] op \in {134, 150, 142} -> g.x
      [] op \in {132, 148, 140} -> g.y
Store(g, op, d, msb) ==
    LET word == d + 256 * msb
        addr == CASE op \in {133, 134, 132} -> d
                  [] op \in {149, 148} -> U8(d + g.x)
                  [] op = 150 -> U8(d + g.y)
                  [] op \in {141, 142, 140} -> word
                  [] op = 157 -> U16(word + g.x)
                  [] op = 153 -> U16(word + g.y)
                  [] op = 145 -> IndY(g, d)
                  [] op = 129 -> IndX(g, d)
    IN CpuWrite(Skip(g, IF op \in {141, 157, 153, 142, 140} THEN 2 ELSE 1), addr,
                StoredReg(g, op))

\* Mutant of BitTest: nz keeps the byte, so that N without Z is the only result.
BitTestNoZero(g, op, d, msb) ==
    LET v == IF op = 36 THEN Low(g, d) ELSE CpuRead(g, d + 256 * msb)
        h == Skip(g, IF op = 36 THEN 1 ELSE 2)
    IN [h EXCEPT !.status = WithFlag(@, "V", BitOf(v, 6) = 1), !.nz = v]
BitTest(g, op, d, msb) ==
    LET v == IF op = 36 THEN Low(g, d) ELSE CpuRead(g, d + 256 * msb)
        h == Skip(g, IF op = 36 THEN 1 ELSE 2)
    IN [h EXCEPT !.status = WithFlag(@, "V", BitOf(v, 6) = 1),
                 !.nz = IF AndB(g.a, v) # 0 THEN v ELSE U16(v * 256)]

\* ASL, ROL, LSR, ROR of a byte: the new nz and c. ASL and LSR clear c first.
ShiftBase(op) == (op \div 32) * 32                 \* 0 ASL, 32 ROL, 64 LSR, 96 ROR
Shifted(op, v, carry) ==
    LET kind == ShiftBase(op)
        cin == IF kind \in {0, 64} THEN 0 ELSE carry
    IN IF kind < 64 THEN [nz |-> 2 * v + cin, c |-> 2 * v]
       ELSE [nz |-> v \div 2 + 128 * cin, c |-> 256 * v]
ShiftAOps == {10, 42, 74, 106}
ShiftA(g, op) ==
    LET s == Shifted(op, g.a, Carry(g)) IN [g EXCEPT !.nz = s.nz, !.c = s.c, !.a = U8(s.nz)]
ModifyAddr(g, op, d, msb) ==
    CASE op % 32 = 6 -> d
      [] op % 32 = 22 -> U8(d + g.x)
      [] op % 32 = 14 -> d + 256 * msb
      [] op % 32 = 30 -> U16(d + 256 * msb + g.x)
Width(op) == IF op % 16 = 6 THEN 1 ELSE 2
ShiftMOps == {o \in 0 .. 127 : o % 32 \in {6, 22, 14, 30}}
ShiftM(g, op, d, msb) ==
    LET addr == ModifyAddr(g, op, d, msb)
        s == Shifted(op, CpuRead(g, addr), Carry(g))
        h == [Skip(g, Width(op)) EXCEPT !.nz = s.nz, !.c = s.c]
    IN CpuWrite(h, addr, U8(s.nz))

IncDecMOps == {230, 246, 238, 254, 198, 214, 206, 222}
IncDecM(g, op, d, msb) ==
    LET addr == ModifyAddr(g, op, d, msb)
        nz == U16(CpuRead(g, addr) + (IF op >= 224 THEN 1 ELSE -1))
    IN CpuWrite([Skip(g, Width(op)) EXCEPT !.nz = nz], addr, U8(nz))

\* TAX TXA TAY TYA TXS TSX, INX DEX INY DEY.
RegisterOps == {170, 138, 168, 152, 154, 186, 232, 202, 200, 136}
Register(g, op) ==
    CASE op = 170 -> [g EXCEPT !.x = g.a, !.nz = g.a]
      [] op = 138 -> [g EXCEPT !.a = g.x, !.nz = g.x]
      [] op = 168 -> [g EXCEPT !.y = g.a, !.nz = g.a]
      [] op = 152 -> [g EXCEPT !.a = g.y, !.nz = g.y]
      [] op = 154 -> [g EXCEPT !.sp = SetSp(g.x)]
      [] op = 186 -> [g EXCEPT !.x = GetSp(g), !.nz = GetSp(g)]
      [] op = 232 -> [g EXCEPT !.x = U8(@ + 1), !.nz = g.x + 1]
      [] op = 202 -> [g EXCEPT !.x = U8(@ - 1), !.nz = U16(g.x - 1)]
      [] op = 200 -> [g EXCEPT !.y = U8(@ + 1), !.nz = g.y + 1]
      [] op = 136 -> [g EXCEPT !.y = U8(@ - 1), !.nz = U16(g.y - 1)]

\* PHA PLA PHP PLP. A PLP that sets I moves the base to the run's end.
StackOps == {72, 104, 8, 40}
Stack(g, op) ==
    CASE op = 72 -> Push(g, g.a)
      [] op = 104 -> [Drop(g, 1) EXCEPT !.a = Top(g, 1), !.nz = Top(g, 1)]
      [] op = 8 -> Push(g, ByteOf(CalcStatus(g) \cup {"B", "U"}))
      [] op = 40 -> LET h == SetStatus(Drop(g, 1), Top(g, 1))
                    IN IF "I" \in h.status \ g.status THEN HandleSei(h) ELSE h

FlagOps == {56, 24, 184, 216, 248, 88, 120}
SetFlags(g, op) ==
    CASE op = 56 -> [g EXCEPT !.c = 65535]
      [] op = 24 -> [g EXCEPT !.c = 0]
      [] op = 184 -> [g EXCEPT !.status = @ \ {"V"}]
      [] op = 216 -> [g EXCEPT !.status = @ \ {"D"}]
      [] op = 248 -> [g EXCEPT !.status = @ \cup {"D"}]
      [] op = 88 -> [g EXCEPT !.status = @ \ {"I"}]
      [] op = 120 -> IF "I" \in g.status THEN g
                     ELSE HandleSei([g EXCEPT !.status = @ \cup {"I"}])

\* A branch costs 3 clocks, one less when it is not taken, one more when it leaves the page.
BranchOps == {16, 48, 80, 112, 144, 176, 208, 240}
Taken(g, op) ==
    CASE op = 16 -> ~IsNeg(g)               [] op = 48 -> IsNeg(g)
      [] op = 80 -> "V" \notin g.status     [] op = 112 -> "V" \in g.status
      [] op = 144 -> Carry(g) = 0           [] op = 176 -> Carry(g) = 1
      [] op = 208 -> ~IsZero(g)             [] op = 240 -> IsZero(g)
\* Mutant of Branch: the page is that of the branch's own operand.
BranchEarlyPage(g, op, d) ==
    LET h == Skip(g, 1)
        extra == BitOf(U16(U8(g.pc) + S8(d)), 8)
    IN IF Taken(g, op) THEN [h EXCEPT !.pc = U16(@ + S8(d)), !.s_time = @ + extra]
       ELSE [h EXCEPT !.s_time = @ - 1]
Branch(g, op, d) ==
    LET h == Skip(g, 1)
        extra == BitOf(U16(U8(h.pc) + S8(d)), 8)
    IN IF Taken(g, op) THEN [h EXCEPT !.pc = U16(@ + S8(d)), !.s_time = @ + extra]
       ELSE [h EXCEPT !.s_time = @ - 1]

JumpOps == {32, 76, 96, 64, 108}
Jsr(g, word) ==
    LET ret == U16(g.pc + 1) IN [Push(Push(g, ret \div 256), U8(ret)) EXCEPT !.pc = word]
Rts(g) == [Drop(g, 2) EXCEPT !.pc = U16(1 + Top(g, 1) + 256 * Top(g, 2))]
Rti(g) == [SetStatus(Drop(g, 3), Top(g, 1)) EXCEPT !.pc = Top(g, 2) + 256 * Top(g, 3)]
\* The second byte of the pointer comes from the same page.
JmpInd(g, word) ==
    LET next == (word \div 256) * 256 + U8(word + 1)
    IN  [g EXCEPT !.pc = CpuRead(g, word) + 256 * CpuRead(g, next)]
Jump(g, op, word) ==
    CASE op = 32 -> Jsr(g, word)
      [] op = 76 -> [g EXCEPT !.pc = word]
      [] op = 96 -> Rts(g)
      [] op = 64 -> Rti(g)
      [] op = 108 -> JmpInd(g, word)

\* BRK: an interrupt through $FFFE, which sets I.
Brk(g) ==
    LET p == Skip(g, 1)
        h == Push(Push(Push(p, p.pc \div 256), U8(p.pc)), ByteOf(CalcStatus(p) \cup {"U", "B"}))
        i == [h EXCEPT !.s_time = @ + 7, !.status = @ \cup {"I"},
                       !.pc = At(g.mem, 65534) + 256 * At(g.mem, 65535)]
    IN IF i.base - i.end_time >= 0 THEN i ELSE HandleSei(i)

\* The unofficial opcodes: words and bytes to skip, NOPs, the ones that stop the run, and the
\* ones that are counted as errors and skipped with the length of illop_lens.
SkipWordOps == {28, 60, 92, 124, 220, 252}
SkipByteOps == {116, 4, 20, 52, 68, 84, 100, 128, 130, 137, 194, 212, 226, 244}
NopOps == {234, 26, 58, 90, 122, 218, 250}
HaltOps == {2, 18, 34, 50, 66, 82, 98, 114, 146, 178, 210, BadOpcode}
illop_lens == <<64, 64, 64, 128, 64, 64, 128, 160>>
IllopLen(op) ==
    IF op = 156 THEN 2
    ELSE (illop_lens[((op \div 4) % 8) + 1] \div 2^(2 * (op % 4))) % 4
Unofficial(g, op, d) ==
    LET h == [Skip(g, IllopLen(op)) EXCEPT !.errors = @ + 1]
        v == IF op = 179 THEN Low(g, d) ELSE d
    IN CASE op \in SkipWordOps -> Late(Skip(g, 2), d + g.x)
         [] op = 12 -> Skip(g, 2)
         [] op \in SkipByteOps -> Skip(g, 1)
         [] op \in NopOps -> g
         [] op \in HaltOps -> [(IF op = BadOpcode THEN Skip(g, -1) ELSE g) EXCEPT !.stopped = TRUE]
         [] OTHER -> IF op \div 16 = 11 /\ op # 183 THEN Late(h, v + g.y) ELSE h

\* The switch, after the opcode's clocks and its byte of pc.
Switch(g, op, d, msb) ==
    CASE op = 0 -> Brk(g)
      [] op = 235 \/ \E b \in ArithOps : IsArith(op, b) -> ArithOp(g, op, d, msb)
      [] IsArith(op, 165) -> LoadA(g, op, d, msb)
      [] op \in LoadXYOps -> LoadXY(g, op, d, msb)
      [] op \in {224, 228, 236, 192, 196, 204} -> CompareXY(g, op, d, msb)
      [] op \in StoreOps -> Store(g, op, d, msb)
      [] op \in {36, 44} -> BitTest(g, op, d, msb)
      [] op \in ShiftAOps -> ShiftA(g, op)
      [] op \in ShiftMOps -> ShiftM(g, op, d, msb)
      [] op \in IncDecMOps -> IncDecM(g, op, d, msb)
      [] op \in RegisterOps -> Register(g, op)
      [] op \in StackOps -> Stack(g, op)
      [] op \in FlagOps -> SetFlags(g, op)
      [] op \in BranchOps -> Branch(g, op, d)
      [] op \in JumpOps -> Jump(g, op, d + 256 * msb)
      [] OTHER -> Unofficial(g, op, d)
GmeStep(g, op, d, msb) ==
    Switch([g EXCEPT !.pc = U16(@ + 1), !.s_time = @ + Clocks(op)], op, d, msb)
===========================================================================
