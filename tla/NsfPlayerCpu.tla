--------------------------- MODULE NsfPlayerCpu ---------------------------
(***************************************************************************)
(* The 6502 core of the second NSF player, nes_cpu_step of nes_cpu.c: a    *)
(* flat 64 KB memory with a callback for writes, the flags as a byte, a    *)
(* fixed number of cycles for each opcode.                                 *)
(***************************************************************************)
EXTENDS Memory6502, Sequences

\* The cases of the switch: opcode, operation, addressing mode, cycles.
Cases == {
  <<169, "LDA", "imm", 2>>, <<165, "LDA", "zp", 3>>, <<181, "LDA", "zpx", 4>>, <<173, "LDA", "abs", 4>>,
  <<189, "LDA", "abx", 4>>, <<185, "LDA", "aby", 4>>, <<161, "LDA", "izx", 6>>, <<177, "LDA", "izy", 5>>,
  <<162, "LDX", "imm", 2>>, <<166, "LDX", "zp", 3>>, <<182, "LDX", "zpy", 4>>, <<174, "LDX", "abs", 4>>,
  <<190, "LDX", "aby", 4>>, <<160, "LDY", "imm", 2>>, <<164, "LDY", "zp", 3>>, <<180, "LDY", "zpx", 4>>,
  <<172, "LDY", "abs", 4>>, <<188, "LDY", "abx", 4>>,
  <<133, "STA", "zp", 3>>, <<149, "STA", "zpx", 4>>, <<141, "STA", "abs", 4>>, <<157, "STA", "abx", 5>>,
  <<153, "STA", "aby", 5>>, <<129, "STA", "izx", 6>>, <<145, "STA", "izy", 6>>,
  <<134, "STX", "zp", 3>>, <<150, "STX", "zpy", 4>>, <<142, "STX", "abs", 4>>,
  <<132, "STY", "zp", 3>>, <<148, "STY", "zpx", 4>>, <<140, "STY", "abs", 4>>,
  <<170, "TAX", "none", 2>>, <<138, "TXA", "none", 2>>, <<168, "TAY", "none", 2>>, <<152, "TYA", "none", 2>>,
  <<186, "TSX", "none", 2>>, <<154, "TXS", "none", 2>>,
  <<72, "PHA", "none", 3>>, <<104, "PLA", "none", 4>>, <<8, "PHP", "none", 3>>, <<40, "PLP", "none", 4>>,
  <<105, "ADC", "imm", 2>>, <<101, "ADC", "zp", 3>>, <<117, "ADC", "zpx", 4>>, <<109, "ADC", "abs", 4>>,
  <<125, "ADC", "abx", 4>>, <<121, "ADC", "aby", 4>>, <<97, "ADC", "izx", 6>>, <<113, "ADC", "izy", 5>>,
  <<233, "SBC", "imm", 2>>, <<229, "SBC", "zp", 3>>, <<245, "SBC", "zpx", 4>>, <<237, "SBC", "abs", 4>>,
  <<253, "SBC", "abx", 4>>, <<249, "SBC", "aby", 4>>, <<225, "SBC", "izx", 6>>, <<241, "SBC", "izy", 5>>,
  <<201, "CMP", "imm", 2>>, <<197, "CMP", "zp", 3>>, <<213, "CMP", "zpx", 4>>, <<205, "CMP", "abs", 4>>,
  <<221, "CMP", "abx", 4>>, <<217, "CMP", "aby", 4>>, <<193, "CMP", "izx", 6>>, <<209, "CMP", "izy", 5>>,
  <<224, "CPX", "imm", 2>>, <<228, "CPX", "zp", 3>>, <<236, "CPX", "abs", 4>>,
  <<192, "CPY", "imm", 2>>, <<196, "CPY", "zp", 3>>, <<204, "CPY", "abs", 4>>,
  <<230, "INC", "zp", 5>>, <<246, "INC", "zpx", 6>>, <<238, "INC", "abs", 6>>, <<254, "INC", "abx", 7>>,
  <<198, "DEC", "zp", 5>>, <<214, "DEC", "zpx", 6>>, <<206, "DEC", "abs", 6>>, <<222, "DEC", "abx", 7>>,
  <<232, "INX", "none", 2>>, <<202, "DEX", "none", 2>>, <<200, "INY", "none", 2>>, <<136, "DEY", "none", 2>>,
  <<41, "AND", "imm", 2>>, <<37, "AND", "zp", 3>>, <<53, "AND", "zpx", 4>>, <<45, "AND", "abs", 4>>,
  <<61, "AND", "abx", 4>>, <<57, "AND", "aby", 4>>, <<33, "AND", "izx", 6>>, <<49, "AND", "izy", 5>>,
  <<9, "ORA", "imm", 2>>, <<5, "ORA", "zp", 3>>, <<21, "ORA", "zpx", 4>>, <<13, "ORA", "abs", 4>>,
  <<29, "ORA", "abx", 4>>, <<25, "ORA", "aby", 4>>, <<1, "ORA", "izx", 6>>, <<17, "ORA", "izy", 5>>,
  <<73, "EOR", "imm", 2>>, <<69, "EOR", "zp", 3>>, <<85, "EOR", "zpx", 4>>, <<77, "EOR", "abs", 4>>,
  <<93, "EOR", "abx", 4>>, <<89, "EOR", "aby", 4>>, <<65, "EOR", "izx", 6>>, <<81, "EOR", "izy", 5>>,
  <<10, "ASL", "acc", 2>>, <<6, "ASL", "zp", 5>>, <<22, "ASL", "zpx", 6>>, <<14, "ASL", "abs", 6>>, <<30, "ASL", "abx", 7>>,
  <<74, "LSR", "acc", 2>>, <<70, "LSR", "zp", 5>>, <<86, "LSR", "zpx", 6>>, <<78, "LSR", "abs", 6>>, <<94, "LSR", "abx", 7>>,
  <<42, "ROL", "acc", 2>>, <<38, "ROL", "zp", 5>>, <<54, "ROL", "zpx", 6>>, <<46, "ROL", "abs", 6>>, <<62, "ROL", "abx", 7>>,
  <<106, "ROR", "acc", 2>>, <<102, "ROR", "zp", 5>>, <<118, "ROR", "zpx", 6>>, <<110, "ROR", "abs", 6>>, <<126, "ROR", "abx", 7>>,
  <<36, "BIT", "zp", 3>>, <<44, "BIT", "abs", 4>>,
  <<16, "BPL", "rel", 2>>, <<48, "BMI", "rel", 2>>, <<80, "BVC", "rel", 2>>, <<112, "BVS", "rel", 2>>,
  <<144, "BCC", "rel", 2>>, <<176, "BCS", "rel", 2>>, <<208, "BNE", "rel", 2>>, <<240, "BEQ", "rel", 2>>,
  <<76, "JMP", "abs", 3>>, <<108, "JMP", "ind", 5>>, <<32, "JSR", "abs", 6>>, <<96, "RTS", "none", 6>>, <<64, "RTI", "none", 6>>,
  <<24, "CLC", "none", 2>>, <<56, "SEC", "none", 2>>, <<88, "CLI", "none", 2>>, <<120, "SEI", "none", 2>>,
  <<216, "CLD", "none", 2>>, <<248, "SED", "none", 2>>, <<184, "CLV", "none", 2>>,
  <<234, "NOP", "none", 2>>, <<0, "BRK", "none", 7>> }
Official == {c[1] : c \in Cases}
\* An unknown opcode is a NOP of one byte and 2 cycles.
CaseOf == [op \in 0 .. 255 |->
              IF op \in Official THEN CHOOSE c \in Cases : c[1] = op ELSE <<op, "NOP", "none", 2>>]

\* mem_write: memory, then the callback, of which the writes to the APU are kept.
MemWrite(n, a, v) ==
    [n EXCEPT !.mem = Put(@, a, v),
              !.apu = IF a \in ApuRegs THEN Append(@, <<a, v>>) ELSE @,
              !.writes = @ \cup {a}]
Push8(n, v) == [n EXCEPT !.mem = Put(@, 256 + n.sp, v), !.sp = U8(@ - 1)]
Pulled(n, i) == At(n.mem, 256 + U8(n.sp + i))              \* the i-th byte pull8 returns
Pull(n, i) == [n EXCEPT !.sp = U8(@ + i)]

UpdateNz(n, v) == [n EXCEPT !.p = WithFlag(WithFlag(@, "Z", v = 0), "N", BitOf(v, 7) = 1)]
SetFlag(n, f, on) == [n EXCEPT !.p = WithFlag(@, f, on)]
SetP(n, v) == [n EXCEPT !.p = (FlagsOf(v) \ {"B"}) \cup {"U"}]

\* The addressing modes: the address of the operand, and the bytes they take.
Pointer(n, zp) == At(n.mem, U8(zp)) + 256 * At(n.mem, U8(zp + 1))
Addr(n, mode, b1, b2) ==
    CASE mode = "imm" -> n.pc
      [] mode = "zp" -> b1
      [] mode = "zpx" -> U8(b1 + n.x)
      [] mode = "zpy" -> U8(b1 + n.y)
      [] mode = "abs" -> b1 + 256 * b2
      [] mode = "abx" -> U16(b1 + 256 * b2 + n.x)
      [] mode = "aby" -> U16(b1 + 256 * b2 + n.y)
      [] mode = "izx" -> Pointer(n, b1 + n.x)
      [] mode = "izy" -> U16(Pointer(n, b1) + n.y)
      [] OTHER -> 0
Bytes(mode) == CASE mode \in {"none", "acc"} -> 0
                 [] mode \in {"abs", "abx", "aby", "ind"} -> 2
                 [] OTHER -> 1

OpAdc(n, v) ==
    LET sum == n.a + v + (IF "C" \in n.p THEN 1 ELSE 0)
        h == [n EXCEPT !.a = U8(sum)]
        over == BitOf(n.a, 7) = BitOf(v, 7) /\ BitOf(n.a, 7) # BitOf(sum, 7)
    IN UpdateNz(SetFlag(SetFlag(h, "C", sum > 255), "V", over), U8(sum))
OpCmp(n, reg, v) == UpdateNz(SetFlag(n, "C", reg >= v), U8(reg - v))

\* The result of a shift, and the flag C after it.
ShiftResult(ins, v, cin) ==
    CASE ins = "ASL" -> [v |-> U8(2 * v), c |-> BitOf(v, 7)]
      [] ins = "ROL" -> [v |-> U8(2 * v) + cin, c |-> BitOf(v, 7)]
      [] ins = "LSR" -> [v |-> v \div 2, c |-> BitOf(v, 0)]
      [] ins = "ROR" -> [v |-> v \div 2 + 128 * cin, c |-> BitOf(v, 0)]

Loads == {"LDA", "LDX", "LDY", "ADC", "SBC", "CMP", "CPX", "CPY", "AND", "ORA", "EOR", "BIT"}
Stores == {"STA", "STX", "STY"}
Modifies == {"INC", "DEC", "ASL", "LSR", "ROL", "ROR"}
Branches == {"BPL", "BMI", "BVC", "BVS", "BCC", "BCS", "BNE", "BEQ"}
IncDecs == {"INX", "DEX", "INY", "DEY"}
Transfers == {"TAX", "TXA", "TAY", "TYA", "TSX", "TXS"}

\* An instruction that reads its operand v.
WithOperand(n, ins, v) ==
    CASE ins = "LDA" -> UpdateNz([n EXCEPT !.a = v], v)
      [] ins = "LDX" -> UpdateNz([n EXCEPT !.x = v], v)
      [] ins = "LDY" -> UpdateNz([n EXCEPT !.y = v], v)
      [] ins = "ADC" -> OpAdc(n, v)
      [] ins = "SBC" -> OpAdc(n, 255 - v)
      [] ins = "CMP" -> OpCmp(n, n.a, v)
      [] ins = "CPX" -> OpCmp(n, n.x, v)
      [] ins = "CPY" -> OpCmp(n, n.y, v)
      [] ins = "AND" -> UpdateNz([n EXCEPT !.a = AndB(@, v)], AndB(n.a, v))
      [] ins = "ORA" -> UpdateNz([n EXCEPT !.a = OrB(@, v)], OrB(n.a, v))
      [] ins = "EOR" -> UpdateNz([n EXCEPT !.a = XorB(@, v)], XorB(n.a, v))
      [] ins = "BIT" -> SetFlag(SetFlag(SetFlag(n, "Z", AndB(n.a, v) = 0), "V", BitOf(v, 6) = 1),
                                "N", BitOf(v, 7) = 1)
StoreReg(n, ins, a) ==
    MemWrite(n, a, IF ins = "STA" THEN n.a ELSE IF ins = "STX" THEN n.x ELSE n.y)
Modify(n, ins, a) ==
    LET v == At(n.mem, a)
        s == ShiftResult(ins, v, IF "C" \in n.p THEN 1 ELSE 0)
        new == IF ins = "INC" THEN U8(v + 1) ELSE IF ins = "DEC" THEN U8(v - 1) ELSE s.v
        h == IF ins \in {"INC", "DEC"} THEN n ELSE SetFlag(n, "C", s.c = 1)
    IN UpdateNz(MemWrite(h, a, new), new)
ShiftAcc(n, ins) ==
    LET s == ShiftResult(ins, n.a, IF "C" \in n.p THEN 1 ELSE 0)
    IN UpdateNz([SetFlag(n, "C", s.c = 1) EXCEPT !.a = s.v], s.v)

BranchTaken(n, ins) ==
    CASE ins = "BPL" -> "N" \notin n.p   [] ins = "BMI" -> "N" \in n.p
      [] ins = "BVC" -> "V" \notin n.p   [] ins = "BVS" -> "V" \in n.p
      [] ins = "BCC" -> "C" \notin n.p   [] ins = "BCS" -> "C" \in n.p
      [] ins = "BNE" -> "Z" \notin n.p   [] ins = "BEQ" -> "Z" \in n.p

Transfer(n, ins) ==
    CASE ins = "TAX" -> UpdateNz([n EXCEPT !.x = n.a], n.a)
      [] ins = "TXA" -> UpdateNz([n EXCEPT !.a = n.x], n.x)
      [] ins = "TAY" -> UpdateNz([n EXCEPT !.y = n.a], n.a)
      [] ins = "TYA" -> UpdateNz([n EXCEPT !.a = n.y], n.y)
      [] ins = "TSX" -> UpdateNz([n EXCEPT !.x = n.sp], n.sp)
      [] ins = "TXS" -> [n EXCEPT !.sp = n.x]
IncDec(n, ins) ==
    LET d == IF ins \in {"INX", "INY"} THEN 1 ELSE -1
    IN IF ins \in {"INX", "DEX"} THEN UpdateNz([n EXCEPT !.x = U8(@ + d)], U8(n.x + d))
       ELSE UpdateNz([n EXCEPT !.y = U8(@ + d)], U8(n.y + d))

Other(n, ins, b1, b2) ==
    LET word == b1 + 256 * b2
        ret == U16(n.pc - 1)
    IN CASE ins = "PHA" -> Push8(n, n.a)
         [] ins = "PLA" -> UpdateNz([Pull(n, 1) EXCEPT !.a = Pulled(n, 1)], Pulled(n, 1))
         [] ins = "PHP" -> Push8(n, ByteOf(n.p \cup {"B", "U"}))
         [] ins = "PLP" -> SetP(Pull(n, 1), Pulled(n, 1))
         [] ins = "JMP" -> [n EXCEPT !.pc = word]
         [] ins = "JSR" -> [Push8(Push8(n, ret \div 256), U8(ret)) EXCEPT !.pc = word]
         [] ins = "RTS" -> [Pull(n, 2) EXCEPT !.pc = U16(Pulled(n, 1) + 256 * Pulled(n, 2) + 1)]
         [] ins = "RTI" -> [SetP(Pull(n, 3), Pulled(n, 1))
                               EXCEPT !.pc = Pulled(n, 2) + 256 * Pulled(n, 3)]
         [] ins = "CLC" -> SetFlag(n, "C", FALSE)   [] ins = "SEC" -> SetFlag(n, "C", TRUE)
         [] ins = "CLI" -> SetFlag(n, "I", FALSE)   [] ins = "SEI" -> SetFlag(n, "I", TRUE)
         [] ins = "CLD" -> SetFlag(n, "D", FALSE)   [] ins = "SED" -> SetFlag(n, "D", TRUE)
         [] ins = "CLV" -> SetFlag(n, "V", FALSE)
         [] ins = "NOP" -> n
         [] ins = "BRK" -> [n EXCEPT !.halted = TRUE]

\* nes_cpu_step. "reads" and "writes" are history: the data addresses of the instruction.
NesCpuStep(n0, op, b1, b2) ==
    LET ins == CaseOf[op][2]
        mode == CaseOf[op][3]
        m == [n0 EXCEPT !.pc = U16(@ + 1), !.cycles = @ + CaseOf[op][4], !.reads = {}, !.writes = {}]
        a == IF mode = "imm" THEN m.pc ELSE Addr(m, mode, b1, b2)
        n == [m EXCEPT !.pc = U16(@ + Bytes(mode))]
        r == [n EXCEPT !.reads = IF mode = "imm" THEN {} ELSE {a}]
        word == b1 + 256 * b2
    IN CASE ins \in Loads -> WithOperand(r, ins, IF mode = "imm" THEN b1 ELSE At(n.mem, a))
         [] ins \in Stores -> StoreReg(n, ins, a)
         [] ins \in Modifies /\ mode # "acc" -> Modify(r, ins, a)
         [] ins \in Modifies /\ mode = "acc" -> ShiftAcc(n, ins)
         [] ins \in Transfers -> Transfer(n, ins)
         [] ins \in IncDecs -> IncDec(n, ins)
         [] ins \in Branches ->
              IF BranchTaken(n, ins) THEN [n EXCEPT !.pc = U16(@ + S8(b1))] ELSE n
         [] ins = "JMP" /\ mode = "ind" ->
              [n EXCEPT !.pc = At(n.mem, word)
                               + 256 * At(n.mem, (word \div 256) * 256 + U8(word + 1)),
                        !.reads = {word, (word \div 256) * 256 + U8(word + 1)}]
         [] OTHER -> Other(n, ins, b1, b2)
===========================================================================
