---------------------------- MODULE CpuLockstep ----------------------------
(***************************************************************************)
(* The two 6502 cores side by side on one tune. The repository holds two   *)
(* players of NSF files, each with a core of its own: a tune must do the   *)
(* same on both. The tune is the environment: what is found at the program *)
(* counter is any instruction that agrees with what was stored there.      *)
(* game-music-emu's core runs in pieces, from one call of run() to the     *)
(* next, and forgets its lazy flags in between; the other one steps. They  *)
(* part where a program leaves what both players give it: the RAM and the  *)
(* cartridge, through instructions that lie within one piece of them.      *)
(***************************************************************************)
EXTENDS GmeCpu, NsfPlayerCpu

CONSTANTS Starts,        \* register contents to begin with: <<a, x, y, sp, flags>>
          StartPc,
          Opcodes,       \* the first instruction
          Follow,        \* the instructions after it
          Operands,      \* pairs of operand bytes
          Rom,           \* the addresses that the banks in place fill from the file
          Seams,         \* starts of banks that do not follow the one before in the file
          Durations,     \* clocks asked of a run
          MaxSteps

\* Bits 4 and 5 of a status are no flags of the machine.
ASSUME LockstepAssumption ==
    /\ \A a \in Word : Fill(a) \in Byte
    /\ Starts \subseteq Byte \X Byte \X Byte \X Byte \X SUBSET {"N", "V", "D", "I", "Z", "C"}
    /\ StartPc \in Word
ASSUME TuneAssumption ==
    /\ Opcodes \subseteq Byte /\ Follow \subseteq Byte
    /\ Operands \subseteq Byte \X Byte
\* run_clocks asks for less than 2^15 clocks, since s_time has 16 bits.
ASSUME RunAssumption == \A d \in Durations : d \in Int /\ 1 <= d /\ d <= 32767
\* The file lies in the upper half of the memory, in banks of 4 KB.
ASSUME FileAssumption ==
    /\ Rom \subseteq {a \in Word : 32768 <= a}
    /\ Seams \subseteq {4096 * bank : bank \in 9 .. 15}

VARIABLES g,             \* the copies of the registers within run(), memory and time
          r,             \* Nes_Cpu::r, kept between two runs
          n,             \* the registers of the stepping core
          running,       \* inside run()
          steps, late,   \* instructions run; clocks of theirs that depend on the operands
          apart          \* the tune has left what both cores define

vars == <<g, r, n, running, steps, late, apart>>

\* What holds the same on both: the RAM, and the file, which is only read.
Readable == LowRam \cup Sram \cup Rom
Writable == LowRam \cup Sram \cup ApuRegs

Init ==
    /\ \E s \in Starts :
          /\ r = [pc |-> StartPc, a |-> s[1], x |-> s[2], y |-> s[3], sp |-> s[4],
                  status |-> ByteOf(s[5])]
          /\ n = [pc |-> StartPc, a |-> s[1], x |-> s[2], y |-> s[3], sp |-> s[4],
                  p |-> s[5] \cup {"U"}, mem |-> Untouched, apu |-> <<>>, cycles |-> 0,
                  halted |-> FALSE, reads |-> {}, writes |-> {}]
    /\ g = [pc |-> 0, a |-> 0, x |-> 0, y |-> 0, sp |-> 256, status |-> {}, nz |-> 0, c |-> 0,
            s_time |-> 0, base |-> 0, end_time |-> 0, mem |-> Untouched, apu |-> <<>>,
            errors |-> 0, stopped |-> FALSE]
    /\ running = FALSE /\ steps = 0 /\ late = 0 /\ apart = FALSE

\* run(): the end is set from now, the registers are taken over.
StartRun(d) ==
    /\ ~running /\ ~apart /\ steps < MaxSteps
    /\ LET h == SetEndTime(g, Time(g) + d)
       IN g' = SetStatus([h EXCEPT !.pc = r.pc, !.a = r.a, !.x = r.x, !.y = r.y,
                                   !.sp = SetSp(r.sp)], r.status)
    /\ running' = TRUE
    /\ UNCHANGED <<r, n, steps, late, apart>>

\* The bytes of an instruction, as the tune has them at pc.
Code(op, b1, b2) == LET all == <<op, b1, b2>> IN SubSeq(all, 1, 1 + Bytes(CaseOf[op][3]))
Found(pc, code) ==
    /\ pc \in Readable
    /\ \A i \in DOMAIN code :
          U16(pc + i - 1) \in DOMAIN n.mem => n.mem[U16(pc + i - 1)] = code[i]
WithCode(m, pc, code) ==
    LET span == {U16(pc + i - 1) : i \in DOMAIN code}
    IN [a \in DOMAIN m \cup span |-> IF a \in span THEN code[U16(a - pc) + 1] ELSE m[a]]

\* run() takes the operands through the host pointer of the opcode's page (instr). Beyond the end
\* of the RAM, of the cartridge's RAM, of the file and of a bank before a seam it points to
\* whatever lies there; nes_cpu_step goes on at the next address.
Beyond(a) == a \notin Readable \/ a \in {32768} \cup Seams
Straight(pc, code) == \A i \in 1 .. Len(code) - 1 : ~Beyond(pc + i)
Behind(pc, code, o) ==
    IF Straight(pc, code) THEN {o} ELSE {q \in Operands : Beyond(pc + 1) \/ q[1] = o[1]}

\* The clocks that page crossings and branches taken add, by the rule of the 6502.
Penalty(m, op, b1, b2) ==
    LET mode == CaseOf[op][3]
        from == IF mode = "izy" THEN Pointer(m, b1) ELSE b1 + 256 * b2
        next == U16(m.pc + 2)
    IN CASE CaseOf[op][2] \in Loads /\ mode \in {"abx", "aby", "izy"} ->
              IF Addr(m, mode, b1, b2) \div 256 = from \div 256 THEN 0 ELSE 1
         [] CaseOf[op][2] \in Branches /\ BranchTaken(m, CaseOf[op][2]) ->
              IF U16(next + S8(b1)) \div 256 = next \div 256 THEN 1 ELSE 2
         [] OTHER -> 0
\* Where the cores part: BRK, opcodes of no official instruction, and LDX and LDY beyond $FFFF.
Parts(op, b1, b2) ==
    \/ op \notin Official \/ op = 0
    \/ op \in {190, 188} /\ b1 + 256 * b2 + (IF op = 190 THEN n.y ELSE n.x) > 65535

\* An instruction with the operands o for the one core and q for the other. It parts them also
\* when its operands lie beyond such an end, or when it reads or writes where the players are not the
\* same memory: mirrors, status registers, open bus, bank registers, ROM.
Execute(op, o, q) ==
    LET code == Code(op, o[1], o[2])
        n0 == [n EXCEPT !.mem = WithCode(@, n.pc, code)]
        n1 == NesCpuStep(n0, op, o[1], o[2])
    IN /\ running /\ ~apart /\ g.s_time < 0 /\ steps < MaxSteps
       /\ Found(n.pc, code)
       /\ n' = n1
       /\ g' = GmeStep([g EXCEPT !.mem = WithCode(@, g.pc, code)], op, q[1], q[2])
       /\ steps' = steps + 1
       /\ late' = late + Penalty(n0, op, o[1], o[2])
       /\ apart' = (\/ Parts(op, o[1], o[2]) \/ ~Straight(n.pc, code)
                    \/ ~(n1.reads \subseteq Readable) \/ ~(n1.writes \subseteq Writable))
       /\ UNCHANGED <<r, running>>

\* The program runs out of the RAM and the cartridge: what follows is not the same on both.
Astray ==
    /\ running /\ ~apart /\ g.s_time < 0 /\ steps < MaxSteps
    /\ n.pc \notin Readable
    /\ apart' = TRUE
    /\ UNCHANGED <<g, r, n, running, steps, late>>

\* out_of_time and stop: the registers go back to r.
LeaveRun ==
    /\ running /\ (g.s_time >= 0 \/ g.stopped)
    /\ r' = [pc |-> g.pc, a |-> g.a, x |-> g.x, y |-> g.y, sp |-> GetSp(g),
             status |-> ByteOf(CalcStatus(g))]
    /\ running' = FALSE
    /\ UNCHANGED <<g, n, steps, late, apart>>

Next ==
    \/ \E d \in Durations : StartRun(d)
    \/ \E op \in (IF steps = 0 THEN Opcodes ELSE Follow), o \in Operands :
          /\ CaseOf[op][3] \in {"none", "acc"} /\ op \in Official => o = CHOOSE p \in Operands : TRUE
          /\ \E q \in Behind(n.pc, Code(op, o[1], o[2]), o) : Execute(op, o, q)
    \/ Astray
    \/ LeaveRun
Spec == Init /\ [][Next]_vars

---------------------------------------------------------------------------
(* Properties *)

\* The registers of game-music-emu's core, wherever they are kept.
Gme == IF running THEN [pc |-> g.pc, a |-> g.a, x |-> g.x, y |-> g.y, sp |-> GetSp(g),
                        flags |-> CalcStatus(g)]
       ELSE [pc |-> r.pc, a |-> r.a, x |-> r.x, y |-> r.y, sp |-> r.sp,
             flags |-> FlagsOf(r.status)]

\* A program of official instructions other than BRK that fetches and reads from the RAM and the
\* cartridge and writes to the RAM, the cartridge's RAM and the sound chip does the same on both
\* cores, one with lazy flags and code shared through gotos and fall-through, one with a case per
\* opcode: after every instruction, and across the end of a run, they have the same registers,
\* flags and RAM, and the same writes have reached the sound chip in the same order. This ends
\* with the first instruction that is none of these, or whose operands lie beyond the end of a piece of
\* the memory that run() maps (Beyond).
SameMachine ==
    ~apart =>
        /\ Gme = [pc |-> n.pc, a |-> n.a, x |-> n.x, y |-> n.y, sp |-> n.sp,
                  flags |-> n.p \ {"U", "B"}]
        /\ \A a \in (DOMAIN g.mem \cup DOMAIN n.mem) \ ApuRegs : At(g.mem, a) = At(n.mem, a)
        /\ g.apu = n.apu

\* On such a program the clock of game-music-emu's core runs ahead of the fixed cycles of the
\* other one by exactly the page crossings of reads and the branches taken; moving the end of a
\* run (run, SEI, PLP) changes its base and never its time. The 16 bits of s_time always hold it.
ClocksAgree ==
    ~apart => /\ Time(g) = n.cycles + late
              /\ -32768 <= g.s_time /\ g.s_time < 32767
===========================================================================
