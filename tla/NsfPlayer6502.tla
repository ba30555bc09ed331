---------------------------- MODULE NsfPlayer6502 ----------------------------
(***************************************************************************)
(* The direct NSF player of 6502emu_sdl2_player: nsf_player.c drives the   *)
(* 6502 of nes_cpu.c.  A song's INIT and PLAY routines are called by       *)
(* nes_cpu_jsr, which pushes a sentinel return address, and runs the CPU   *)
(* until it halts on the BRK placed at that address or has spent a budget  *)
(* of cycles.  The tune's code is the environment: any sequence of         *)
(* instructions that pulls from the stack only what it pushed there, that  *)
(* may crash into a BRK and may never return.                              *)
(*                                                                         *)
(* ROM and the paged memory are seen in half banks of 2 KB, so that a ROM  *)
(* that ends inside a bank is distinguished from one that does not.        *)
(***************************************************************************)
EXTENDS Integers, Sequences

CONSTANTS
  Files,        \* the NSF files that load_nsf_data accepts
  Pages,        \* the 4 KB pages $5FF6-$5FFF select a bank for
  SramPages,    \* those at $6000-$7FFF, which nsf_player_start clears
  BankNumbers,  \* the bank numbers a tune selects
  NoFile,       \* the player holds no file
  StackSize,    \* 256 in the code: the stack pointer is a uint8_t
  Budget,       \* the 2000000 cycles of nes_cpu_jsr
  MaxFrames     \* bound: ticks of one song

ASSUME PlayerAssumption ==
  /\ SramPages \subseteq Pages
  /\ BankNumbers \subseteq Nat
  /\ StackSize \in Nat /\ StackSize >= 4
  /\ Budget \in Nat \ {0}
  /\ MaxFrames \in Nat
  /\ \A f \in Files : /\ f.size \in Nat /\ f.songs \in Nat
                      /\ f.use_bankswitch \in BOOLEAN
                      /\ f.bank \in [Pages \ SramPages -> Nat]
                      /\ f.direct \in [Pages -> Nat \X Nat]
  /\ NoFile \notin Files

VARIABLES
  file,         \* header, rom_data and rom_size
  rom_data,     \* rom_data is allocated
  loaded, playing, current_song, frames_played,
  mem,          \* mem[p][h]: which half bank of ROM half h of page p holds
  stack, sp,    \* $0100-$01FF and regs.sp
  pc, halted, cycles,
  call,         \* the routine nes_cpu_jsr is in
  own,          \* history: the bytes this call has on the stack, oldest first
  cut           \* history: a call of this song ended without returning

player == <<file, rom_data, loaded, playing, current_song, frames_played>>
cpu == <<stack, sp, pc, halted, cycles>>
vars == <<player, mem, cpu, call, own, cut>>

Top == StackSize - 1
Zero == -1          \* cleared memory
Own == -2           \* what the tune stored there itself
Cleared == [h \in 0..1 |-> Zero]

--------------------------------------------------------------------------
(* memory *)

\* The four copies of the code (initial banks, reload, $5FF8-$5FFF and
\* $5FF6-$5FF7): a bank past the end of the ROM copies nothing, one the ROM
\* ends in copies what there is and leaves the rest of the page alone.
CopyBank(page, size, b) ==
  [h \in 0..1 |-> IF 2 * b + h < size THEN 2 * b + h ELSE page[h]]

InitialBanks(m, f) ==
  [p \in Pages |-> IF p \in SramPages THEN m[p]
                   ELSE CopyBank(m[p], f.size, f.bank[p])]

\* A ROM without bank switching is copied to load_addr; f.direct[p] is what
\* the halves of page p get of it, half numbers from 1, 0 for nothing.
DirectCopy(f) ==
  [p \in Pages |-> [h \in 0..1 |-> f.direct[p][h + 1] - 1]]

MemAfterLoad(f) ==
  IF f.use_bankswitch THEN InitialBanks([p \in Pages |-> Cleared], f)
                      ELSE DirectCopy(f)

\* Mutant: nsf_player_start does not reload the banks.
StartKeepsBanks(m, f) ==
  [p \in Pages |-> IF p \in SramPages THEN Cleared ELSE m[p]]

\* nsf_player_start clears $6000-$7FFF, then reloads the banks.
MemAfterStart(m, f) ==
  LET sram == [p \in Pages |-> IF p \in SramPages THEN Cleared ELSE m[p]]
  IN  IF f.use_bankswitch THEN InitialBanks(sram, f) ELSE sram

--------------------------------------------------------------------------
(* the stack *)

\* The stack pointer is unsigned and wraps around; n is at most StackSize.
Below(s) == IF s = 0 THEN Top ELSE s - 1
Above(s, n) == IF s + n > Top THEN s + n - StackSize ELSE s + n

\* Mutant: the low byte first.
Push16LowFirst(st, s, hi, lo) == [st EXCEPT ![s] = lo, ![Below(s)] = hi]

\* push16: the high byte first.
Push16(st, s, hi, lo) == [st EXCEPT ![s] = hi, ![Below(s)] = lo]

\* RTS: pull16 takes the low byte first; where that return address leads.
ReturnsTo(st, s) ==
  LET lo == st[Above(s, 1)]
      hi == st[Above(s, 2)]
  IN  CASE hi = "exit_hi" /\ lo = "exit_lo" -> "exit"
        [] hi = "code_hi" /\ lo = "code_lo" -> "code"
        [] OTHER                            -> "wild"

Bytes == {"zero", "exit_hi", "exit_lo", "code_hi", "code_lo", "data"}

--------------------------------------------------------------------------
Init ==
  /\ file = NoFile
  /\ rom_data = FALSE /\ loaded = FALSE /\ playing = FALSE
  /\ current_song = 0 /\ frames_played = 0
  /\ mem = [p \in Pages |-> Cleared]
  /\ stack = [i \in 0..Top |-> "zero"] /\ sp = 0
  /\ pc = "code" /\ halted = FALSE /\ cycles = 0
  /\ call = "none" /\ own = <<>> /\ cut = FALSE

\* memset of the player, then load_nsf_data succeeds.
Load(f) ==
  /\ call = "none"
  /\ file' = f /\ rom_data' = TRUE /\ loaded' = TRUE /\ playing' = FALSE
  /\ current_song' = 0 /\ frames_played' = 0
  /\ mem' = MemAfterLoad(f)
  /\ stack' = [i \in 0..Top |-> "zero"] /\ sp' = Top
  /\ pc' = "code" /\ halted' = FALSE /\ cycles' = 0
  /\ cut' = FALSE
  /\ UNCHANGED <<call, own>>

\* It cannot open, read or allocate the file, or the file is no NSF: the
\* player stays as the memset left it.
LoadFails ==
  /\ call = "none"
  /\ file' = NoFile /\ rom_data' = FALSE /\ loaded' = FALSE /\ playing' = FALSE
  /\ current_song' = 0 /\ frames_played' = 0
  /\ mem' = [p \in Pages |-> Cleared]
  /\ stack' = [i \in 0..Top |-> "zero"] /\ sp' = 0
  /\ pc' = "code" /\ halted' = FALSE /\ cycles' = 0
  /\ cut' = FALSE
  /\ UNCHANGED <<call, own>>

\* nes_cpu_jsr up to nes_cpu_run, on a stack st whose pointer is s.
Jsr(routine, st, s) ==
  /\ stack' = Push16(st, s, "exit_hi", "exit_lo")
  /\ sp' = Below(Below(s))
  /\ pc' = "code" /\ halted' = FALSE
  /\ call' = routine /\ own' = <<"exit_hi", "exit_lo">>

\* Mutant: the stack pointer stays where the last song left it.
StartSpKept == sp

\* regs.sp as nsf_player_start leaves it for INIT.
StartSp == Top

\* nsf_player_start up to its call of INIT.
Start(song) ==
  /\ call = "none" /\ loaded
  /\ song < file.songs
  /\ current_song' = song /\ frames_played' = 0
  /\ mem' = MemAfterStart(mem, file)
  /\ cycles' = 0
  /\ Jsr("init", [i \in 0..Top |-> "zero"], StartSp)
  /\ cut' = FALSE
  /\ UNCHANGED <<file, rom_data, loaded, playing>>

\* nsf_player_tick up to its call of PLAY.
Tick ==
  /\ call = "none" /\ playing
  /\ frames_played < MaxFrames
  /\ cycles' = 0
  /\ Jsr("play", stack, sp)
  /\ UNCHANGED <<player, mem, cut>>

\* Mutant: a freed player goes on playing.
FreeKeepsPlaying ==
  /\ call = "none"
  /\ rom_data' = FALSE /\ loaded' = FALSE
  /\ UNCHANGED <<file, playing, current_song, frames_played, mem, cpu, call,
                 own, cut>>

Free ==
  /\ call = "none"
  /\ rom_data' = FALSE /\ loaded' = FALSE /\ playing' = FALSE
  /\ UNCHANGED <<file, current_song, frames_played, mem, cpu, call, own, cut>>

--------------------------------------------------------------------------
(* nes_cpu_step, by what the instruction does to the stack and the banks *)

\* The loop condition of nes_cpu_run: cycles is 0 when a call begins.
MayStep == ~halted /\ cycles < Budget

\* Mutant: a cycle counter that saturates below the budget.
SpendSaturating(n) ==
  cycles' = IF cycles + n < Budget THEN cycles + n ELSE Budget - 1

Spend(n) == cycles' = cycles + n

Executes == call # "none" /\ MayStep /\ pc = "code"

\* No stack, no bank: 2 to 7 cycles; an unknown opcode is a NOP.
Work(n) ==
  /\ Executes
  /\ Spend(n)
  /\ UNCHANGED <<player, mem, stack, sp, pc, halted, call, own, cut>>

\* JSR, 6 cycles.
JsrAbs ==
  /\ Executes /\ Len(own) + 2 <= StackSize
  /\ stack' = Push16(stack, sp, "code_hi", "code_lo")
  /\ sp' = Below(Below(sp))
  /\ own' = Append(Append(own, "code_hi"), "code_lo")
  /\ Spend(6)
  /\ UNCHANGED <<player, mem, pc, halted, call, cut>>

\* RTS, 6 cycles: of a routine that has pulled the data it pushed.
Rts ==
  /\ Executes /\ own[Len(own)] # "data"
  /\ pc' = ReturnsTo(stack, sp)
  /\ sp' = Above(sp, 2)
  /\ own' = SubSeq(own, 1, Len(own) - 2)
  /\ Spend(6)
  /\ UNCHANGED <<player, mem, stack, halted, call, cut>>

\* PHA and PHP, 3 cycles.
Pha ==
  /\ Executes /\ Len(own) + 1 <= StackSize
  /\ stack' = [stack EXCEPT ![sp] = "data"]
  /\ sp' = Below(sp)
  /\ own' = Append(own, "data")
  /\ Spend(3)
  /\ UNCHANGED <<player, mem, pc, halted, call, cut>>

\* PLA and PLP, 4 cycles.
Pla ==
  /\ Executes /\ own[Len(own)] = "data"
  /\ sp' = Above(sp, 1)
  /\ own' = SubSeq(own, 1, Len(own) - 1)
  /\ Spend(4)
  /\ UNCHANGED <<player, mem, stack, pc, halted, call, cut>>

\* Mutant: only the first half of the bank is copied.
SelectHalfBank(p, b) ==
  /\ Executes /\ file.use_bankswitch
  /\ mem' = [mem EXCEPT ![p][0] = CopyBank(mem[p], file.size, b)[0]]
  /\ Spend(4)
  /\ UNCHANGED <<player, stack, sp, pc, halted, call, own, cut>>

\* A store to $5FF6-$5FFF: cpu_write_handler copies the bank in.
SelectBank(p, b) ==
  /\ Executes /\ file.use_bankswitch
  /\ mem' = [mem EXCEPT ![p] = CopyBank(@, file.size, b)]
  /\ Spend(4)
  /\ UNCHANGED <<player, stack, sp, pc, halted, call, own, cut>>

\* A store to a page: mem_write writes it, ROM or not.
StorePage(p, h) ==
  /\ Executes
  /\ mem' = [mem EXCEPT ![p][h] = Own]
  /\ Spend(4)
  /\ UNCHANGED <<player, stack, sp, pc, halted, call, own, cut>>

\* BRK, 7 cycles: the sentinel's, or one the tune runs into.
Brk ==
  /\ call # "none" /\ MayStep
  /\ halted' = TRUE
  /\ Spend(7)
  /\ UNCHANGED <<player, mem, stack, sp, pc, call, own, cut>>

\* nes_cpu_run ends, and with it the call.
Returns ==
  /\ call # "none" /\ ~MayStep
  /\ call' = "none" /\ own' = <<>>
  /\ cut' = (cut \/ own # <<>>)
  /\ playing' = (playing \/ call = "init")
  /\ frames_played' = IF call = "play" THEN frames_played + 1 ELSE frames_played
  /\ UNCHANGED <<file, rom_data, loaded, current_song, mem, cpu>>

Step ==
  \/ \E n \in {2, 7} : Work(n)
  \/ JsrAbs \/ Rts \/ Pha \/ Pla \/ Brk
  \/ \E p \in Pages, b \in BankNumbers : SelectBank(p, b)
  \/ \E p \in Pages, h \in 0..1 : StorePage(p, h)

Next ==
  \/ \E f \in Files : Load(f)
  \/ LoadFails
  \/ \E f \in Files : \E song \in 0..f.songs : Start(song)
  \/ Tick
  \/ Free
  \/ Step
  \/ Returns

\* A call is one C function: it runs on until it returns.
Spec == Init /\ [][Next]_vars /\ WF_vars(Step \/ Returns)

--------------------------------------------------------------------------
(* properties *)

\* However many earlier calls were cut off with their frames still on the
\* stack, and wherever the stack pointer has wrapped to, an RTS of the call
\* in progress goes back to its own caller: to the sentinel exactly when the
\* routine the player called is done (nes_cpu_jsr, push16, pull16).
RtsFindsItsCaller ==
  call # "none" => pc = IF own = <<>> THEN "exit" ELSE "code"

\* While every INIT and PLAY call of the song has returned, the stack is
\* empty between calls, whatever the songs before it left there.
StackEmptyBetweenCalls ==
  call = "none" /\ playing /\ ~cut => sp = Top

\* Why these are inductive.  The bytes of this call lie above the stack
\* pointer, the latest first.
OwnBytesOnStack ==
  /\ Len(own) <= StackSize
  /\ \A i \in 1..Len(own) : stack[Above(sp, Len(own) + 1 - i)] = own[i]

\* They are the sentinel, and above it data and whole return addresses.
OwnIsWellFormed ==
  /\ own # <<>> => Len(own) >= 2 /\ own[1] = "exit_hi" /\ own[2] = "exit_lo"
  /\ \A i \in 3..Len(own) : own[i] \in {"code_hi", "code_lo", "data"}
  /\ \A i \in 3..Len(own) :
       own[i] = "code_hi" => i < Len(own) /\ own[i + 1] = "code_lo"
  /\ \A i \in 3..Len(own) :
       own[i] = "code_lo" => i > 3 /\ own[i - 1] = "code_hi"

\* While no call was cut off they are all there is on the stack.
NothingBelowOwn ==
  (playing \/ call # "none") /\ ~cut => Above(sp, Len(own)) = Top

StackTyped ==
  /\ stack \in [0..Top -> Bytes] /\ sp \in 0..Top /\ own \in Seq(Bytes)
  /\ call = "none" => own = <<>>

\* The inductive invariant of the stack.
StackIInv == /\ StackTyped /\ OwnBytesOnStack /\ OwnIsWellFormed
             /\ NothingBelowOwn /\ RtsFindsItsCaller

\* A song that is being played, and the bank switching of its routines, has
\* a file: nothing of the player runs on one that was freed or failed to
\* load, and the song number is one of the file's.
PlaysALoadedFile ==
  playing \/ call # "none" =>
    loaded /\ rom_data /\ file \in Files /\ current_song < file.songs

\* INIT finds the memory the file describes, whatever songs were played and
\* whatever banks they selected before: SRAM cleared and, in a file with
\* bank switching, every half bank the header selects in its place.
InitFindsInitialBanks ==
  call = "init" /\ cycles = 0 =>
    /\ \A p \in SramPages : mem[p] = Cleared
    /\ file.use_bankswitch =>
         \A p \in Pages \ SramPages, h \in 0..1 :
           2 * file.bank[p] + h < file.size => mem[p][h] = 2 * file.bank[p] + h

\* A page never shows halves of two different banks of the ROM unless the
\* first of them is the bank the ROM ends in, or the tune stored there.
TornPagesAreOfTheLastBank ==
  loaded /\ file.use_bankswitch =>
    \A p \in Pages :
      mem[p][0] >= 0 /\ mem[p][1] >= 0 /\ mem[p][1] # mem[p][0] + 1
        => mem[p][0] = file.size - 1

\* Every call returns to the player, though the tune's routine may loop
\* forever: the budget of nes_cpu_run cuts it off.
EveryCallReturns == call # "none" ~> call = "none"

=============================================================================
