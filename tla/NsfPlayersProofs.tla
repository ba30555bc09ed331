--------------------------- MODULE NsfPlayersProofs ---------------------------
(***************************************************************************)
(* The two players of NSF files. The one with the stepping 6502: its stack *)
(* and file, for every stack size, cycle budget and set of files, and for  *)
(* tunes that crash or never return. The one of game-music-emu: the        *)
(* accounting of Music_Emu's output stream, for every buffer size,         *)
(* lookahead and silence limit, and every sequence of calls.               *)
(***************************************************************************)
EXTENDS NsfPlayer6502, MusicStream, SequenceTheorems, TLAPS

\* Moving the stack pointer by a push moves what is above it one further.
LEMMA BelowIn == ASSUME NEW s \in 0..Top PROVE Below(s) \in 0..Top
  BY PlayerAssumption DEF Below, Top

LEMMA AboveIn == ASSUME NEW s \in 0..Top, NEW n \in 0..StackSize
                 PROVE  Above(s, n) \in 0..Top
  BY PlayerAssumption DEF Above, Top

LEMMA AboveBelow == ASSUME NEW s \in 0..Top, NEW n \in 1..StackSize
                    PROVE  Above(Below(s), n) = Above(s, n - 1)
  BY PlayerAssumption DEF Above, Below, Top

\* Popping m of them moves the rest m nearer.
LEMMA AboveAbove == ASSUME NEW s \in 0..Top, NEW m \in 0..StackSize, NEW n \in 0..StackSize,
                           m + n <= StackSize
                    PROVE  Above(Above(s, m), n) = Above(s, m + n)
  BY PlayerAssumption DEF Above, Top

\* The cells above the stack pointer are not the one a push stores in, until
\* they are as many as the stack has.
LEMMA AboveDiffers == ASSUME NEW s \in 0..Top, NEW n \in 1..(StackSize - 1)
                      PROVE  Above(s, n) # s
  BY PlayerAssumption DEF Above, Top

\* The stack pointer after n pushed bytes, n bytes below where it was.
LEMMA AboveZero == ASSUME NEW s \in 0..Top PROVE Above(s, 0) = s
  BY PlayerAssumption DEF Above, Top

--------------------------------------------------------------------------
\* The bytes o lie on the stack st above the pointer s, the last one first.
Holds(st, s, o) ==
  /\ Len(o) <= StackSize
  /\ \A i \in 1..Len(o) : st[Above(s, Len(o) + 1 - i)] = o[i]

\* push8's store.
Store(st, s, b) == [st EXCEPT ![s] = b]

\* push8 adds a byte, while there is room for it.
LEMMA PushHolds ==
  ASSUME NEW st \in [0..Top -> Bytes], NEW s \in 0..Top,
         NEW o \in Seq(Bytes), NEW b \in Bytes,
         Holds(st, s, o), Len(o) + 1 <= StackSize
  PROVE  /\ Store(st, s, b) \in [0..Top -> Bytes]
         /\ Append(o, b) \in Seq(Bytes)
         /\ Holds(Store(st, s, b), Below(s), Append(o, b))
         /\ Above(Below(s), Len(o) + 1) = Above(s, Len(o))
  <1> DEFINE st1 == Store(st, s, b)
             o1  == Append(o, b)
  <1> USE DEF Store
  <1>1. /\ o1 \in Seq(Bytes) /\ Len(o1) = Len(o) + 1 /\ Len(o) \in Nat
        /\ \A i \in 1..Len(o) : o1[i] = o[i]
        /\ o1[Len(o) + 1] = b
    BY AppendProperties
  <1>2. Above(Below(s), Len(o) + 1) = Above(s, Len(o))
    BY <1>1, AboveBelow
  <1>3. ASSUME NEW i \in 1..Len(o1)
        PROVE  st1[Above(Below(s), Len(o1) + 1 - i)] = o1[i]
    <2>1. Len(o1) + 1 - i \in 1..StackSize
      BY <1>1, PlayerAssumption
    <2>2. Above(Below(s), Len(o1) + 1 - i) = Above(s, Len(o) + 1 - i)
      BY <1>1, <2>1, AboveBelow
    <2>3. CASE i = Len(o1)
      <3>1. Above(s, Len(o) + 1 - i) = s
        BY <1>1, <2>3, AboveZero
      <3>2. st1[s] = b
        OBVIOUS
      <3> QED
        BY <1>1, <2>2, <2>3, <3>1, <3>2
    <2>4. CASE i # Len(o1)
      <3>1. /\ i \in 1..Len(o) /\ Len(o) + 1 - i \in 1..(StackSize - 1)
            /\ Len(o) + 1 - i \in 0..StackSize
        BY <1>1, <2>4, PlayerAssumption
      <3>2. Above(s, Len(o) + 1 - i) # s /\ Above(s, Len(o) + 1 - i) \in 0..Top
        BY <3>1, AboveDiffers, AboveIn
      <3>3. st1[Above(s, Len(o) + 1 - i)] = st[Above(s, Len(o) + 1 - i)]
        BY <3>2
      <3> QED
        BY <1>1, <2>2, <3>1, <3>3 DEF Holds
    <2> QED
      BY <2>3, <2>4
  <1>4. Holds(st1, Below(s), o1)
    BY <1>1, <1>3 DEF Holds
  <1> QED
    BY <1>1, <1>2, <1>4

\* pull8 and pull16 take the last m bytes.
LEMMA PopHolds ==
  ASSUME NEW st, NEW s \in 0..Top, NEW o \in Seq(Bytes),
         NEW m \in 1..Len(o), Holds(st, s, o)
  PROVE  LET o1 == SubSeq(o, 1, Len(o) - m)
         IN  /\ o1 \in Seq(Bytes) /\ Len(o1) = Len(o) - m
             /\ \A i \in 1..(Len(o) - m) : o1[i] = o[i]
             /\ Holds(st, Above(s, m), o1)
             /\ Above(Above(s, m), Len(o1)) = Above(s, Len(o))
  <1> DEFINE o1 == SubSeq(o, 1, Len(o) - m)
  <1>1. /\ o1 \in Seq(Bytes) /\ Len(o1) = Len(o) - m /\ Len(o) \in Nat
        /\ \A i \in 1..(Len(o) - m) : o1[i] = o[i]
    <2>1. Len(o) \in Nat /\ m \in Nat /\ Len(o) - m \in 0..Len(o)
      BY LenProperties
    <2> QED
      BY <2>1, SubSeqProperties
  <1>2. ASSUME NEW i \in 0..(Len(o) - m)
        PROVE  Above(Above(s, m), i) = Above(s, m + i)
    BY <1>1, AboveAbove, PlayerAssumption DEF Holds
  <1>3. ASSUME NEW i \in 1..Len(o1)
        PROVE  st[Above(Above(s, m), Len(o1) + 1 - i)] = o1[i]
    <2>1. i \in 1..Len(o) /\ Len(o1) + 1 - i \in 0..(Len(o) - m)
          /\ m + (Len(o1) + 1 - i) = Len(o) + 1 - i
      BY <1>1
    <2> QED
      BY <1>1, <1>2, <2>1 DEF Holds
  <1>4. Above(Above(s, m), Len(o1)) = Above(s, Len(o))
    <2>1. Len(o1) \in 0..(Len(o) - m) /\ m + Len(o1) = Len(o)
      BY <1>1
    <2> QED
      BY <1>2, <2>1
  <1>5. Holds(st, Above(s, m), o1)
    BY <1>1, <1>3, PlayerAssumption DEF Holds
  <1> QED
    BY <1>1, <1>4, <1>5

\* push16 adds two.
LEMMA Push16Holds ==
  ASSUME NEW st \in [0..Top -> Bytes], NEW s \in 0..Top, NEW o \in Seq(Bytes),
         NEW hi \in Bytes, NEW lo \in Bytes,
         Holds(st, s, o), Len(o) + 2 <= StackSize
  PROVE  /\ Push16(st, s, hi, lo) \in [0..Top -> Bytes]
         /\ Below(Below(s)) \in 0..Top
         /\ Append(Append(o, hi), lo) \in Seq(Bytes)
         /\ Holds(Push16(st, s, hi, lo), Below(Below(s)), Append(Append(o, hi), lo))
         /\ Above(Below(Below(s)), Len(o) + 2) = Above(s, Len(o))
  <1> DEFINE st1 == Store(st, s, hi)
             o1  == Append(o, hi)
             s1  == Below(s)
  <1>1. /\ Len(o) \in Nat /\ Len(o1) = Len(o) + 1
        /\ Len(o) + 1 <= StackSize /\ Len(o1) + 1 <= StackSize
    <2>1. Len(o) \in Nat /\ Len(o1) = Len(o) + 1
      BY LenProperties, AppendProperties
    <2> QED
      BY <2>1, PlayerAssumption
  <1>2. s1 \in 0..Top /\ Below(s1) \in 0..Top
    BY BelowIn
  <1>3. /\ st1 \in [0..Top -> Bytes] /\ o1 \in Seq(Bytes)
        /\ Holds(st1, s1, o1)
        /\ Above(s1, Len(o) + 1) = Above(s, Len(o))
    BY <1>1, PushHolds
  <1> HIDE DEF o1, st1, s1
  <1>4. /\ Store(st1, s1, lo) \in [0..Top -> Bytes]
        /\ Append(o1, lo) \in Seq(Bytes)
        /\ Holds(Store(st1, s1, lo), Below(s1), Append(o1, lo))
        /\ Above(Below(s1), Len(o1) + 1) = Above(s1, Len(o1))
    BY <1>1, <1>2, <1>3, PushHolds
  <1>5. Push16(st, s, hi, lo) = Store(st1, s1, lo)
    BY DEF Push16, Store, st1, s1
  <1> QED
    BY <1>1, <1>2, <1>3, <1>4, <1>5 DEF o1, s1

\* nes_cpu_jsr leaves the sentinel's address alone on the call's stack.
LEMMA JsrHolds ==
  ASSUME NEW st \in [0..Top -> Bytes], NEW s \in 0..Top, NEW routine, Jsr(routine, st, s)
  PROVE  /\ stack' \in [0..Top -> Bytes] /\ sp' \in 0..Top /\ own' \in Seq(Bytes)
         /\ Holds(stack', sp', own') /\ OwnIsWellFormed'
         /\ Len(own') = 2 /\ own' # <<>> /\ Above(sp', 2) = s /\ pc' = "code"
  <1> DEFINE none == <<>>
  <1>1. /\ own' = Append(Append(none, "exit_hi"), "exit_lo")
        /\ own' = <<"exit_hi", "exit_lo">>
        /\ stack' = Push16(st, s, "exit_hi", "exit_lo") /\ sp' = Below(Below(s))
        /\ pc' = "code"
    BY DEF Jsr
  <1>2. /\ none \in Seq(Bytes) /\ Len(none) = 0 /\ Holds(st, s, none)
        /\ "exit_hi" \in Bytes /\ "exit_lo" \in Bytes
        /\ Len(none) + 2 <= StackSize
    BY PlayerAssumption DEF Holds, Bytes
  <1>3. /\ stack' \in [0..Top -> Bytes] /\ sp' \in 0..Top /\ own' \in Seq(Bytes)
        /\ Holds(stack', sp', own') /\ Above(sp', 2) = Above(s, 0)
    <2> DEFINE st2 == Push16(st, s, "exit_hi", "exit_lo")
               s2  == Below(Below(s))
               o2  == Append(Append(none, "exit_hi"), "exit_lo")
    <2> HIDE DEF none
    <2>1. /\ st2 \in [0..Top -> Bytes] /\ s2 \in 0..Top /\ o2 \in Seq(Bytes)
          /\ Holds(st2, s2, o2) /\ Above(s2, Len(none) + 2) = Above(s, Len(none))
      <3>1. ASSUME NEW hi \in Bytes, NEW lo \in Bytes, NEW o \in Seq(Bytes),
                   Holds(st, s, o), Len(o) + 2 <= StackSize
            PROVE  /\ Push16(st, s, hi, lo) \in [0..Top -> Bytes]
                   /\ Append(Append(o, hi), lo) \in Seq(Bytes)
                   /\ Holds(Push16(st, s, hi, lo), s2, Append(Append(o, hi), lo))
                   /\ Above(s2, Len(o) + 2) = Above(s, Len(o))
        BY <3>1, Push16Holds
      <3>2. s2 \in 0..Top
        BY BelowIn
      <3> QED
        BY <1>2, <3>1, <3>2
    <2>2. Len(none) + 2 = 2
      BY <1>2
    <2> QED
      BY <1>1, <1>2, <2>1, <2>2
  <1>4. Len(own') = 2 /\ own' # <<>> /\ OwnIsWellFormed'
    <2>1. /\ own'[1] = "exit_hi" /\ own'[2] = "exit_lo" /\ Len(own') = 2
      BY <1>1
    <2> QED
      BY <1>2, <2>1 DEF OwnIsWellFormed
  <1> QED
    BY <1>1, <1>3, <1>4, AboveZero

--------------------------------------------------------------------------
(* the inductive invariant *)

LEMMA InitStack == Init => StackIInv
  <1> SUFFICES ASSUME Init PROVE StackIInv
    OBVIOUS
  <1>1. StackTyped
    BY PlayerAssumption DEF Init, StackTyped, Bytes, Top
  <1>2. OwnBytesOnStack /\ OwnIsWellFormed
    BY PlayerAssumption DEF Init, OwnBytesOnStack, OwnIsWellFormed
  <1>3. NothingBelowOwn /\ RtsFindsItsCaller
    BY DEF Init, NothingBelowOwn, RtsFindsItsCaller
  <1> QED
    BY <1>1, <1>2, <1>3 DEF StackIInv

\* What the cases below start from and prove.
LEMMA StackParts ==
  StackIInv <=> /\ StackTyped /\ Holds(stack, sp, own) /\ OwnIsWellFormed
                /\ NothingBelowOwn /\ RtsFindsItsCaller
  BY DEF StackIInv, Holds, OwnBytesOnStack

LEMMA LoadKeeps == ASSUME StackIInv, NEW f, Load(f) \/ LoadFails PROVE StackIInv'
  <1>1. /\ stack' = [i \in 0..Top |-> "zero"] /\ sp' \in {0, Top}
        /\ call' = "none" /\ own' = <<>> /\ playing' = FALSE
    BY DEF Load, LoadFails, StackIInv, StackTyped
  <1>2. StackTyped'
    BY <1>1, PlayerAssumption DEF StackTyped, Bytes, Top
  <1>3. OwnBytesOnStack' /\ OwnIsWellFormed'
    BY <1>1, PlayerAssumption DEF OwnBytesOnStack, OwnIsWellFormed
  <1>4. NothingBelowOwn' /\ RtsFindsItsCaller'
    BY <1>1 DEF NothingBelowOwn, RtsFindsItsCaller
  <1> QED
    BY <1>2, <1>3, <1>4 DEF StackIInv

LEMMA StartKeeps == ASSUME StackIInv, NEW song, Start(song) PROVE StackIInv'
  <1> DEFINE st == [i \in 0..Top |-> "zero"]
  <1>1. st \in [0..Top -> Bytes] /\ StartSp \in 0..Top
    BY PlayerAssumption DEF Bytes, Top, StartSp
  <1>2. Jsr("init", st, StartSp) /\ call' = "init"
    BY DEF Start, Jsr
  <1>3. /\ stack' \in [0..Top -> Bytes] /\ sp' \in 0..Top /\ own' \in Seq(Bytes)
        /\ Holds(stack', sp', own') /\ OwnIsWellFormed'
        /\ Len(own') = 2 /\ own' # <<>> /\ Above(sp', 2) = StartSp /\ pc' = "code"
    BY <1>1, <1>2, JsrHolds
  <1>4. NothingBelowOwn'
    BY <1>3 DEF NothingBelowOwn, StartSp
  <1>5. RtsFindsItsCaller'
    BY <1>3 DEF RtsFindsItsCaller
  <1>6. StackTyped'
    BY <1>2, <1>3 DEF StackTyped
  <1> QED
    BY <1>3, <1>4, <1>5, <1>6 DEF StackIInv, OwnBytesOnStack, Holds

LEMMA TickKeeps == ASSUME StackIInv, Tick PROVE StackIInv'
  <1>1. stack \in [0..Top -> Bytes] /\ sp \in 0..Top /\ own = <<>> /\ playing
    BY DEF Tick, StackIInv, StackTyped
  <1>2. Jsr("play", stack, sp) /\ call' = "play" /\ cut' = cut
    BY DEF Tick, Jsr
  <1>3. /\ stack' \in [0..Top -> Bytes] /\ sp' \in 0..Top /\ own' \in Seq(Bytes)
        /\ Holds(stack', sp', own') /\ OwnIsWellFormed'
        /\ Len(own') = 2 /\ own' # <<>> /\ Above(sp', 2) = sp /\ pc' = "code"
    BY <1>1, <1>2, JsrHolds
  <1>4. NothingBelowOwn'
    <2>1. ~cut => sp = Top
      <3>1. Above(sp, Len(own)) = sp
        BY <1>1, AboveZero
      <3> QED
        BY <1>1, <3>1 DEF StackIInv, NothingBelowOwn
    <2> QED
      BY <1>2, <1>3, <2>1 DEF NothingBelowOwn
  <1>5. RtsFindsItsCaller'
    BY <1>3 DEF RtsFindsItsCaller
  <1>6. StackTyped'
    BY <1>2, <1>3 DEF StackTyped
  <1> QED
    BY <1>3, <1>4, <1>5, <1>6 DEF StackIInv, OwnBytesOnStack, Holds

\* The instructions.  Those that leave the stack alone:
LEMMA OthersKeep ==
  ASSUME StackIInv,
         UNCHANGED <<stack, sp, own, pc, call, cut>>, playing' => playing
  PROVE  StackIInv'
  <1>1. StackTyped' /\ OwnBytesOnStack' /\ OwnIsWellFormed'
    BY DEF StackIInv, StackTyped, OwnBytesOnStack, OwnIsWellFormed
  <1>2. NothingBelowOwn' /\ RtsFindsItsCaller'
    BY DEF StackIInv, NothingBelowOwn, RtsFindsItsCaller
  <1> QED
    BY <1>1, <1>2 DEF StackIInv

LEMMA FreeKeeps == ASSUME StackIInv, Free PROVE StackIInv'
  BY OthersKeep DEF Free, cpu

LEMMA WorkKeeps == ASSUME StackIInv, NEW n, Work(n) PROVE StackIInv'
  BY OthersKeep DEF Work, player

LEMMA BankKeeps == ASSUME StackIInv, NEW p, NEW b, SelectBank(p, b) PROVE StackIInv'
  BY OthersKeep DEF SelectBank, player

LEMMA StoreKeeps == ASSUME StackIInv, NEW p, NEW h, StorePage(p, h) PROVE StackIInv'
  BY OthersKeep DEF StorePage, player

LEMMA BrkKeeps == ASSUME StackIInv, Brk PROVE StackIInv'
  BY OthersKeep DEF Brk, player

\* A call that is over has nothing on the stack; what it left there is counted
\* in cut.
LEMMA ReturnsKeeps == ASSUME StackIInv, Returns PROVE StackIInv'
  <1>1. /\ call # "none" /\ call' = "none" /\ own' = <<>>
        /\ stack' = stack /\ sp' = sp /\ cut' = (cut \/ own # <<>>)
    BY DEF Returns, cpu
  <1>2. StackTyped'
    BY <1>1 DEF StackIInv, StackTyped
  <1>3. OwnBytesOnStack' /\ OwnIsWellFormed'
    BY <1>1, PlayerAssumption DEF OwnBytesOnStack, OwnIsWellFormed
  <1>4. NothingBelowOwn'
    <2> SUFFICES ASSUME ~cut' PROVE Above(sp', Len(own')) = Top
      BY DEF NothingBelowOwn
    <2>1. ~cut /\ own = own'
      BY <1>1
    <2> QED
      BY <1>1, <2>1 DEF StackIInv, NothingBelowOwn
  <1>5. RtsFindsItsCaller'
    BY <1>1 DEF RtsFindsItsCaller
  <1> QED
    BY <1>2, <1>3, <1>4, <1>5 DEF StackIInv

\* JSR and PHA push on top of the sentinel.
LEMMA JsrAbsKeeps == ASSUME StackIInv, JsrAbs PROVE StackIInv'
  <1>1. /\ stack \in [0..Top -> Bytes] /\ sp \in 0..Top /\ own \in Seq(Bytes)
        /\ Holds(stack, sp, own) /\ Len(own) + 2 <= StackSize
        /\ call # "none" /\ pc = "code" /\ own # <<>> /\ Len(own) \in Nat /\ Len(own) >= 2
    BY StackParts, LenProperties
       DEF JsrAbs, Executes, StackTyped, RtsFindsItsCaller, OwnIsWellFormed
  <1>2. /\ stack' = Push16(stack, sp, "code_hi", "code_lo") /\ sp' = Below(Below(sp))
        /\ own' = Append(Append(own, "code_hi"), "code_lo")
        /\ UNCHANGED <<pc, call, cut, playing>>
    BY DEF JsrAbs, player
  <1>3. /\ stack' \in [0..Top -> Bytes] /\ sp' \in 0..Top /\ own' \in Seq(Bytes)
        /\ Holds(stack', sp', own') /\ Above(sp', Len(own) + 2) = Above(sp, Len(own))
    <2>1. "code_hi" \in Bytes /\ "code_lo" \in Bytes
      BY DEF Bytes
    <2> QED
      BY <1>1, <1>2, <2>1, Push16Holds
  <1>4. /\ Len(own') = Len(own) + 2 /\ own' # <<>>
        /\ \A i \in 1..Len(own) : own'[i] = own[i]
        /\ own'[Len(own) + 1] = "code_hi" /\ own'[Len(own) + 2] = "code_lo"
    <2> DEFINE one == Append(own, "code_hi")
    <2>1. /\ Len(one) = Len(own) + 1 /\ one \in Seq(Bytes)
          /\ \A i \in 1..Len(own) : one[i] = own[i]
          /\ one[Len(own) + 1] = "code_hi"
      BY <1>1, AppendProperties DEF Bytes
    <2> HIDE DEF one
    <2>2. /\ Len(Append(one, "code_lo")) = Len(one) + 1
          /\ \A i \in 1..Len(one) : Append(one, "code_lo")[i] = one[i]
          /\ Append(one, "code_lo")[Len(one) + 1] = "code_lo"
      BY <2>1, AppendProperties DEF Bytes
    <2>3. own' = Append(one, "code_lo")
      BY <1>2 DEF one
    <2> QED
      BY <1>1, <2>1, <2>2, <2>3
  <1>5. OwnIsWellFormed'
    BY <1>1, <1>4 DEF StackIInv, OwnIsWellFormed
  <1>6. NothingBelowOwn' /\ RtsFindsItsCaller' /\ StackTyped'
    BY <1>1, <1>2, <1>3, <1>4
       DEF StackIInv, NothingBelowOwn, RtsFindsItsCaller, StackTyped
  <1> QED
    BY <1>3, <1>5, <1>6 DEF StackIInv, OwnBytesOnStack, Holds

LEMMA PhaKeeps == ASSUME StackIInv, Pha PROVE StackIInv'
  <1>1. /\ stack \in [0..Top -> Bytes] /\ sp \in 0..Top /\ own \in Seq(Bytes)
        /\ Holds(stack, sp, own) /\ Len(own) + 1 <= StackSize /\ "data" \in Bytes
        /\ call # "none" /\ pc = "code" /\ own # <<>> /\ Len(own) \in Nat /\ Len(own) >= 2
    BY StackParts, LenProperties
       DEF Pha, Executes, StackTyped, RtsFindsItsCaller, OwnIsWellFormed, Bytes
  <1>2. /\ stack' = Store(stack, sp, "data") /\ sp' = Below(sp)
        /\ own' = Append(own, "data")
        /\ UNCHANGED <<pc, call, cut, playing>>
    BY DEF Pha, Store, player
  <1>3. /\ stack' \in [0..Top -> Bytes] /\ sp' \in 0..Top /\ own' \in Seq(Bytes)
        /\ Holds(stack', sp', own') /\ Above(sp', Len(own) + 1) = Above(sp, Len(own))
    BY <1>1, <1>2, PushHolds, BelowIn
  <1>4. /\ Len(own') = Len(own) + 1 /\ own' # <<>>
        /\ \A i \in 1..Len(own) : own'[i] = own[i]
        /\ own'[Len(own) + 1] = "data"
    BY <1>1, <1>2, AppendProperties
  <1>5. OwnIsWellFormed'
    BY <1>1, <1>4 DEF StackIInv, OwnIsWellFormed
  <1>6. NothingBelowOwn' /\ RtsFindsItsCaller' /\ StackTyped'
    BY <1>1, <1>2, <1>3, <1>4
       DEF StackIInv, NothingBelowOwn, RtsFindsItsCaller, StackTyped
  <1> QED
    BY <1>3, <1>5, <1>6 DEF StackIInv, OwnBytesOnStack, Holds

\* PLA takes data, and never a byte of the sentinel.
LEMMA PlaKeeps == ASSUME StackIInv, Pla PROVE StackIInv'
  <1>1. /\ stack \in [0..Top -> Bytes] /\ sp \in 0..Top /\ own \in Seq(Bytes)
        /\ Holds(stack, sp, own) /\ own[Len(own)] = "data"
        /\ call # "none" /\ pc = "code" /\ own # <<>> /\ Len(own) \in Nat /\ Len(own) > 2
    <2>1. /\ stack \in [0..Top -> Bytes] /\ sp \in 0..Top /\ own \in Seq(Bytes)
          /\ Holds(stack, sp, own) /\ own[Len(own)] = "data"
          /\ call # "none" /\ pc = "code" /\ own # <<>> /\ Len(own) \in Nat
          /\ Len(own) >= 2
      BY StackParts, LenProperties
         DEF Pla, Executes, StackTyped, RtsFindsItsCaller, OwnIsWellFormed
    <2>2. own[2] = "exit_lo"
      BY <2>1 DEF StackIInv, OwnIsWellFormed
    <2> QED
      BY <2>1, <2>2
  <1>2. /\ stack' = stack /\ sp' = Above(sp, 1)
        /\ own' = SubSeq(own, 1, Len(own) - 1)
        /\ UNCHANGED <<pc, call, cut, playing>>
    BY DEF Pla, player
  <1>3. /\ own' \in Seq(Bytes) /\ Len(own') = Len(own) - 1
        /\ \A i \in 1..(Len(own) - 1) : own'[i] = own[i]
        /\ Holds(stack', sp', own') /\ Above(sp', Len(own')) = Above(sp, Len(own))
    <2>1. 1 \in 1..Len(own)
      BY <1>1
    <2> QED
      BY <1>1, <1>2, <2>1, PopHolds
  <1>4. sp' \in 0..Top
    BY <1>1, <1>2, AboveIn, PlayerAssumption
  <1>5. own' # <<>>
    BY <1>1, <1>3
  <1>6. OwnIsWellFormed'
    <2>1. own[Len(own) - 1] # "code_hi"
      <3> SUFFICES ASSUME own[Len(own) - 1] = "code_hi" PROVE FALSE
        OBVIOUS
      <3>1. Len(own) - 1 # 2
        BY <1>1 DEF StackIInv, OwnIsWellFormed
      <3>2. Len(own) - 1 \in 3..Len(own)
        <4>1. \A n \in Nat : n > 2 /\ n - 1 # 2 => n - 1 \in 3..n
          OBVIOUS
        <4> QED
          BY <1>1, <3>1, <4>1
      <3>3. own[(Len(own) - 1) + 1] = "code_lo"
        BY <3>2 DEF StackIInv, OwnIsWellFormed
      <3> QED
        BY <1>1, <3>3
    <2> QED
      BY <1>1, <1>3, <1>5, <2>1 DEF StackIInv, OwnIsWellFormed
  <1>7. NothingBelowOwn' /\ RtsFindsItsCaller' /\ StackTyped'
    BY <1>1, <1>2, <1>3, <1>4, <1>5
       DEF StackIInv, NothingBelowOwn, RtsFindsItsCaller, StackTyped
  <1> QED
    BY <1>3, <1>6, <1>7 DEF StackIInv, OwnBytesOnStack, Holds

\* RTS takes a whole return address: the sentinel's when nothing else is left.
LEMMA RtsKeeps == ASSUME StackIInv, Rts PROVE StackIInv'
  <1>1. /\ stack \in [0..Top -> Bytes] /\ sp \in 0..Top /\ own \in Seq(Bytes)
        /\ Holds(stack, sp, own) /\ own[Len(own)] # "data"
        /\ call # "none" /\ own # <<>> /\ Len(own) \in Nat /\ Len(own) >= 2
    BY StackParts, LenProperties
       DEF Rts, Executes, StackTyped, RtsFindsItsCaller, OwnIsWellFormed
  <1>2. /\ stack' = stack /\ sp' = Above(sp, 2) /\ pc' = ReturnsTo(stack, sp)
        /\ own' = SubSeq(own, 1, Len(own) - 2)
        /\ UNCHANGED <<call, cut, playing>>
    BY DEF Rts, player
  <1>3. /\ own' \in Seq(Bytes) /\ Len(own') = Len(own) - 2
        /\ \A i \in 1..(Len(own) - 2) : own'[i] = own[i]
        /\ Holds(stack', sp', own') /\ Above(sp', Len(own')) = Above(sp, Len(own))
    <2>1. 2 \in 1..Len(own)
      BY <1>1
    <2> QED
      BY <1>1, <1>2, <2>1, PopHolds
  <1>4. sp' \in 0..Top
    BY <1>1, <1>2, AboveIn, PlayerAssumption
  <1>5. stack[Above(sp, 1)] = own[Len(own)] /\ stack[Above(sp, 2)] = own[Len(own) - 1]
    <2>1. /\ Len(own) \in 1..Len(own) /\ Len(own) - 1 \in 1..Len(own)
          /\ Len(own) + 1 - Len(own) = 1 /\ Len(own) + 1 - (Len(own) - 1) = 2
      BY <1>1
    <2> QED
      BY <1>1, <2>1 DEF Holds
  <1>6. StackTyped' /\ NothingBelowOwn'
    BY <1>1, <1>2, <1>3, <1>4 DEF StackIInv, NothingBelowOwn, StackTyped
  <1>7. CASE Len(own) = 2
    <2>1. pc' = "exit"
      BY <1>1, <1>2, <1>5, <1>7 DEF ReturnsTo, StackIInv, OwnIsWellFormed
    <2>2. own' = <<>>
      BY <1>3, <1>7, EmptySeq
    <2>3. OwnIsWellFormed' /\ RtsFindsItsCaller'
      BY <1>3, <1>7, <2>1, <2>2 DEF OwnIsWellFormed, RtsFindsItsCaller
    <2> QED
      BY <1>3, <1>6, <2>3 DEF StackIInv, OwnBytesOnStack, Holds
  <1>8. CASE Len(own) # 2
    <2>1. Len(own) \in 3..Len(own)
      <3>1. \A n \in Nat : n >= 2 /\ n # 2 => n \in 3..n
        OBVIOUS
      <3> QED
        BY <1>1, <1>8, <3>1
    <2>2. own[Len(own)] = "code_lo"
      BY <1>1, <2>1 DEF StackIInv, OwnIsWellFormed
    <2>3. Len(own) > 3 /\ own[Len(own) - 1] = "code_hi"
      BY <2>1, <2>2 DEF StackIInv, OwnIsWellFormed
    <2>4. pc' = "code"
      BY <1>2, <1>5, <2>2, <2>3 DEF ReturnsTo
    <2>5. own' # <<>>
      BY <1>1, <1>3, <2>3
    <2>6. OwnIsWellFormed'
      <3>1. Len(own') \in Nat /\ Len(own') >= 2 /\ Len(own') + 1 = Len(own) - 1
        BY <1>1, <1>3, <2>3
      <3>2. own'[1] = "exit_hi" /\ own'[2] = "exit_lo"
        BY <1>1, <1>3, <3>1 DEF StackIInv, OwnIsWellFormed
      <3>3. ASSUME NEW i \in 3..Len(own')
            PROVE  /\ own'[i] \in {"code_hi", "code_lo", "data"}
                   /\ own'[i] = "code_hi" => i < Len(own') /\ own'[i + 1] = "code_lo"
                   /\ own'[i] = "code_lo" => i > 3 /\ own'[i - 1] = "code_hi"
        <4>1. i \in 3..Len(own) /\ i \in 1..(Len(own) - 2) /\ own'[i] = own[i]
          BY <1>1, <1>3, <3>1
        <4>2. own[i] \in {"code_hi", "code_lo", "data"}
          BY <4>1 DEF StackIInv, OwnIsWellFormed
        <4>3. ASSUME own[i] = "code_hi" PROVE i < Len(own') /\ own'[i + 1] = "code_lo"
          <5>1. own[i + 1] = "code_lo"
            BY <4>1, <4>3 DEF StackIInv, OwnIsWellFormed
          <5>2. i # Len(own')
            BY <2>3, <3>1, <5>1
          <5>3. i < Len(own') /\ i + 1 \in 1..(Len(own) - 2)
            BY <1>3, <3>1, <5>2
          <5> QED
            BY <1>3, <5>1, <5>3
        <4>4. ASSUME own[i] = "code_lo" PROVE i > 3 /\ own'[i - 1] = "code_hi"
          <5>1. i > 3 /\ own[i - 1] = "code_hi"
            BY <4>1, <4>4 DEF StackIInv, OwnIsWellFormed
          <5>2. i - 1 \in 1..(Len(own) - 2)
            BY <1>3, <3>1, <5>1
          <5> QED
            BY <1>3, <5>1, <5>2
        <4> QED
          BY <4>1, <4>2, <4>3, <4>4
      <3> QED
        BY <3>1, <3>2, <3>3 DEF OwnIsWellFormed
    <2>7. RtsFindsItsCaller'
      BY <2>4, <2>5 DEF RtsFindsItsCaller
    <2> QED
      BY <1>3, <1>6, <2>6, <2>7 DEF StackIInv, OwnBytesOnStack, Holds
  <1> QED
    BY <1>7, <1>8

LEMMA StepKeeps == ASSUME StackIInv, Step PROVE StackIInv'
  <1>1. ASSUME NEW n \in {2, 7}, Work(n) PROVE StackIInv'
    BY <1>1, WorkKeeps
  <1>2. CASE JsrAbs
    BY <1>2, JsrAbsKeeps
  <1>3. CASE Rts
    BY <1>3, RtsKeeps
  <1>4. CASE Pha
    BY <1>4, PhaKeeps
  <1>5. CASE Pla
    BY <1>5, PlaKeeps
  <1>6. CASE Brk
    BY <1>6, BrkKeeps
  <1>7. ASSUME NEW p \in Pages, NEW b \in BankNumbers, SelectBank(p, b) PROVE StackIInv'
    BY <1>7, BankKeeps
  <1>8. ASSUME NEW p \in Pages, NEW h \in 0..1, StorePage(p, h) PROVE StackIInv'
    BY <1>8, StoreKeeps
  <1> QED
    BY <1>1, <1>2, <1>3, <1>4, <1>5, <1>6, <1>7, <1>8 DEF Step

LEMMA NextKeepsStack == StackIInv /\ [Next]_vars => StackIInv'
  <1> SUFFICES ASSUME StackIInv, [Next]_vars PROVE StackIInv'
    OBVIOUS
  <1>1. ASSUME NEW f \in Files, Load(f) PROVE StackIInv'
    BY <1>1, LoadKeeps
  <1>2. CASE LoadFails
    BY <1>2, LoadKeeps
  <1>3. ASSUME NEW f \in Files, NEW song \in 0..f.songs, Start(song) PROVE StackIInv'
    BY <1>3, StartKeeps
  <1>4. CASE Tick
    BY <1>4, TickKeeps
  <1>5. CASE Free
    BY <1>5, FreeKeeps
  <1>6. CASE Step
    BY <1>6, StepKeeps
  <1>7. CASE Returns
    BY <1>7, ReturnsKeeps
  <1>8. CASE UNCHANGED vars
    BY <1>8, OthersKeep DEF vars, cpu, player
  <1> QED
    BY <1>1, <1>2, <1>3, <1>4, <1>5, <1>6, <1>7, <1>8 DEF Next

\* The stack's inductive invariant, for every stack size and budget.
THEOREM StackHolds == Spec => []StackIInv
  BY InitStack, NextKeepsStack, PTL DEF Spec

\* An RTS of INIT or PLAY goes back to its own caller, whatever calls that were
\* cut off have left on the stack (nes_cpu_jsr, push16, pull16).
THEOREM RtsReturns == Spec => []RtsFindsItsCaller
  <1>1. StackIInv => RtsFindsItsCaller
    BY DEF StackIInv
  <1> QED
    BY StackHolds, <1>1, PTL

\* Calls that return leave the stack as they found it: empty.
THEOREM StackIsEmpty == Spec => []StackEmptyBetweenCalls
  <1>1. StackIInv => StackEmptyBetweenCalls
    <2> SUFFICES ASSUME StackIInv, call = "none", playing, ~cut PROVE sp = Top
      BY DEF StackEmptyBetweenCalls
    <2>1. own = <<>> /\ sp \in 0..Top /\ Above(sp, Len(own)) = Top
      BY DEF StackIInv, StackTyped, NothingBelowOwn
    <2> QED
      BY <2>1, AboveZero
  <1> QED
    BY StackHolds, <1>1, PTL

--------------------------------------------------------------------------
(* the life of the file *)

\* A loaded player holds its ROM, whether or not it plays.
LoadedHasRom == loaded => rom_data /\ file \in Files

LEMMA NextKeepsFile ==
  PlaysALoadedFile /\ LoadedHasRom /\ [Next]_vars => PlaysALoadedFile' /\ LoadedHasRom'
  <1> SUFFICES ASSUME PlaysALoadedFile, LoadedHasRom, [Next]_vars
               PROVE  PlaysALoadedFile' /\ LoadedHasRom'
    OBVIOUS
  <1> USE DEF PlaysALoadedFile, LoadedHasRom
  <1>1. ASSUME NEW f \in Files, Load(f) PROVE PlaysALoadedFile' /\ LoadedHasRom'
    BY <1>1 DEF Load
  <1>2. CASE LoadFails
    BY <1>2 DEF LoadFails
  <1>3. ASSUME NEW song, Start(song) PROVE PlaysALoadedFile' /\ LoadedHasRom'
    BY <1>3 DEF Start, Jsr
  <1>4. CASE Tick
    BY <1>4 DEF Tick, Jsr, player
  <1>5. CASE Free
    BY <1>5 DEF Free
  <1>6. CASE Step
    <2>1. call # "none" /\ UNCHANGED <<player, call>>
      BY <1>6 DEF Step, Work, JsrAbs, Rts, Pha, Pla, Brk, SelectBank, StorePage, Executes
    <2> QED
      BY <2>1 DEF player
  <1>7. CASE Returns
    BY <1>7 DEF Returns
  <1>8. CASE UNCHANGED vars
    BY <1>8 DEF vars, player
  <1> QED
    BY <1>1, <1>2, <1>3, <1>4, <1>5, <1>6, <1>7, <1>8 DEF Next

\* No order of load, start, tick and free makes a routine run on a file that
\* was freed or never loaded (nsf_player_load, nsf_player_free).
THEOREM FileIsLoaded == Spec => []PlaysALoadedFile
  <1>1. Init => PlaysALoadedFile /\ LoadedHasRom
    BY DEF Init, PlaysALoadedFile, LoadedHasRom
  <1> QED
    BY <1>1, NextKeepsFile, PTL DEF Spec
--------------------------------------------------------------------------
(* banks *)

Page == [0..1 -> Int]
NotTorn(page, size) ==
  page[0] >= 0 /\ page[1] >= 0 /\ page[1] # page[0] + 1 => page[0] = size - 1

\* What a page shows after a bank was copied over whatever it showed before.
LEMMA CopyBankShows ==
  ASSUME NEW page \in Page, NEW size, NEW b \in Nat
  PROVE  /\ CopyBank(page, size, b) \in Page
         /\ \A h \in 0..1 : 2 * b + h < size => CopyBank(page, size, b)[h] = 2 * b + h
         /\ size \in Nat /\ NotTorn(page, size) => NotTorn(CopyBank(page, size, b), size)
  <1> DEFINE copy == CopyBank(page, size, b)
  <1>1. copy = [h \in 0..1 |-> IF 2 * b + h < size THEN 2 * b + h ELSE page[h]]
    BY DEF CopyBank
  <1>2. \A h \in 0..1 : 2 * b + h \in Int /\ page[h] \in Int
    BY DEF Page
  <1>3. copy \in Page
    BY <1>1, <1>2 DEF Page
  <1>4. \A h \in 0..1 : 2 * b + h < size => copy[h] = 2 * b + h
    BY <1>1
  <1>5. ASSUME size \in Nat, NotTorn(page, size) PROVE NotTorn(copy, size)
    <2>1. /\ copy[0] = IF 2 * b + 0 < size THEN 2 * b + 0 ELSE page[0]
          /\ copy[1] = IF 2 * b + 1 < size THEN 2 * b + 1 ELSE page[1]
      BY <1>1
    <2> HIDE DEF copy
    <2>2. page[0] \in Int /\ page[1] \in Int
      BY <1>2
    <2> QED
      BY <1>5, <2>1, <2>2 DEF NotTorn
  <1> HIDE DEF copy
  <1> QED
    BY <1>3, <1>4, <1>5 DEF copy

\* All the pages: typed, and torn nowhere but at the end of the ROM.
Untorn(m, size) == \A p \in Pages : NotTorn(m[p], size)

LEMMA InitialBanksShow ==
  ASSUME NEW m \in [Pages -> Page], NEW f \in Files, Untorn(m, f.size)
  PROVE  LET after == InitialBanks(m, f)
         IN  /\ after \in [Pages -> Page] /\ Untorn(after, f.size)
             /\ \A p \in SramPages : after[p] = m[p]
             /\ \A p \in Pages \ SramPages, h \in 0..1 :
                  2 * f.bank[p] + h < f.size => after[p][h] = 2 * f.bank[p] + h
  <1> DEFINE after == InitialBanks(m, f)
  <1>1. after = [p \in Pages |-> IF p \in SramPages THEN m[p]
                                 ELSE CopyBank(m[p], f.size, f.bank[p])]
    BY DEF InitialBanks
  <1>2. f.size \in Nat /\ \A p \in Pages \ SramPages : f.bank[p] \in Nat
    BY PlayerAssumption
  <1>3. ASSUME NEW p \in Pages
        PROVE  /\ after[p] \in Page /\ NotTorn(after[p], f.size)
               /\ p \notin SramPages =>
                    \A h \in 0..1 : 2 * f.bank[p] + h < f.size => after[p][h] = 2 * f.bank[p] + h
    <2>1. m[p] \in Page /\ NotTorn(m[p], f.size)
      BY DEF Untorn
    <2>2. CASE p \in SramPages
      BY <1>1, <2>1, <2>2
    <2>3. CASE p \notin SramPages
      <3>1. after[p] = CopyBank(m[p], f.size, f.bank[p]) /\ f.bank[p] \in Nat
        BY <1>1, <1>2, <2>3
      <3> QED
        BY <1>2, <2>1, <3>1, CopyBankShows
    <2> QED
      BY <2>2, <2>3
  <1>4. after \in [Pages -> Page]
    BY <1>1, <1>3
  <1>5. \A p \in SramPages : after[p] = m[p]
    BY <1>1, PlayerAssumption
  <1> HIDE DEF after
  <1>6. Untorn(after, f.size)
    BY <1>3 DEF Untorn
  <1> QED
    BY <1>3, <1>4, <1>5, <1>6 DEF after

ClearedPages == [p \in Pages |-> Cleared]

LEMMA ClearedShows == Cleared \in Page /\ \A size : NotTorn(Cleared, size)
  <1>1. Cleared \in Page /\ Cleared[0] = -1
    BY DEF Cleared, Page, Zero
  <1> QED
    BY <1>1 DEF NotTorn

\* The inductive invariant of the paged memory.
BanksIInv == /\ mem \in [Pages -> Page] /\ cycles \in Nat /\ (loaded => file \in Files)
             /\ TornPagesAreOfTheLastBank /\ InitFindsInitialBanks

LEMMA TornIsUntorn ==
  ASSUME loaded, file.use_bankswitch
  PROVE  TornPagesAreOfTheLastBank <=> Untorn(mem, file.size)
  BY DEF TornPagesAreOfTheLastBank, Untorn, NotTorn

LEMMA LoadKeepsBanks ==
  ASSUME BanksIInv, NEW f \in Files, Load(f) PROVE BanksIInv'
  <1>1. /\ call' # "init" /\ cycles' = 0 /\ file' = f /\ mem' = MemAfterLoad(f)
    BY DEF Load
  <1>2. CASE f.use_bankswitch
    <2>1. ClearedPages \in [Pages -> Page] /\ Untorn(ClearedPages, f.size)
      BY ClearedShows DEF ClearedPages, Untorn
    <2>2. mem' = InitialBanks(ClearedPages, f)
      BY <1>1, <1>2 DEF MemAfterLoad, ClearedPages
    <2>3. mem' \in [Pages -> Page] /\ Untorn(mem', f.size)
      BY <2>1, <2>2, InitialBanksShow
    <2>4. TornPagesAreOfTheLastBank'
      BY <1>1, <2>3 DEF TornPagesAreOfTheLastBank, Untorn, NotTorn
    <2> QED
      BY <1>1, <2>3, <2>4 DEF BanksIInv, InitFindsInitialBanks
  <1>3. CASE ~f.use_bankswitch
    <2>1. mem' = [p \in Pages |-> [h \in 0..1 |-> f.direct[p][h + 1] - 1]]
      BY <1>1, <1>3 DEF MemAfterLoad, DirectCopy
    <2>2. ASSUME NEW p \in Pages, NEW h \in 0..1 PROVE f.direct[p][h + 1] - 1 \in Int
      <3>1. f.direct[p] \in Nat \X Nat /\ h + 1 \in {1, 2}
        BY PlayerAssumption
      <3>2. f.direct[p][1] \in Nat /\ f.direct[p][2] \in Nat
        BY <3>1
      <3> QED
        BY <3>1, <3>2
    <2>3. mem' \in [Pages -> Page]
      BY <2>1, <2>2 DEF Page
    <2> QED
      BY <1>1, <1>3, <2>3 DEF BanksIInv, InitFindsInitialBanks, TornPagesAreOfTheLastBank
  <1> QED
    BY <1>2, <1>3

LEMMA StartKeepsTheBanks ==
  ASSUME BanksIInv, NEW song, Start(song) PROVE BanksIInv'
  <1> DEFINE sram == [p \in Pages |-> IF p \in SramPages THEN Cleared ELSE mem[p]]
  <1>1. /\ loaded /\ loaded' = loaded /\ file' = file /\ file \in Files /\ cycles' = 0
        /\ mem' = MemAfterStart(mem, file)
    BY DEF BanksIInv, Start
  <1>2. sram \in [Pages -> Page] /\ \A p \in SramPages : sram[p] = Cleared
    BY ClearedShows, PlayerAssumption DEF BanksIInv
  <1>3. CASE file.use_bankswitch
    <2>1. Untorn(mem, file.size)
      BY <1>1, <1>3, TornIsUntorn DEF BanksIInv
    <2>2. Untorn(sram, file.size)
      BY <2>1, ClearedShows DEF Untorn
    <2>3. mem' = InitialBanks(sram, file)
      BY <1>1, <1>3 DEF MemAfterStart
    <2> HIDE DEF sram
    <2>4. /\ mem' \in [Pages -> Page] /\ Untorn(mem', file.size)
          /\ \A p \in SramPages : mem'[p] = Cleared
          /\ \A p \in Pages \ SramPages, h \in 0..1 :
               2 * file.bank[p] + h < file.size => mem'[p][h] = 2 * file.bank[p] + h
      BY <1>1, <1>2, <2>2, <2>3, InitialBanksShow
    <2>5. TornPagesAreOfTheLastBank'
      BY <1>1, <2>4 DEF TornPagesAreOfTheLastBank, Untorn, NotTorn
    <2>6. InitFindsInitialBanks'
      BY <1>1, <2>4 DEF InitFindsInitialBanks
    <2> QED
      BY <1>1, <2>4, <2>5, <2>6 DEF BanksIInv
  <1>4. CASE ~file.use_bankswitch
    <2>1. mem' = sram
      BY <1>1, <1>4 DEF MemAfterStart
    <2> QED
      BY <1>1, <1>2, <1>4, <2>1
         DEF BanksIInv, InitFindsInitialBanks, TornPagesAreOfTheLastBank
  <1> QED
    BY <1>3, <1>4

\* An instruction takes time, and so it is no longer the first one that INIT runs.
LEMMA StepKeepsTheBanks == ASSUME BanksIInv, Step PROVE BanksIInv'
  <1>1. \E n \in {2, 3, 4, 6, 7} : Spend(n)
    BY DEF Step, Work, JsrAbs, Rts, Pha, Pla, Brk, SelectBank, StorePage
  <1>2. cycles' \in Nat /\ cycles' # 0
    BY <1>1 DEF BanksIInv, Spend
  <1>3. loaded' = loaded /\ file' = file
    BY DEF Step, Work, JsrAbs, Rts, Pha, Pla, Brk, SelectBank, StorePage, player
  <1>4. CASE mem' = mem
    BY <1>2, <1>3, <1>4 DEF BanksIInv, InitFindsInitialBanks, TornPagesAreOfTheLastBank
  <1>5. ASSUME NEW p \in Pages, NEW b \in BankNumbers, SelectBank(p, b) PROVE BanksIInv'
    <2>1. /\ mem' = [mem EXCEPT ![p] = CopyBank(mem[p], file.size, b)]
          /\ b \in Nat /\ mem[p] \in Page
      BY <1>5, PlayerAssumption DEF SelectBank, BanksIInv
    <2>2. CopyBank(mem[p], file.size, b) \in Page
      BY <2>1, CopyBankShows
    <2>3. mem' \in [Pages -> Page]
      BY <2>1, <2>2 DEF BanksIInv
    <2>4. ASSUME loaded, file.use_bankswitch PROVE Untorn(mem', file.size)
      <3>1. Untorn(mem, file.size) /\ file.size \in Nat
        BY <2>4, TornIsUntorn, PlayerAssumption DEF BanksIInv
      <3>2. NotTorn(CopyBank(mem[p], file.size, b), file.size)
        BY <2>1, <3>1, CopyBankShows DEF Untorn
      <3> QED
        BY <2>1, <3>1, <3>2 DEF Untorn, BanksIInv
    <2>5. TornPagesAreOfTheLastBank'
      BY <1>3, <2>4 DEF TornPagesAreOfTheLastBank, Untorn, NotTorn
    <2> QED
      BY <1>2, <1>3, <2>3, <2>5 DEF BanksIInv, InitFindsInitialBanks
  <1>6. ASSUME NEW p \in Pages, NEW h \in 0..1, StorePage(p, h) PROVE BanksIInv'
    <2>1. mem' = [mem EXCEPT ![p][h] = -2] /\ mem[p] \in Page
      BY <1>6 DEF StorePage, BanksIInv, Own
    <2>2. mem' \in [Pages -> Page]
      BY <2>1 DEF BanksIInv, Page
    <2>3. \A q \in Pages : mem'[q] = mem[q] \/ mem'[q][0] = -2 \/ mem'[q][1] = -2
      BY <2>1 DEF BanksIInv, Page
    <2>4. TornPagesAreOfTheLastBank'
      BY <1>3, <2>3 DEF BanksIInv, TornPagesAreOfTheLastBank
    <2> QED
      BY <1>2, <1>3, <2>2, <2>4 DEF BanksIInv, InitFindsInitialBanks
  <1> QED
    BY <1>4, <1>5, <1>6 DEF Step, Work, JsrAbs, Rts, Pha, Pla, Brk

LEMMA NextKeepsBanks == BanksIInv /\ [Next]_vars => BanksIInv'
  <1> SUFFICES ASSUME BanksIInv, [Next]_vars PROVE BanksIInv'
    OBVIOUS
  <1>1. ASSUME NEW f \in Files, Load(f) PROVE BanksIInv'
    BY <1>1, LoadKeepsBanks
  <1>2. CASE LoadFails
    <2>1. mem' \in [Pages -> Page]
      BY <1>2, ClearedShows DEF LoadFails
    <2> QED
      BY <1>2, <2>1
         DEF LoadFails, BanksIInv, InitFindsInitialBanks, TornPagesAreOfTheLastBank
  <1>3. ASSUME NEW song, Start(song) PROVE BanksIInv'
    BY <1>3, StartKeepsTheBanks
  <1>4. CASE Tick
    BY <1>4 DEF Tick, Jsr, player, BanksIInv, InitFindsInitialBanks, TornPagesAreOfTheLastBank
  <1>5. CASE Free
    BY <1>5 DEF Free, cpu, BanksIInv, InitFindsInitialBanks, TornPagesAreOfTheLastBank
  <1>6. CASE Step
    BY <1>6, StepKeepsTheBanks
  <1>7. CASE Returns
    BY <1>7 DEF Returns, cpu, BanksIInv, InitFindsInitialBanks, TornPagesAreOfTheLastBank
  <1>8. CASE UNCHANGED vars
    BY <1>8
       DEF vars, player, cpu, BanksIInv, InitFindsInitialBanks, TornPagesAreOfTheLastBank
  <1> QED
    BY <1>1, <1>2, <1>3, <1>4, <1>5, <1>6, <1>7, <1>8 DEF Next

LEMMA BanksHold == Spec => []BanksIInv
  <1>1. Init => BanksIInv
    <2> SUFFICES ASSUME Init PROVE BanksIInv
      OBVIOUS
    <2>1. mem \in [Pages -> Page]
      BY ClearedShows DEF Init
    <2> QED
      BY <2>1 DEF Init, BanksIInv, InitFindsInitialBanks, TornPagesAreOfTheLastBank
  <1> QED
    BY <1>1, NextKeepsBanks, PTL DEF Spec

\* For every ROM and header, INIT starts on the memory the file describes, whatever
\* banks earlier songs selected (nsf_player_start).
THEOREM BanksAreInitial == Spec => []InitFindsInitialBanks
  <1>1. BanksIInv => InitFindsInitialBanks
    BY DEF BanksIInv
  <1> QED
    BY <1>1, BanksHold, PTL

\* For every ROM and any order of selections and stores, a page shows halves of two
\* banks only where the ROM ends (cpu_write_handler, nsf_player_start).
THEOREM PagesTearAtTheEnd == Spec => []TornPagesAreOfTheLastBank
  <1>1. BanksIInv => TornPagesAreOfTheLastBank
    BY DEF BanksIInv
  <1> QED
    BY <1>1, BanksHold, PTL

-----------------------------------------------------------------------------
(* Music_Emu's output stream *)

\* What IInv says beyond the types.
Ledger == /\ Accounting /\ BufFreeWhenFilled /\ SilenceIsSilent
          /\ Places /\ BufIsRecent

LEMMA IInvParts == IInv <=> TimesTyped /\ FlagsTyped /\ Ledger
  BY DEF IInv, TypeOK, Ledger

LEMMA InitIInv == StreamInit => IInv
  <1>1. StreamInit => TimesTyped
    BY StreamAssumption DEF StreamInit, TimesTyped
  <1>2. StreamInit => FlagsTyped
    BY StreamAssumption DEF StreamInit, NoFade, FlagsTyped
  <1>3. StreamInit => Ledger
    BY StreamAssumption DEF StreamInit, Ledger, Accounting, BufFreeWhenFilled,
       SilenceIsSilent, Places, BufIsRecent
  <1> QED
    BY <1>1, <1>2, <1>3, IInvParts

\* One lemma per action: it keeps the types of the times and of the flags, and
\* the ledger.
LEMMA StartTrackKeeps == IInv /\ StartTrack => IInv'
  <1> USE StreamAssumption
  <1> SUFFICES ASSUME TimesTyped, FlagsTyped, Ledger, StartTrack
               PROVE  TimesTyped' /\ FlagsTyped' /\ Ledger'
    BY IInvParts DEF IInv, TypeOK, Ledger
  <1>1. TimesTyped'
    BY DEF StartTrack, ClearTrackVars, NoFade, TimesTyped, Ledger, Accounting, BufFreeWhenFilled, Places, BufIsRecent
  <1>2. FlagsTyped'
    <2>1. at' \in {"idle", "trim"} /\ current_track' = 0 /\ fade' = <<MaxTime + 1, 1>>
      BY DEF StartTrack, ClearTrackVars, NoFade
    <2>2. /\ emu_track_ended_' \in BOOLEAN /\ track_ended_' \in BOOLEAN
          /\ ignore_silence_' \in BOOLEAN
      BY DEF StartTrack, FlagsTyped
    <2> QED
      BY <2>1, <2>2 DEF FlagsTyped
  <1>3. Ledger'
    BY DEF StartTrack, ClearTrackVars, NoFade, TimesTyped, FlagsTyped, Ledger, Accounting,
       BufFreeWhenFilled, SilenceIsSilent, Places, BufIsRecent
  <1> QED
    BY <1>1, <1>2, <1>3

LEMMA StartTrackFailsKeeps == IInv /\ StartTrackFails => IInv'
  <1> USE StreamAssumption
  <1> SUFFICES ASSUME TimesTyped, FlagsTyped, Ledger, StartTrackFails
               PROVE  TimesTyped' /\ FlagsTyped' /\ Ledger'
    BY IInvParts DEF IInv, TypeOK, Ledger
  <1>1. TimesTyped'
    BY DEF StartTrackFails, ClearTrackVars, NoFade, TimesTyped, Ledger, Accounting, BufFreeWhenFilled, Places, BufIsRecent
  <1>2. FlagsTyped'
    BY DEF StartTrackFails, ClearTrackVars, NoFade, FlagsTyped
  <1>3. Ledger'
    BY DEF StartTrackFails, ClearTrackVars, NoFade, TimesTyped, FlagsTyped, Ledger, Accounting,
       BufFreeWhenFilled, SilenceIsSilent, Places, BufIsRecent
  <1> QED
    BY <1>1, <1>2, <1>3

LEMMA TrimDoneKeeps == IInv /\ TrimDone => IInv'
  <1> USE StreamAssumption
  <1> SUFFICES ASSUME TimesTyped, FlagsTyped, Ledger, TrimDone
               PROVE  TimesTyped' /\ FlagsTyped' /\ Ledger'
    BY IInvParts DEF IInv, TypeOK, Ledger
  <1>1. TimesTyped'
    BY DEF TrimDone, ended, settings, TimesTyped, Ledger, Accounting, BufFreeWhenFilled, Places, BufIsRecent
  <1>2. FlagsTyped'
    BY DEF TrimDone, ended, settings, FlagsTyped
  <1>3. Ledger'
    BY DEF TrimDone, ended, settings, TimesTyped, FlagsTyped, Ledger, Accounting,
       BufFreeWhenFilled, SilenceIsSilent, Places, BufIsRecent
  <1> QED
    BY <1>1, <1>2, <1>3

LEMMA PlaySilenceKeeps == IInv /\ PlaySilence => IInv'
  <1> USE StreamAssumption
  <1> SUFFICES ASSUME TimesTyped, FlagsTyped, Ledger, PlaySilence
               PROVE  TimesTyped' /\ FlagsTyped' /\ Ledger'
    BY IInvParts DEF IInv, TypeOK, Ledger
  <1>1. TimesTyped'
    BY DEF PlaySilence, Smaller, times, settings, ended, TimesTyped, Ledger, Accounting, BufFreeWhenFilled, Places, BufIsRecent
  <1>2. FlagsTyped'
    BY DEF PlaySilence, Smaller, times, settings, ended, FlagsTyped
  <1>3. Ledger'
    BY DEF PlaySilence, Smaller, times, settings, ended, TimesTyped, FlagsTyped, Ledger, Accounting,
       BufFreeWhenFilled, SilenceIsSilent, Places, BufIsRecent
  <1> QED
    BY <1>1, <1>2, <1>3

LEMMA PlayBufferKeeps == IInv /\ PlayBuffer => IInv'
  <1> USE StreamAssumption
  <1> SUFFICES ASSUME TimesTyped, FlagsTyped, Ledger, PlayBuffer
               PROVE  TimesTyped' /\ FlagsTyped' /\ Ledger'
    BY IInvParts DEF IInv, TypeOK, Ledger
  <1>1. TimesTyped'
    BY DEF PlayBuffer, Smaller, times, settings, ended, TimesTyped, Ledger, Accounting, BufFreeWhenFilled, Places, BufIsRecent
  <1>2. FlagsTyped'
    BY DEF PlayBuffer, Smaller, times, settings, ended, FlagsTyped
  <1>3. Ledger'
    BY DEF PlayBuffer, Smaller, times, settings, ended, TimesTyped, FlagsTyped, Ledger, Accounting,
       BufFreeWhenFilled, SilenceIsSilent, Places, BufIsRecent
  <1> QED
    BY <1>1, <1>2, <1>3

LEMMA FinishKeeps == IInv /\ Finish => IInv'
  <1> USE StreamAssumption
  <1> SUFFICES ASSUME TimesTyped, FlagsTyped, Ledger, Finish
               PROVE  TimesTyped' /\ FlagsTyped' /\ Ledger'
    BY IInvParts DEF IInv, TypeOK, Ledger
  <1>1. TimesTyped'
    BY DEF Finish, owed, settings, ended, TimesTyped, Ledger, Accounting, BufFreeWhenFilled, Places, BufIsRecent
  <1>2. FlagsTyped'
    BY DEF Finish, owed, settings, ended, FlagsTyped
  <1>3. Ledger'
    BY DEF Finish, owed, settings, ended, TimesTyped, FlagsTyped, Ledger, Accounting,
       BufFreeWhenFilled, SilenceIsSilent, Places, BufIsRecent
  <1> QED
    BY <1>1, <1>2, <1>3

LEMMA PlayEndedKeeps ==
  ASSUME NEW n \in Counts, IInv, PlayEnded(n)
  PROVE  IInv'
  <1> USE StreamAssumption
  <1> SUFFICES ASSUME TimesTyped, FlagsTyped, Ledger, PlayEnded(n)
               PROVE  TimesTyped' /\ FlagsTyped' /\ Ledger'
    BY IInvParts DEF IInv, TypeOK, Ledger
  <1>1. TimesTyped'
    BY DEF PlayEnded, owed, ended, settings, callVars, TimesTyped, Ledger, Accounting, BufFreeWhenFilled, Places, BufIsRecent
  <1>2. FlagsTyped'
    BY DEF PlayEnded, owed, ended, settings, callVars, FlagsTyped
  <1>3. Ledger'
    BY DEF PlayEnded, owed, ended, settings, callVars, TimesTyped, FlagsTyped, Ledger, Accounting,
       BufFreeWhenFilled, SilenceIsSilent, Places, BufIsRecent
  <1> QED
    BY <1>1, <1>2, <1>3

LEMMA PlayKeeps ==
  ASSUME NEW n \in Counts, IInv, Play(n)
  PROVE  IInv'
  <1> USE StreamAssumption
  <1> SUFFICES ASSUME TimesTyped, FlagsTyped, Ledger, Play(n)
               PROVE  TimesTyped' /\ FlagsTyped' /\ Ledger'
    BY IInvParts DEF IInv, TypeOK, Ledger
  <1>1. TimesTyped'
    BY DEF Play, times, owed, ended, settings, TimesTyped, Ledger, Accounting, BufFreeWhenFilled, Places, BufIsRecent
  <1>2. FlagsTyped'
    BY DEF Play, times, owed, ended, settings, FlagsTyped
  <1>3. Ledger'
    BY DEF Play, times, owed, ended, settings, TimesTyped, FlagsTyped, Ledger, Accounting,
       BufFreeWhenFilled, SilenceIsSilent, Places, BufIsRecent
  <1> QED
    BY <1>1, <1>2, <1>3

LEMMA SetFadeKeeps ==
  ASSUME NEW f \in Fades, IInv, SetFade(f)
  PROVE  IInv'
  <1> USE StreamAssumption
  <1> SUFFICES ASSUME TimesTyped, FlagsTyped, Ledger, SetFade(f)
               PROVE  TimesTyped' /\ FlagsTyped' /\ Ledger'
    BY IInvParts DEF IInv, TypeOK, Ledger
  <1>1. TimesTyped'
    BY DEF SetFade, times, owed, ended, callVars, TimesTyped, Ledger, Accounting, BufFreeWhenFilled, Places, BufIsRecent
  <1>2. FlagsTyped'
    BY DEF SetFade, times, owed, ended, callVars, FlagsTyped
  <1>3. Ledger'
    BY DEF SetFade, times, owed, ended, callVars, TimesTyped, FlagsTyped, Ledger, Accounting,
       BufFreeWhenFilled, SilenceIsSilent, Places, BufIsRecent
  <1> QED
    BY <1>1, <1>2, <1>3

LEMMA IgnoreSilenceKeeps ==
  ASSUME NEW b \in BOOLEAN, IInv, IgnoreSilence(b)
  PROVE  IInv'
  <1> USE StreamAssumption
  <1> SUFFICES ASSUME TimesTyped, FlagsTyped, Ledger, IgnoreSilence(b)
               PROVE  TimesTyped' /\ FlagsTyped' /\ Ledger'
    BY IInvParts DEF IInv, TypeOK, Ledger
  <1>1. TimesTyped'
    BY DEF IgnoreSilence, times, owed, ended, callVars, TimesTyped, Ledger, Accounting, BufFreeWhenFilled, Places, BufIsRecent
  <1>2. FlagsTyped'
    BY DEF IgnoreSilence, times, owed, ended, callVars, FlagsTyped
  <1>3. Ledger'
    BY DEF IgnoreSilence, times, owed, ended, callVars, TimesTyped, FlagsTyped, Ledger, Accounting,
       BufFreeWhenFilled, SilenceIsSilent, Places, BufIsRecent
  <1> QED
    BY <1>1, <1>2, <1>3

\* What a call of fill_buf does: a buffer with a sound found in it, behind its first
\* sample, or more silence.
Sounded(s) ==
  /\ ~emu_track_ended_ /\ s \in 0..(BufSize - 2)
  /\ emu_time' = emu_time + BufSize /\ loud_end' = emu_time' - s
  /\ silence_time' = emu_time' - (s + 1)
  /\ buf_remain' = BufSize /\ silence_count' = silence_count

Silent ==
  /\ emu_time' = IF emu_track_ended_ THEN emu_time ELSE emu_time + BufSize
  /\ loud_end' = loud_end /\ silence_time' = silence_time
  /\ buf_remain' = buf_remain /\ silence_count' = silence_count + BufSize

LEMMA FillBufCases ==
  ASSUME TimesTyped, FlagsTyped, FillBuf
  PROVE  (\E s \in 0..(BufSize - 2) : Sounded(s)) \/ Silent
  <1> USE StreamAssumption
  <1>1. CASE emu_track_ended_
    BY <1>1 DEF FillBuf, Silent, TimesTyped
  <1>2. CASE ~emu_track_ended_
    <2>1. PICK s \in 0..BufSize :
            /\ EmuPlay(BufSize, s)
            /\ IF CountSilence(BufSize, s) < BufSize
                 THEN /\ silence_time' = emu_time' - CountSilence(BufSize, s)
                      /\ buf_remain' = BufSize /\ UNCHANGED silence_count
                 ELSE /\ silence_count' = silence_count + BufSize
                      /\ UNCHANGED <<silence_time, buf_remain>>
      BY <1>2 DEF FillBuf
    <2>2. CASE s < BufSize - 1
      <3>1. CountSilence(BufSize, s) = s + 1 /\ s + 1 < BufSize
        BY <2>2 DEF CountSilence, Smaller
      <3> QED
        BY <1>2, <2>1, <2>2, <3>1 DEF Sounded, EmuPlay, TimesTyped
    <2>3. CASE ~(s < BufSize - 1)
      <3>1. CountSilence(BufSize, s) = BufSize
        BY <2>3 DEF CountSilence, Smaller
      <3> QED
        BY <1>2, <2>1, <2>3, <3>1 DEF Silent, EmuPlay, TimesTyped
    <2> QED
      BY <2>2, <2>3
  <1> QED
    BY <1>1, <1>2

LEMMA FillBufFlag ==
  ASSUME FlagsTyped, FillBuf
  PROVE  emu_track_ended_' \in BOOLEAN
  <1>1. CASE emu_track_ended_
    BY <1>1 DEF FillBuf, FlagsTyped
  <1>2. CASE ~emu_track_ended_
    <2>1. PICK s \in 0..BufSize : EmuPlay(BufSize, s)
      BY <1>2 DEF FillBuf
    <2> QED
      BY <2>1 DEF EmuPlay, FlagsTyped
  <1> QED
    BY <1>1, <1>2

LEMMA TrimKeeps == IInv /\ Trim => IInv'
  <1> USE StreamAssumption
  <1> SUFFICES ASSUME TimesTyped, FlagsTyped, Ledger, Trim
               PROVE  TimesTyped' /\ FlagsTyped' /\ Ledger'
    BY IInvParts DEF IInv, TypeOK, Ledger
  <1>1. FillBuf
    BY DEF Trim
  <1>2. FlagsTyped'
    <2>1. emu_track_ended_' \in BOOLEAN
      BY <1>1, FillBufFlag
    <2> QED
      BY <2>1 DEF Trim, settings, callVars, FlagsTyped
  <1>3. ASSUME NEW s \in 0..(BufSize - 2), Sounded(s)
        PROVE  TimesTyped' /\ Ledger'
    <2>1. TimesTyped'
      BY <1>3 DEF Trim, settings, callVars, Sounded, TimesTyped
    <2>2. Ledger'
      BY <1>3 DEF Trim, settings, callVars, Sounded, TimesTyped, FlagsTyped, Ledger,
         Accounting, BufFreeWhenFilled, SilenceIsSilent, Places, BufIsRecent
    <2> QED
      BY <2>1, <2>2
  <1>4. CASE Silent
    <2>1. TimesTyped'
      BY <1>4 DEF Trim, settings, callVars, Silent, TimesTyped
    <2>2. Ledger'
      BY <1>4 DEF Trim, settings, callVars, Silent, TimesTyped, FlagsTyped, Ledger,
         Accounting, BufFreeWhenFilled, SilenceIsSilent, Places, BufIsRecent
    <2> QED
      BY <1>2, <2>1, <2>2
  <1> QED
    BY <1>1, <1>2, <1>3, <1>4, FillBufCases

LEMMA RunAheadKeeps == IInv /\ RunAhead => IInv'
  <1> USE StreamAssumption
  <1> SUFFICES ASSUME TimesTyped, FlagsTyped, Ledger, RunAhead
               PROVE  TimesTyped' /\ FlagsTyped' /\ Ledger'
    BY IInvParts DEF IInv, TypeOK, Ledger
  <1>1. FillBuf
    BY DEF RunAhead
  <1>2. FlagsTyped'
    <2>1. emu_track_ended_' \in BOOLEAN
      BY <1>1, FillBufFlag
    <2> QED
      BY <2>1 DEF RunAhead, Ahead, settings, callVars, FlagsTyped
  <1>3. ASSUME NEW s \in 0..(BufSize - 2), Sounded(s)
        PROVE  TimesTyped' /\ Ledger'
    <2>1. TimesTyped'
      BY <1>3 DEF RunAhead, Ahead, settings, callVars, Sounded, TimesTyped
    <2>2. Ledger'
      BY <1>3 DEF RunAhead, Ahead, settings, callVars, Sounded, TimesTyped, FlagsTyped, Ledger,
         Accounting, BufFreeWhenFilled, SilenceIsSilent, Places, BufIsRecent
    <2> QED
      BY <2>1, <2>2
  <1>4. CASE Silent
    <2>1. TimesTyped'
      BY <1>4 DEF RunAhead, Ahead, settings, callVars, Silent, TimesTyped
    <2>2. Ledger'
      BY <1>4 DEF RunAhead, Ahead, settings, callVars, Silent, TimesTyped, FlagsTyped, Ledger,
         Accounting, BufFreeWhenFilled, SilenceIsSilent, Places, BufIsRecent
    <2> QED
      BY <1>2, <2>1, <2>2
  <1> QED
    BY <1>1, <1>2, <1>3, <1>4, FillBufCases

LEMMA DetectKeeps == IInv /\ Detect => IInv'
  <1> USE StreamAssumption
  <1> SUFFICES ASSUME TimesTyped, FlagsTyped, Ledger, Detect
               PROVE  TimesTyped' /\ FlagsTyped' /\ Ledger'
    BY IInvParts DEF IInv, TypeOK, Ledger
  <1>1. FillBuf
    BY DEF Detect
  <1>2. FlagsTyped'
    <2>1. emu_track_ended_' \in BOOLEAN
      BY <1>1, FillBufFlag
    <2> QED
      BY <2>1 DEF Detect, settings, FlagsTyped
  <1>3. ASSUME NEW s \in 0..(BufSize - 2), Sounded(s)
        PROVE  TimesTyped' /\ Ledger'
    <2>1. TimesTyped'
      BY <1>3 DEF Detect, settings, Sounded, TimesTyped
    <2>2. Ledger'
      BY <1>3 DEF Detect, settings, Sounded, TimesTyped, FlagsTyped, Ledger,
         Accounting, BufFreeWhenFilled, SilenceIsSilent, Places, BufIsRecent
    <2> QED
      BY <2>1, <2>2
  <1>4. CASE Silent
    <2>1. TimesTyped'
      BY <1>4 DEF Detect, settings, Silent, TimesTyped
    <2>2. Ledger'
      BY <1>4 DEF Detect, settings, Silent, TimesTyped, FlagsTyped, Ledger,
         Accounting, BufFreeWhenFilled, SilenceIsSilent, Places, BufIsRecent
    <2> QED
      BY <1>2, <2>1, <2>2
  <1> QED
    BY <1>1, <1>2, <1>3, <1>4, FillBufCases

LEMMA PlayRestKeeps == IInv /\ PlayRest => IInv'
  <1> USE StreamAssumption
  <1> SUFFICES ASSUME TimesTyped, FlagsTyped, Ledger, PlayRest
               PROVE  TimesTyped' /\ FlagsTyped' /\ Ledger'
    BY IInvParts DEF IInv, TypeOK, Ledger
  <1> DEFINE n == out_count - pos
             Rest(s) ==
               /\ EmuPlay(n, s)
               /\ track_ended_' = (track_ended_ \/ emu_track_ended_')
               /\ IF ~ignore_silence_ \/ out_time > fade[1]
                    THEN /\ silence_time' = LET silence == CountSilence(n, s)
                                            IN  IF silence < n THEN emu_time' - silence
                                                               ELSE silence_time
                         /\ at' = IF emu_time' - silence_time' >= BufSize
                                    THEN "detect" ELSE "finish"
                    ELSE /\ at' = "finish" /\ UNCHANGED silence_time
  <1>1. PICK s \in 0..n : Rest(s)
    BY DEF PlayRest
  <1>2. /\ n \in Nat \ {0} /\ at = "rest" /\ pos' = out_count /\ out_count' = out_count
        /\ buf_remain' = 0 /\ silence_count' = 0 /\ out_time' = out_time
        /\ buf_remain = 0 /\ silence_count = 0
    BY DEF PlayRest, owed, TimesTyped, Ledger, Places, BufFreeWhenFilled
  <1>3. /\ emu_time' = emu_time + n
        /\ loud_end' = IF s < n - 1 THEN emu_time' - s ELSE loud_end
        /\ silence_time' = silence_time \/ (s + 1 < n /\ silence_time' = emu_time' - (s + 1))
        /\ at' \in {"detect", "finish"}
    BY <1>1, <1>2 DEF EmuPlay, CountSilence, Smaller
  <1>4. /\ emu_track_ended_' \in BOOLEAN
        /\ track_ended_' = (track_ended_ \/ emu_track_ended_')
    BY <1>1 DEF EmuPlay, FlagsTyped
  <1>5. FlagsTyped'
    BY <1>3, <1>4 DEF FlagsTyped, PlayRest, settings
  <1>6. TimesTyped'
    BY <1>2, <1>3 DEF TimesTyped
  <1>7. Ledger'
    BY <1>2, <1>3, <1>4 DEF TimesTyped, FlagsTyped, Ledger, Accounting,
       BufFreeWhenFilled, SilenceIsSilent, Places, BufIsRecent
  <1> QED
    BY <1>5, <1>6, <1>7

LEMMA SkipKeeps ==
  ASSUME NEW n \in Counts, IInv, Skip(n)
  PROVE  IInv'
  <1> USE StreamAssumption
  <1> SUFFICES ASSUME TimesTyped, FlagsTyped, Ledger, Skip(n)
               PROVE  TimesTyped' /\ FlagsTyped' /\ Ledger'
    BY IInvParts DEF IInv, TypeOK, Ledger
  <1> DEFINE fromSilence == Smaller(n, silence_count)
             fromBuf     == Smaller(n - fromSilence, buf_remain)
             rest        == n - fromSilence - fromBuf
  <1>1. /\ at = "idle" /\ at' = "idle" /\ out_time' = out_time + n
        /\ silence_count' = silence_count - fromSilence
        /\ buf_remain' = buf_remain - fromBuf
        /\ silence_time' = silence_time /\ pos' = pos /\ out_count' = out_count
        /\ track_ended_' = (track_ended_ \/ (silence_count' = 0 /\ buf_remain' = 0
                                             /\ emu_track_ended_'))
        /\ UNCHANGED <<current_track, settings>>
    BY DEF Skip, callVars
  <1>2. /\ n \in Nat /\ fromSilence \in 0..silence_count /\ fromBuf \in 0..buf_remain
        /\ rest \in Nat
        /\ rest > 0 => fromSilence = silence_count /\ fromBuf = buf_remain
        /\ fromBuf > 0 => fromSilence = silence_count
    BY DEF Smaller, TimesTyped
  <1>3. CASE rest > 0 /\ ~emu_track_ended_
    <2>1. PICK s \in 0..rest : EmuPlay(rest, s)
      BY <1>3 DEF Skip
    <2>2. /\ emu_time' = emu_time + rest
          /\ loud_end' = IF s < rest - 1 THEN emu_time' - s ELSE loud_end
          /\ emu_track_ended_' \in BOOLEAN
      BY <2>1 DEF EmuPlay, FlagsTyped
    <2>3. TimesTyped'
      BY <1>1, <1>2, <2>2 DEF TimesTyped
    <2>4. FlagsTyped'
      BY <1>1, <2>2 DEF FlagsTyped, settings
    <2>5. Ledger'
      BY <1>1, <1>2, <1>3, <2>2 DEF TimesTyped, FlagsTyped, Ledger, Accounting,
         BufFreeWhenFilled, SilenceIsSilent, Places, BufIsRecent
    <2> QED
      BY <2>3, <2>4, <2>5
  <1>4. CASE ~(rest > 0 /\ ~emu_track_ended_)
    <2>1. UNCHANGED <<emu_time, loud_end, emu_track_ended_>>
      BY <1>4 DEF Skip
    <2>2. TimesTyped'
      BY <1>1, <1>2, <2>1 DEF TimesTyped
    <2>3. FlagsTyped'
      BY <1>1, <2>1 DEF FlagsTyped, settings
    <2>4. Ledger'
      BY <1>1, <1>2, <1>4, <2>1 DEF TimesTyped, FlagsTyped, Ledger, Accounting,
         BufFreeWhenFilled, SilenceIsSilent, Places, BufIsRecent
    <2> QED
      BY <2>2, <2>3, <2>4
  <1> QED
    BY <1>3, <1>4

LEMMA NextKeepsIInv == IInv /\ [StreamNext]_streamVars => IInv'
  <1> SUFFICES ASSUME IInv, [StreamNext]_streamVars PROVE IInv'
    OBVIOUS
  <1>1. CASE StartTrack
    BY <1>1, StartTrackKeeps
  <1>2. CASE StartTrackFails
    BY <1>2, StartTrackFailsKeeps
  <1>3. CASE InCall
    BY <1>3, TrimKeeps, TrimDoneKeeps, RunAheadKeeps, PlaySilenceKeeps,
       PlayBufferKeeps, PlayRestKeeps, DetectKeeps, FinishKeeps DEF InCall
  <1>4. ASSUME NEW n \in Counts, PlayEnded(n) \/ Play(n) \/ Skip(n) PROVE IInv'
    BY <1>4, PlayEndedKeeps, PlayKeeps, SkipKeeps
  <1>5. ASSUME NEW f \in Fades, SetFade(f) PROVE IInv'
    BY <1>5, SetFadeKeeps
  <1>6. ASSUME NEW b \in BOOLEAN, IgnoreSilence(b) PROVE IInv'
    BY <1>6, IgnoreSilenceKeeps
  <1>7. CASE UNCHANGED streamVars
    BY <1>7 DEF streamVars, times, owed, ended, settings, callVars, IInv, TypeOK, TimesTyped,
       FlagsTyped, Accounting, BufFreeWhenFilled, SilenceIsSilent, Places, BufIsRecent
  <1> QED
    BY <1>1, <1>2, <1>3, <1>4, <1>5, <1>6, <1>7 DEF StreamNext

-----------------------------------------------------------------------------
\* The inductive invariant holds in every behaviour of start_track, play, skip
\* and their settings, for every buffer size, lookahead and silence limit.
THEOREM StreamInvariant == StreamSpec => []IInv
  BY InitIInv, NextKeepsIInv, PTL DEF StreamSpec

\* Every count and time keeps its type: none becomes negative, and buf_remain
\* never exceeds the buffer.
THEOREM StreamTypes == StreamSpec => []TypeOK
  <1>1. IInv => TypeOK
    BY DEF IInv
  <1> QED
    BY StreamInvariant, <1>1, PTL

\* The emulator is ahead of the listener by exactly what is owed.
THEOREM AccountingHolds == StreamSpec => []Accounting
  <1>1. IInv => Accounting
    BY DEF IInv
  <1> QED
    BY StreamInvariant, <1>1, PTL

\* fill_buf is only called with an empty buffer, as it asserts.
THEOREM FillsEmptyBuffer == StreamSpec => []BufFreeWhenFilled
  <1>1. IInv => BufFreeWhenFilled
    BY DEF IInv
  <1> QED
    BY StreamInvariant, <1>1, PTL

\* A sound is never replaced by zeros while the emulator runs ahead, unless it is
\* the first sample of a buffer, where count_silence has its sentinel.
THEOREM SilenceOwedIsSilent == StreamSpec => []SilenceIsSilent
  <1>1. IInv => SilenceIsSilent
    BY DEF IInv
  <1> QED
    BY StreamInvariant, <1>1, PTL

\* When a long silence ends the track, every sound generated was played, but for
\* such first samples: the silence limit is not below the buffer size.
THEOREM NoSoundLost == StreamSpec => EndLosesNoSound
  <1> USE StreamAssumption
  <1>1. IInv /\ PlaySilence /\ ~track_ended_ /\ track_ended_' => loud_end <= out_time
    <2> SUFFICES ASSUME TimesTyped, Ledger, PlaySilence, ~track_ended_, track_ended_'
                 PROVE  loud_end <= out_time
      BY IInvParts
    <2>1. emu_time - silence_time > SilenceMax
      BY DEF PlaySilence, ended
    <2>2. buf_remain = 0
      BY <2>1 DEF TimesTyped, Ledger, BufIsRecent
    <2> QED
      BY <2>2 DEF PlaySilence, TimesTyped, Ledger, Accounting, SilenceIsSilent, Places,
         BufIsRecent
  <1>2. IInv /\ [StreamNext]_streamVars
          => [PlaySilence /\ ~track_ended_ /\ track_ended_' => loud_end <= out_time]_streamVars
    BY <1>1
  <1> QED
    BY StreamInvariant, <1>2, PTL DEF StreamSpec, EndLosesNoSound
=============================================================================
