-------------------------- MODULE FmsqPlayerProofs --------------------------
(***************************************************************************)
(* The FMSQ player is safe on every stream: any set of files, any length,  *)
(* any bytes, any order of load, free, reset and tick.                     *)
(***************************************************************************)
EXTENDS FmsqPlayer, TLAPS

RegWrites == Seq((0..31) \X Byte)

\* A tick that may still count its frame has room for it: with this and the types
\* the safety of the player is inductive.
TickHasRoom == inTick => frames_played < MaxFrames

IInv == TypeOK /\ PlayingHasData /\ TickHasRoom

-----------------------------------------------------------------------------
\* An operand is a byte, in the data or beyond it.
LEMMA ArgIsByte ==
  ASSUME TypeOK, NEW i \in Nat
  PROVE  Arg(i) \in Byte
  <1>1. CASE pc + i < data_size
    <2>1. pc + i + 1 \in 1..Len(data)
      BY <1>1 DEF TypeOK, data_size
    <2> QED
      BY <1>1, <2>1 DEF TypeOK, Arg
  <1>2. CASE ~(pc + i < data_size)
    BY <1>2 DEF Arg, CmdEnd, Byte
  <1> QED
    BY <1>1, <1>2

\* Beyond the data there is only END.
LEMMA OnlyEndAtEnd ==
  ASSUME TypeOK, Cmd # CmdEnd
  PROVE  pc < data_size
  BY DEF TypeOK, Cmd, Arg, data_size

LEMMA BitsFit ==
  ASSUME NEW v \in Byte, NEW b \in {1, 2, 4, 8, 16}
  PROVE  SetBit(v, b) \in Byte /\ ClearBit(v, b) \in Byte
  BY DEF SetBit, ClearBit, Bit, Byte

LEMMA ConsumeKeepsPlace ==
  ASSUME TypeOK, NEW n \in Nat, Consume(n)
  PROVE  /\ pc' \in 0..data_size /\ playing' \in BOOLEAN
         /\ pc < data_size => pc' > pc
  BY DEF TypeOK, Consume, data_size

\* What a step writes, and what $4015 then holds.  No step writes more than five
\* registers.
ShortWrites(ws) == ws \in RegWrites /\ Len(ws) <= 5

LEMMA SomeIsLast ==
  ASSUME NEW S, S \subseteq 1..5, S # {}
  PROVE  \E i \in S : \A j \in S : j <= i
  <1>1. CASE 5 \in S
    BY <1>1
  <1>2. CASE 5 \notin S /\ 4 \in S
    BY <1>2
  <1>3. CASE 5 \notin S /\ 4 \notin S /\ 3 \in S
    BY <1>3
  <1>4. CASE 5 \notin S /\ 4 \notin S /\ 3 \notin S /\ 2 \in S
    BY <1>4
  <1>5. CASE 5 \notin S /\ 4 \notin S /\ 3 \notin S /\ 2 \notin S
    <2>1. PICK i \in S : TRUE
      OBVIOUS
    <2>2. \A j \in S : j = 1
      BY <1>5
    <2> QED
      BY <2>1, <2>2
  <1> QED
    BY <1>1, <1>2, <1>3, <1>4, <1>5

LEMMA WritesAreTyped ==
  ASSUME TypeOK, NEW ws, ShortWrites(ws), Writes(ws)
  PROVE  out' \in RegWrites /\ apuStatus' \in Byte
  <1> DEFINE at15 == {i \in 1..Len(ws) : ws[i][1] = ApuStatus}
             last == CHOOSE i \in at15 : \A j \in at15 : j <= i
  <1>1. out' = ws /\ apuStatus' = IF at15 = {} THEN apuStatus ELSE ws[last][2]
    BY DEF Writes
  <1>2. CASE at15 = {}
    BY <1>1, <1>2 DEF TypeOK, ShortWrites
  <1>3. CASE at15 # {}
    <2>1. at15 \subseteq 1..5
      BY DEF ShortWrites, RegWrites
    <2>2. \E i \in at15 : \A j \in at15 : j <= i
      BY <1>3, <2>1, SomeIsLast
    <2>3. last \in at15
      BY <2>2
    <2> HIDE DEF last
    <2>4. last \in 1..Len(ws)
      BY <2>3
    <2> QED
      BY <1>1, <1>3, <2>4 DEF ShortWrites, RegWrites
  <1> QED
    BY <1>2, <1>3

LEMMA FunctionIsSeq ==
  ASSUME NEW S, NEW n \in Nat, NEW f \in [1..n -> S]
  PROVE  f \in Seq(S) /\ Len(f) = n
  OBVIOUS

\* The commands that write channel registers.
LEMMA NoteOnIsShort ==
  ASSUME TypeOK, NEW ch \in 0..3
  PROVE  LET ws == NoteOnWrites[ch] IN
         /\ Len(ws) \in 2..4
         /\ ShortWrites([i \in 1..Len(ws) |-> <<ws[i][1], Arg(ws[i][2])>>])
         /\ Len([i \in 1..Len(ws) |-> <<ws[i][1], Arg(ws[i][2])>>]) <= 4
  <1> DEFINE ws == NoteOnWrites[ch]
  <1>1. Len(ws) \in 2..4 /\ \A i \in 1..Len(ws) : ws[i][1] \in 0..31 /\ ws[i][2] \in Nat
    <2>1. CASE ch = 0
      BY <2>1 DEF NoteOnWrites
    <2>2. CASE ch = 1
      BY <2>2 DEF NoteOnWrites
    <2>3. CASE ch = 2
      BY <2>3 DEF NoteOnWrites
    <2>4. CASE ch = 3
      BY <2>4 DEF NoteOnWrites
    <2> QED
      BY <2>1, <2>2, <2>3, <2>4
  <1> HIDE DEF ws
  <1>2. \A i \in 1..Len(ws) : <<ws[i][1], Arg(ws[i][2])>> \in (0..31) \X Byte
    BY <1>1, ArgIsByte
  <1> DEFINE notes == [i \in 1..Len(ws) |-> <<ws[i][1], Arg(ws[i][2])>>]
  <1>3. notes \in [1..Len(ws) -> (0..31) \X Byte]
    BY <1>2
  <1> HIDE DEF notes
  <1>4. notes \in RegWrites /\ Len(notes) = Len(ws)
    BY <1>1, <1>3, FunctionIsSeq DEF RegWrites
  <1>5. ShortWrites(notes) /\ Len(notes) <= 4
    BY <1>1, <1>4 DEF ShortWrites
  <1> QED
    BY <1>1, <1>5 DEF ws, notes

Short(s, n) == s \in Seq(0..31) /\ Len(s) <= n
Field(mask, bit, regs) == IF Bit(mask, bit) THEN regs ELSE << >>

LEMMA OneIsShort ==
  ASSUME NEW a \in 0..31, NEW mask, NEW bit
  PROVE  Short(Field(mask, bit, <<a>>), 1)
  <1>1. CASE Bit(mask, bit)
    BY <1>1 DEF Short, Field
  <1>2. CASE ~Bit(mask, bit)
    BY <1>2 DEF Short, Field
  <1> QED
    BY <1>1, <1>2

LEMMA TwoAreShort ==
  ASSUME NEW a \in 0..31, NEW b \in 0..31, NEW mask, NEW bit
  PROVE  Short(Field(mask, bit, <<a, b>>), 2)
  <1>1. CASE Bit(mask, bit)
    BY <1>1 DEF Short, Field
  <1>2. CASE ~Bit(mask, bit)
    BY <1>2 DEF Short, Field
  <1> QED
    BY <1>1, <1>2

LEMMA JoinIsShort ==
  ASSUME NEW s, NEW t, NEW m \in Nat, NEW n \in Nat, Short(s, m), Short(t, n)
  PROVE  Short(s \o t, m + n)
  BY DEF Short

LEMMA ParamIsShort ==
  ASSUME NEW ch \in 0..3, NEW mask \in Byte
  PROVE  Short(ParamRegs(ch, mask), 4)
  <1>1. CASE ch \in {0, 1}
    <2> DEFINE p == 4 * ch
               sweep == Field(mask, 1, <<p + 2, p + 3>>)
               duty  == Field(mask, 2, <<p>>)
               bend  == Field(mask, 4, <<p + 1>>)
    <2>1. ParamRegs(ch, mask) = sweep \o duty \o bend
      BY <1>1 DEF ParamRegs, Field
    <2>2. p \in 0..31 /\ p + 1 \in 0..31 /\ p + 2 \in 0..31 /\ p + 3 \in 0..31
      BY <1>1
    <2>3. Short(sweep, 2) /\ Short(duty, 1) /\ Short(bend, 1)
      BY <2>2, OneIsShort, TwoAreShort
    <2> HIDE DEF sweep, duty, bend
    <2>4. Short(sweep \o duty, 3)
      BY <2>3, JoinIsShort
    <2> QED
      BY <2>1, <2>3, <2>4, JoinIsShort
  <1>2. CASE ch \in {2, 3}
    <2> DEFINE period == IF ch = 2 THEN Field(mask, 1, <<10, 11>>) ELSE Field(mask, 1, <<14>>)
               volume == IF ch = 2 THEN Field(mask, 2, <<8>>) ELSE Field(mask, 2, <<12>>)
    <2>1. ParamRegs(ch, mask) = period \o volume
      BY <1>2 DEF ParamRegs, Field
    <2>2. Short(volume, 1)
      <3>1. 8 \in 0..31 /\ 12 \in 0..31
        OBVIOUS
      <3> QED
        BY <3>1, OneIsShort
    <2>3. Short(period, 2)
      <3>1. 10 \in 0..31 /\ 11 \in 0..31 /\ 14 \in 0..31
        OBVIOUS
      <3>2. Short(Field(mask, 1, <<14>>), 1) /\ Short(Field(mask, 1, <<10, 11>>), 2)
        BY <3>1, OneIsShort, TwoAreShort
      <3>3. Short(Field(mask, 1, <<14>>), 2)
        BY <3>2 DEF Short
      <3> QED
        BY <3>2, <3>3
    <2> HIDE DEF period, volume
    <2>4. Short(period \o volume, 3)
      BY <2>2, <2>3, JoinIsShort
    <2> QED
      BY <2>1, <2>4 DEF Short
  <1> QED
    BY <1>1, <1>2

-----------------------------------------------------------------------------
LEMMA InitHolds == Init => IInv
  <1>1. << >> \in Seq(Byte) /\ Len(<< >>) = 0 /\ << >> \in Seq((0..31) \X Byte)
    OBVIOUS
  <1>2. 15 \in Byte /\ 0 \in 0..MaxFrames
    BY MaxFramesAssumption DEF Byte
  <1>3. Init => TypeOK
    <2> SUFFICES ASSUME Init PROVE TypeOK
      OBVIOUS
    <2>1. pc \in 0..data_size /\ wait_frames \in 0..127 /\ frame_count \in Nat
      BY <1>1 DEF Init, data_size
    <2> QED
      BY <1>1, <1>2, <2>1 DEF Init, TypeOK
  <1> QED
    BY <1>1, <1>2, <1>3 DEF Init, IInv, PlayingHasData, TickHasRoom

\* Every call but the commands of a tick writes nothing or one register.
LEMMA QuietWrites ==
  ASSUME TypeOK, Writes(<< >>)
  PROVE  out' \in RegWrites /\ apuStatus' \in Byte
  <1>1. ShortWrites(<< >>)
    BY DEF ShortWrites, RegWrites
  <1> QED
    BY <1>1, WritesAreTyped

LEMMA OneWrite ==
  ASSUME TypeOK, NEW r \in 0..31, NEW v \in Byte, Writes(<< <<r, v>> >>)
  PROVE  out' \in RegWrites /\ apuStatus' \in Byte
  <1>1. <<r, v>> \in (0..31) \X Byte
    OBVIOUS
  <1>2. \A w \in (0..31) \X Byte : ShortWrites(<<w>>)
    BY DEF ShortWrites, RegWrites
  <1> QED
    BY <1>1, <1>2, WritesAreTyped

LEMMA LoadHolds ==
  ASSUME IInv, NEW f \in Files, LoadOk(f) \/ LoadFails(f)
  PROVE  IInv'
  <1>1. out' \in RegWrites /\ apuStatus' \in Byte
    BY QuietWrites DEF IInv, LoadOk, LoadFails
  <1>2. data' \in Seq(Byte) /\ frame_count' \in Nat
    <2>1. CASE LoadOk(f)
      <3>1. f.body \in Seq(Byte) /\ f.data_size \in Nat /\ f.data_size <= Len(f.body)
        BY <2>1, FilesAssumption DEF LoadOk
      <3>2. SubSeq(f.body, 1, f.data_size) \in Seq(Byte)
        BY <3>1
      <3> QED
        BY <2>1, <3>2, FilesAssumption DEF LoadOk
    <2>2. CASE LoadFails(f)
      BY <2>2, FilesAssumption DEF LoadFails
    <2> QED
      BY <2>1, <2>2
  <1>3. /\ pc' = 0 /\ wait_frames' = 0 /\ frames_played' = 0 /\ looped' = FALSE
        /\ hasData' \in BOOLEAN /\ playing' = hasData'
        /\ status' = status /\ inTick' = inTick /\ ~inTick /\ ret' = ret
    BY DEF LoadOk, LoadFails, Rewind
  <1>4. pc' \in 0..Len(data') /\ wait_frames' \in 0..127 /\ frames_played' \in 0..MaxFrames
    <2>1. Len(data') \in Nat
      BY <1>2
    <2> QED
      BY <1>3, <2>1, MaxFramesAssumption
  <1>5. TypeOK'
    BY <1>1, <1>2, <1>3, <1>4 DEF IInv, TypeOK, RegWrites, data_size
  <1> QED
    BY <1>3, <1>5 DEF IInv, PlayingHasData, TickHasRoom

LEMMA FreeHolds == ASSUME IInv, Free PROVE IInv'
  <1>1. out' \in RegWrites /\ apuStatus' \in Byte
    BY QuietWrites DEF IInv, Free
  <1> QED
    BY <1>1 DEF IInv, TypeOK, PlayingHasData, TickHasRoom, RegWrites, data_size, Free

LEMMA ResetHolds == ASSUME IInv, Reset PROVE IInv'
  <1>1. out' \in RegWrites /\ apuStatus' \in Byte
    <2>1. ApuStatus \in 0..31 /\ 15 \in Byte
      BY DEF ApuStatus, Byte
    <2> QED
      BY <2>1, OneWrite DEF IInv, Reset
  <1>2. pc' \in 0..Len(data) /\ wait_frames' \in 0..127 /\ frames_played' \in 0..MaxFrames
    BY MaxFramesAssumption DEF IInv, TypeOK, Reset, Rewind
  <1>3. /\ hasData' = hasData /\ data' = data /\ frame_count' = frame_count /\ status' = status
        /\ ~inTick /\ inTick' = inTick /\ ret' = ret /\ looped' = FALSE /\ playing' = hasData
    BY DEF Reset, Rewind, file
  <1>4. TypeOK'
    BY <1>1, <1>2, <1>3 DEF IInv, TypeOK, RegWrites, data_size
  <1> QED
    BY <1>3, <1>4 DEF IInv, PlayingHasData, TickHasRoom

LEMMA TickHolds == ASSUME IInv, Tick PROVE IInv'
  <1>1. out' \in RegWrites /\ apuStatus' \in Byte
    BY QuietWrites DEF IInv, Tick, TickStopped, TickWaiting, TickCommands
  <1>2. CASE TickStopped
    BY <1>1, <1>2
       DEF IInv, TypeOK, PlayingHasData, TickHasRoom, RegWrites, data_size, TickStopped, file, cursor
  <1>3. CASE TickWaiting
    BY <1>1, <1>3, MaxFramesAssumption
       DEF IInv, TypeOK, PlayingHasData, TickHasRoom, RegWrites, data_size, TickWaiting, file
  <1>4. CASE TickCommands
    BY <1>1, <1>4, MaxFramesAssumption
       DEF IInv, TypeOK, PlayingHasData, TickHasRoom, RegWrites, data_size, TickCommands, file, cursor
  <1> QED
    BY <1>2, <1>3, <1>4 DEF Tick

-----------------------------------------------------------------------------
\* What a command inside a tick does beyond keeping the invariant: it goes on, or
\* it leaves the tick with a verdict that is true of the player.
Verdict == /\ ret' <=> playing'
           /\ frames_played' = frames_played + (IF ret' THEN 1 ELSE 0)
GoesOn  == inTick' => pc' > pc \/ (Cmd = CmdLoop /\ looped')
Right   == IInv' /\ GoesOn /\ (~inTick' => Verdict)

\* The commands that write registers and stay in the loop.
LEMMA CommandIsRight ==
  ASSUME IInv, Fetch, NEW n \in Nat, NEW ws, ShortWrites(ws), Command(n, ws),
         status' \in Byte, Cmd # CmdEnd
  PROVE  Right
  <1>1. out' \in RegWrites /\ apuStatus' \in Byte
    BY WritesAreTyped DEF IInv, Command
  <1>2. pc' \in 0..data_size /\ playing' \in BOOLEAN /\ pc' > pc
    BY ConsumeKeepsPlace, OnlyEndAtEnd DEF IInv, Command
  <1>3. /\ hasData' = hasData /\ data' = data /\ frame_count' = frame_count
        /\ looped' = looped /\ wait_frames' = wait_frames /\ frames_played' = frames_played
        /\ inTick' = inTick /\ ret' = ret /\ inTick /\ playing
    BY DEF Command, Continue, SamePace, Fetch, file
  <1>4. TypeOK'
    BY <1>1, <1>2, <1>3 DEF IInv, TypeOK, RegWrites, data_size
  <1>5. PlayingHasData' /\ TickHasRoom'
    BY <1>3 DEF IInv, PlayingHasData, TickHasRoom
  <1> QED
    BY <1>2, <1>3, <1>4, <1>5 DEF Right, IInv, GoesOn

LEMMA WaitIsRight == ASSUME IInv, DoWait PROVE Right
  <1>1. out' \in RegWrites /\ apuStatus' \in Byte
    BY QuietWrites DEF IInv, DoWait
  <1>2. Cmd \in Byte /\ Cmd < 128
    BY ArgIsByte DEF IInv, DoWait, IsWait, Cmd
  <1>3. pc < data_size
    BY <1>2, OnlyEndAtEnd DEF IInv, CmdEnd
  <1>4. pc' \in 0..data_size /\ playing' = TRUE
    <2>1. PICK n \in Nat : n = data_size
      BY DEF IInv, TypeOK, data_size
    <2>2. pc \in Nat /\ pc + 0 < n
      BY <1>3, <2>1 DEF IInv, TypeOK
    <2>3. pc' = pc + 0 + 1 /\ playing' = TRUE
      BY <2>1, <2>2 DEF DoWait, Consume
    <2> QED
      BY <2>1, <2>2, <2>3
  <1>5. wait_frames' \in 0..127
    BY <1>2 DEF DoWait, WaitFrames, Byte
  <1>6. frames_played' = frames_played + 1 /\ frames_played' \in 0..MaxFrames
    BY MaxFramesAssumption DEF IInv, TypeOK, TickHasRoom, DoWait, Fetch
  <1>7. /\ hasData' = hasData /\ data' = data /\ frame_count' = frame_count
        /\ looped' = looped /\ status' = status /\ inTick' = FALSE /\ ret' = TRUE /\ playing
    BY DEF DoWait, Return, Fetch, file
  <1>8. TypeOK'
    BY <1>1, <1>4, <1>5, <1>6, <1>7 DEF IInv, TypeOK, RegWrites, data_size
  <1>9. PlayingHasData' /\ TickHasRoom'
    BY <1>7 DEF IInv, PlayingHasData, TickHasRoom
  <1> QED
    BY <1>4, <1>6, <1>7, <1>8, <1>9 DEF Right, IInv, GoesOn, Verdict

LEMMA EndIsRight == ASSUME IInv, DoEnd PROVE Right
  <1>1. out' \in RegWrites /\ apuStatus' \in Byte
    BY QuietWrites DEF IInv, DoEnd
  <1>2. pc' \in 0..data_size
    BY DEF IInv, TypeOK, DoEnd, data_size
  <1>3. /\ hasData' = hasData /\ data' = data /\ frame_count' = frame_count
        /\ looped' = looped /\ wait_frames' = wait_frames /\ frames_played' = frames_played
        /\ status' = status /\ inTick' = FALSE /\ ret' = FALSE /\ playing' = FALSE
    BY DEF DoEnd, Return, SamePace, file
  <1>4. TypeOK'
    BY <1>1, <1>2, <1>3 DEF IInv, TypeOK, RegWrites, data_size
  <1> QED
    BY <1>3, <1>4 DEF Right, IInv, TypeOK, GoesOn, Verdict, PlayingHasData, TickHasRoom

LEMMA LoopIsRight == ASSUME IInv, DoLoop PROVE Right
  <1> DEFINE offset == Arg(1) + 256 * Arg(2)
  <1>1. out' \in RegWrites /\ apuStatus' \in Byte
    BY QuietWrites DEF IInv, DoLoop
  <1>2. offset \in Nat
    <2>1. PICK lo \in Byte, hi \in Byte : lo = Arg(1) /\ hi = Arg(2)
      BY ArgIsByte DEF IInv
    <2>2. lo + 256 * hi \in Nat
      BY DEF Byte
    <2> QED
      BY <2>1, <2>2
  <1>3. /\ hasData' = hasData /\ data' = data /\ frame_count' = frame_count
        /\ wait_frames' = wait_frames /\ frames_played' = frames_played
        /\ status' = status /\ inTick /\ playing
    BY DEF DoLoop, SamePace, file, Fetch
  <1>4. CASE offset < data_size
    <2>1. /\ pc' = offset /\ looped' = TRUE /\ playing' \in BOOLEAN
          /\ inTick' = inTick /\ ret' = ret /\ Cmd = CmdLoop
      BY <1>4 DEF DoLoop, Continue
    <2>2. pc' \in 0..data_size
      BY <1>2, <1>4, <2>1 DEF IInv, TypeOK, data_size
    <2>3. TypeOK'
      BY <1>1, <1>3, <2>1, <2>2 DEF IInv, TypeOK, RegWrites, data_size
    <2> QED
      BY <1>3, <2>1, <2>3 DEF Right, IInv, GoesOn, PlayingHasData, TickHasRoom
  <1>5. CASE ~(offset < data_size)
    <2>1. /\ pc' = (IF pc + 2 < data_size THEN pc + 3 ELSE data_size) /\ looped' = looped
          /\ playing' = FALSE /\ inTick' = FALSE /\ ret' = FALSE
      BY <1>5 DEF DoLoop, Return
    <2>2. pc' \in 0..data_size
      BY <2>1 DEF IInv, TypeOK, data_size
    <2>3. TypeOK'
      BY <1>1, <1>3, <2>1, <2>2 DEF IInv, TypeOK, RegWrites, data_size
    <2> QED
      BY <1>3, <2>1, <2>3
         DEF Right, IInv, TypeOK, GoesOn, Verdict, PlayingHasData, TickHasRoom
  <1> QED
    BY <1>4, <1>5

LEMMA CutOffIsRight == ASSUME IInv, CutOff PROVE Right
  <1>1. out' \in RegWrites /\ apuStatus' \in Byte
    BY QuietWrites DEF IInv, CutOff
  <1>2. /\ hasData' = hasData /\ data' = data /\ frame_count' = frame_count
        /\ pc' = pc /\ wait_frames' = wait_frames /\ playing' = playing /\ ~playing
        /\ looped' = looped /\ frames_played' = frames_played /\ status' = status
        /\ inTick' = FALSE /\ ret' = playing
    BY DEF CutOff, Return, file, cursor
  <1>3. TypeOK'
    BY <1>1, <1>2 DEF IInv, TypeOK, RegWrites, data_size
  <1> QED
    BY <1>2, <1>3 DEF Right, IInv, TypeOK, GoesOn, Verdict, PlayingHasData, TickHasRoom

\* The commands of DPCM, of single registers and of the channels.
LEMMA DpcmIsRight == ASSUME IInv, DoDpcmPlay \/ DoDpcmStop \/ DoDpcmRaw PROVE Right
  <1>1. status \in Byte /\ Arg(1) \in Byte /\ Arg(2) \in Byte /\ Arg(3) \in Byte
    BY ArgIsByte DEF IInv, TypeOK
  <1>2. SetBit(status, 16) \in Byte /\ ClearBit(status, 16) \in Byte
    BY <1>1, BitsFit
  <1>3. {DmcFreq, DmcStart, DmcLen, DmcRaw, ApuStatus} \subseteq 0..31
    BY DEF DmcFreq, DmcStart, DmcLen, DmcRaw, ApuStatus
  <1>4. CASE DoDpcmPlay
    <2> DEFINE ws == << <<DmcFreq, Arg(1)>>, <<DmcStart, Arg(2)>>, <<DmcLen, Arg(3)>>,
                        <<ApuStatus, status'>> >>
    <2>1. status' \in Byte /\ Cmd # CmdEnd /\ Fetch /\ Command(3, ws)
      BY <1>2, <1>4 DEF DoDpcmPlay, CmdDpcmPlay, CmdEnd
    <2>2. ShortWrites(ws)
      BY <1>1, <1>3, <2>1 DEF ShortWrites, RegWrites
    <2> HIDE DEF ws
    <2> QED
      BY <2>1, <2>2, CommandIsRight
  <1>5. CASE DoDpcmStop
    <2> DEFINE ws == << <<ApuStatus, status'>> >>
    <2>1. status' \in Byte /\ Cmd # CmdEnd /\ Fetch /\ Command(0, ws)
      BY <1>2, <1>5 DEF DoDpcmStop, CmdDpcmStop, CmdEnd
    <2>2. ShortWrites(ws)
      BY <1>3, <2>1 DEF ShortWrites, RegWrites
    <2> HIDE DEF ws
    <2> QED
      BY <2>1, <2>2, CommandIsRight
  <1>6. CASE DoDpcmRaw
    <2> DEFINE ws == << <<DmcRaw, Arg(1)>> >>
    <2>1. status' \in Byte /\ Cmd # CmdEnd /\ Fetch /\ Command(1, ws)
      BY <1>1, <1>6 DEF DoDpcmRaw, CmdDpcmRaw, CmdEnd
    <2>2. ShortWrites(ws)
      BY <1>1, <1>3 DEF ShortWrites, RegWrites
    <2> HIDE DEF ws
    <2> QED
      BY <2>1, <2>2, CommandIsRight
  <1> QED
    BY <1>4, <1>5, <1>6

LEMMA RegWriteIsRight == ASSUME IInv, DoRegWrite PROVE Right
  <1> DEFINE ws == << <<RegOffset(Cmd), Arg(1)>> >>
  <1>1. status' \in Byte /\ Arg(1) \in Byte /\ Cmd \in Byte
    BY ArgIsByte DEF IInv, TypeOK, DoRegWrite, Cmd
  <1>2. Fetch /\ Command(1, ws) /\ IsRegWrite(Cmd)
    BY DEF DoRegWrite
  <1>3. Cmd # CmdEnd
    BY <1>2 DEF IsRegWrite, CmdEnd
  <1>4. RegOffset(Cmd) \in 0..31
    BY <1>1 DEF RegOffset, Byte
  <1>5. ShortWrites(ws)
    BY <1>1, <1>4 DEF ShortWrites, RegWrites
  <1> HIDE DEF ws
  <1> QED
    BY <1>1, <1>2, <1>3, <1>5, CommandIsRight

LEMMA ChannelBitFits ==
  ASSUME IInv
  PROVE  /\ ChannelOf(Cmd) \in 0..3
         /\ SetBit(status, ChannelBit) \in Byte /\ ClearBit(status, ChannelBit) \in Byte
  <1>1. Cmd \in Byte /\ status \in Byte
    BY ArgIsByte DEF IInv, TypeOK, Cmd
  <1>2. ChannelOf(Cmd) \in 0..3
    BY <1>1 DEF ChannelOf, Byte
  <1>3. ChannelBit \in {1, 2, 4, 8, 16}
    BY <1>2 DEF ChannelBit
  <1> QED
    BY <1>1, <1>2, <1>3, BitsFit

LEMMA NoteIsRight == ASSUME IInv, DoNoteOn \/ DoNoteOff PROVE Right
  <1>1. CASE DoNoteOn
    <2> DEFINE regs == NoteOnWrites[ChannelOf(Cmd)]
               notes == [i \in 1..Len(regs) |-> <<regs[i][1], Arg(regs[i][2])>>]
               ws == << <<ApuStatus, status'>> >> \o notes
    <2>1. status' \in Byte /\ Cmd # CmdEnd /\ Fetch /\ Command(Len(regs), ws)
      BY <1>1, ChannelBitFits DEF DoNoteOn, IsChannel
    <2>2. Len(regs) \in 2..4 /\ notes \in RegWrites /\ Len(notes) <= 4
      BY ChannelBitFits, NoteOnIsShort DEF IInv, ShortWrites
    <2>4. << <<ApuStatus, status'>> >> \in RegWrites /\ Len(<< <<ApuStatus, status'>> >>) = 1
      BY <2>1 DEF RegWrites, ApuStatus
    <2> HIDE DEF notes
    <2>5. ShortWrites(ws)
      BY <2>2, <2>4 DEF ShortWrites, RegWrites
    <2> HIDE DEF ws, regs
    <2> QED
      BY <2>1, <2>2, <2>5, CommandIsRight
  <1>2. CASE DoNoteOff
    <2> DEFINE ws == << <<ApuStatus, status'>> >>
    <2>1. status' \in Byte /\ Cmd # CmdEnd /\ Fetch /\ Command(0, ws)
      BY <1>2, ChannelBitFits DEF DoNoteOff, IsChannel
    <2>2. ShortWrites(ws)
      BY <2>1 DEF ShortWrites, RegWrites, ApuStatus
    <2> HIDE DEF ws
    <2> QED
      BY <2>1, <2>2, CommandIsRight
  <1> QED
    BY <1>1, <1>2

LEMMA ItemsOfSeq ==
  ASSUME NEW S, NEW s \in Seq(S)
  PROVE  Len(s) \in Nat /\ \A i \in 1..Len(s) : s[i] \in S
  OBVIOUS

LEMMA ParamIsRight == ASSUME IInv, DoParam PROVE Right
  <1> DEFINE regs == ParamRegs(ChannelOf(Cmd), Arg(1))
             ws == [i \in 1..Len(regs) |-> <<regs[i], Arg(1 + i)>>]
  <1>1. status' \in Byte /\ Cmd # CmdEnd /\ Fetch /\ Command(1 + Len(regs), ws)
    BY DEF IInv, TypeOK, DoParam, IsChannel
  <1>2. Arg(1) \in Byte
    BY ArgIsByte DEF IInv
  <1>3. regs \in Seq(0..31) /\ Len(regs) <= 4
    BY <1>2, ChannelBitFits, ParamIsShort DEF Short
  <1> HIDE DEF regs
  <1>4. Len(regs) \in Nat /\ \A i \in 1..Len(regs) : regs[i] \in 0..31 /\ 1 + i \in Nat
    <2>1. Len(regs) \in Nat /\ \A i \in 1..Len(regs) : regs[i] \in 0..31
      BY <1>3, ItemsOfSeq
    <2>2. \A i \in 1..Len(regs) : 1 + i \in Nat
      BY <2>1
    <2> QED
      BY <2>1, <2>2
  <1>5. \A i \in 1..Len(regs) : <<regs[i], Arg(1 + i)>> \in (0..31) \X Byte
    BY <1>4, ArgIsByte DEF IInv
  <1>6. ShortWrites(ws)
    <2>1. ws \in [1..Len(regs) -> (0..31) \X Byte]
      BY <1>5
    <2> HIDE DEF ws
    <2>2. ws \in RegWrites /\ Len(ws) = Len(regs)
      BY <1>4, <2>1, FunctionIsSeq DEF RegWrites
    <2> QED
      BY <1>3, <1>4, <2>2 DEF ShortWrites
  <1>7. 1 + Len(regs) \in Nat
    BY <1>4
  <1> HIDE DEF ws
  <1> QED
    BY <1>1, <1>6, <1>7, CommandIsRight

LEMMA UnknownIsRight == ASSUME IInv, DoUnknown PROVE Right
  <1>1. ShortWrites(<< >>)
    BY DEF ShortWrites, RegWrites
  <1>2. status' \in Byte /\ Cmd # CmdEnd /\ Fetch /\ Command(0, << >>)
    BY DEF IInv, TypeOK, DoUnknown, IsChannel
  <1> QED
    BY <1>1, <1>2, CommandIsRight

LEMMA InTickIsRight == ASSUME IInv, InTick PROVE Right
  BY WaitIsRight, EndIsRight, LoopIsRight, RegWriteIsRight, DpcmIsRight, NoteIsRight,
     ParamIsRight, UnknownIsRight, CutOffIsRight
     DEF InTick

-----------------------------------------------------------------------------
LEMMA NextHolds == IInv /\ [Next]_vars => IInv'
  <1> SUFFICES ASSUME IInv, [Next]_vars PROVE IInv'
    OBVIOUS
  <1>1. CASE UNCHANGED vars
    BY <1>1 DEF IInv, TypeOK, PlayingHasData, TickHasRoom, data_size, vars, file, cursor
  <1>2. CASE Next
    BY <1>2, LoadHolds, FreeHolds, ResetHolds, TickHolds, InTickIsRight DEF Next, Right
  <1> QED
    BY <1>1, <1>2

(***************************************************************************)
(* The inductive invariant of fmsq_player.c: the fields keep their ranges, *)
(* playing implies data, and a tick in progress has not counted its frame. *)
(***************************************************************************)
THEOREM PlayerInvariant == Spec => []IInv
  BY InitHolds, NextHolds, PTL DEF Spec

\* For every set of files: pc never leaves the data, wait_frames stays below 128,
\* registers stay below $20 and values are bytes.
THEOREM PlayerTypes == Spec => []TypeOK
  <1>1. IInv => TypeOK
    BY DEF IInv
  <1> QED
    BY <1>1, PlayerInvariant, PTL

\* No order of load, free, reset and tick makes fmsq_player_tick read the buffer
\* that fmsq_player_free released.
THEOREM DataIsThere == Spec => []PlayingHasData
  <1>1. IInv => PlayingHasData
    BY DEF IInv
  <1> QED
    BY <1>1, PlayerInvariant, PTL

\* Whatever the stream holds, what fmsq_player_tick returns is true of the player:
\* true counts one frame and plays on, false leaves the player stopped.
THEOREM VerdictIsTrue == Spec => TickVerdict
  <1>1. IInv /\ [Next]_vars =>
          [(inTick /\ ~inTick') \/ TickStopped \/ TickWaiting
             => /\ ret' <=> playing'
                /\ frames_played' = frames_played + (IF ret' THEN 1 ELSE 0)]_vars
    <2> SUFFICES ASSUME IInv, Next, (inTick /\ ~inTick') \/ TickStopped \/ TickWaiting
                 PROVE  Verdict
      BY DEF Verdict
    <2>1. CASE TickStopped
      BY <2>1 DEF IInv, TypeOK, TickStopped, cursor, Verdict
    <2>2. CASE TickWaiting
      BY <2>2 DEF TickWaiting, Verdict
    <2>3. CASE inTick /\ ~inTick'
      <3>1. InTick
        BY <2>3 DEF Next, LoadOk, LoadFails, Free, Reset, Tick, TickStopped, TickWaiting, TickCommands
      <3> QED
        BY <2>3, <3>1, InTickIsRight DEF Right
    <2> QED
      BY <2>1, <2>2, <2>3
  <1> QED
    BY <1>1, PlayerInvariant, PTL DEF Spec, TickVerdict

\* Whatever the stream holds, the loop of fmsq_player_tick moves forward with each
\* command that is no LOOP: there is no byte it can stand still on.
THEOREM TickMovesOn == Spec => TickProgress
  <1>1. IInv /\ [Next]_vars =>
          [inTick /\ inTick' => pc' > pc \/ (Cmd = CmdLoop /\ looped')]_vars
    <2> SUFFICES ASSUME IInv, Next, inTick, inTick'
                 PROVE  pc' > pc \/ (Cmd = CmdLoop /\ looped')
      OBVIOUS
    <2>1. InTick
      BY DEF Next, LoadOk, LoadFails, Free, Reset, Tick, TickStopped, TickWaiting, TickCommands
    <2> QED
      BY <2>1, InTickIsRight DEF Right, GoesOn
  <1> QED
    BY <1>1, PlayerInvariant, PTL DEF Spec, TickProgress
=============================================================================
