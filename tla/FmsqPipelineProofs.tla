------------------------- MODULE FmsqPipelineProofs -------------------------
(***************************************************************************)
(* The tool chain replays the tune: for every log a recording can make,    *)
(* every limit of a WAIT and every width of the file's fields, the player  *)
(* hears in its k-th tick what the tune wrote in its k-th PLAY call. The   *)
(* argument decodes the stream: each place where a command starts stands   *)
(* for a frame of the schedule and a number of its writes, and each        *)
(* command leads from such a place to the next.                            *)
(***************************************************************************)
EXTENDS FmsqPipeline, FiniteSetTheorems, SequenceTheorems, WellFoundedInduction, TLAPS

-----------------------------------------------------------------------------
\* Induction, by the least number that would not do.

LEMMA LessIsWellFounded ==
  \E R : /\ IsWellFoundedOn(R, Nat)
         /\ \A k, m \in Nat : k < m => <<k, m>> \in R
  <1> DEFINE R == OpToRel(<, Nat)
  <1>1. IsWellFoundedOn(R, Nat)
    BY NatLessThanWellFounded, Zenon
  <1>2. \A k, m \in Nat : k < m => <<k, m>> \in R
    BY Zenon DEF OpToRel
  <1> HIDE DEF R
  <1> QED
    BY <1>1, <1>2, Zenon

LEMMA LeastNumber ==
  ASSUME NEW T, T \subseteq Nat, T # {}
  PROVE  \E m \in T : \A k \in T : m <= k
  <1>1. PICK R : /\ IsWellFoundedOn(R, Nat)
                 /\ \A k, m \in Nat : k < m => <<k, m>> \in R
    BY LessIsWellFounded
  <1>2. PICK m \in T : \A k \in T : ~(<<k, m>> \in R)
    BY <1>1, WFMin, Zenon
  <1>3. \A k \in T : ~(k < m)
    BY <1>1, <1>2, Zenon
  <1> QED
    BY <1>3

\* A set that has 0, and with each number the next one, has them all.
LEMMA Induction ==
  ASSUME NEW T, 0 \in T, \A n \in Nat : n \in T => n + 1 \in T
  PROVE  \A n \in Nat : n \in T
  <1> SUFFICES ASSUME Nat \ T # {} PROVE FALSE
    OBVIOUS
  <1>1. PICK m \in Nat \ T : \A k \in Nat \ T : m <= k
    BY LeastNumber
  <1>2. m - 1 \in Nat
    BY <1>1
  <1>3. m - 1 \in T
    BY <1>1, <1>2
  <1> QED
    BY <1>1, <1>2, <1>3

-----------------------------------------------------------------------------
\* The writes at some positions of the log, position by position.

Pick(at, ws, i) ==
  IF i \in at /\ IsApuWrite(log[i]) THEN Append(ws, <<log[i].off, log[i].val>>) ELSE ws

Picks(at, n, f) == f = [i \in 0..n |-> IF i = 0 THEN << >> ELSE Pick(at, f[i - 1], i)]

LEMMA PicksExist == ASSUME NEW at, NEW n \in Nat PROVE \E f : Picks(at, n, f)
  <1> DEFINE T == {m \in Nat : \E f : Picks(at, m, f)}
  <1>1. 0 \in T
    <2> DEFINE g == [i \in 0..0 |-> << >>]
    <2>1. Picks(at, 0, g)
      BY DEF Picks
    <2> HIDE DEF g
    <2> QED
      BY <2>1
  <1>2. ASSUME NEW m \in Nat, m \in T PROVE m + 1 \in T
    <2>1. PICK f : Picks(at, m, f)
      BY <1>2
    <2> DEFINE g == [i \in 0..m + 1 |-> IF i = m + 1 THEN Pick(at, f[m], m + 1) ELSE f[i]]
    <2>2. \A i \in 0..m : f[i] = IF i = 0 THEN << >> ELSE Pick(at, f[i - 1], i)
      BY <2>1, Zenon DEF Picks
    <2>3. \A i \in 0..m + 1 : g[i] = IF i = 0 THEN << >> ELSE Pick(at, g[i - 1], i)
      <3> SUFFICES ASSUME NEW i \in 0..m + 1
                   PROVE  g[i] = IF i = 0 THEN << >> ELSE Pick(at, g[i - 1], i)
        OBVIOUS
      <3>1. CASE i = m + 1
        <4>1. g[i - 1] = f[m] /\ i # 0
          BY <3>1
        <4> QED
          BY <3>1, <4>1
      <3>2. CASE i \in 1..m
        <4>1. g[i - 1] = f[i - 1] /\ g[i] = f[i] /\ i # 0
          BY <3>2
        <4> QED
          BY <2>2, <3>2, <4>1
      <3>3. CASE i = 0
        BY <2>2, <3>3
      <3> QED
        BY <3>1, <3>2, <3>3
    <2>4. g = [i \in 0..m + 1 |-> g[i]]
      OBVIOUS
    <2> HIDE DEF g
    <2>5. Picks(at, m + 1, g)
      BY <2>3, <2>4 DEF Picks
    <2> QED
      BY <2>5
  <1> HIDE DEF T
  <1>3. n \in T
    BY <1>1, <1>2, Induction
  <1> QED
    BY <1>3 DEF T

Picked(at) == CHOOSE f : Picks(at, Len(log), f)

LEMMA PickedSteps ==
  ASSUME NEW at, Len(log) \in Nat
  PROVE  /\ WritesAt(at) = Picked(at)[Len(log)]
         /\ Picked(at)[0] = << >>
         /\ \A i \in 1..Len(log) : Picked(at)[i] = Pick(at, Picked(at)[i - 1], i)
  <1>1. WritesAt(at) = Picked(at)[Len(log)]
    BY DEF WritesAt, Picked, Picks, Pick
  <1>2. Picks(at, Len(log), Picked(at))
    BY PicksExist DEF Picked
  <1>3. \A i \in 0..Len(log) :
          Picked(at)[i] = IF i = 0 THEN << >> ELSE Pick(at, Picked(at)[i - 1], i)
    BY <1>2, Zenon DEF Picks
  <1> QED
    BY <1>1, <1>3

-----------------------------------------------------------------------------
\* What the writes at some positions are.

RegisterWrite == (0..23) \X Byte

LogTyped == log \in Seq(Entry)

LEMMA EntryWrites ==
  ASSUME LogTyped, NEW i \in 1..Len(log), IsApuWrite(log[i])
  PROVE  <<log[i].off, log[i].val>> \in RegisterWrite
  <1>1. log[i] \in Entry
    BY DEF LogTyped
  <1>2. log[i].event \notin Markers
    BY DEF IsApuWrite, Markers
  <1>3. log[i] \in [event : {"WRITE"}, off : Offsets, val : Values]
    BY <1>1, <1>2 DEF Entry
  <1> QED
    BY <1>3, ConvertAssumption DEF RegisterWrite

LEMMA PickedType ==
  ASSUME LogTyped, NEW at
  PROVE  \A i \in 0..Len(log) : Picked(at)[i] \in Seq(RegisterWrite)
  <1> DEFINE T == {i \in Nat : i <= Len(log) => Picked(at)[i] \in Seq(RegisterWrite)}
  <1>0. Len(log) \in Nat
    BY DEF LogTyped
  <1>1. 0 \in T
    BY <1>0, PickedSteps, EmptySeq
  <1>2. ASSUME NEW n \in Nat, n \in T PROVE n + 1 \in T
    <2> SUFFICES ASSUME n + 1 <= Len(log) PROVE Picked(at)[n + 1] \in Seq(RegisterWrite)
      OBVIOUS
    <2>1. Picked(at)[n] \in Seq(RegisterWrite)
      BY <1>0, <1>2
    <2>2. Picked(at)[n + 1] = Pick(at, Picked(at)[n], n + 1)
      BY <1>0, PickedSteps
    <2> QED
      BY <1>0, <2>1, <2>2, EntryWrites DEF Pick
  <1> HIDE DEF T
  <1>3. \A n \in Nat : n \in T
    BY <1>1, <1>2, Induction
  <1> QED
    BY <1>0, <1>3 DEF T

LEMMA WritesType == ASSUME LogTyped, NEW at PROVE WritesAt(at) \in Seq(RegisterWrite)
  BY PickedType, PickedSteps DEF LogTyped

\* Only the positions of writes count.
LEMMA SameWrites ==
  ASSUME LogTyped, NEW at, NEW other,
         \A i \in 1..Len(log) : IsApuWrite(log[i]) => (i \in at <=> i \in other)
  PROVE  WritesAt(at) = WritesAt(other)
  <1> DEFINE T == {i \in Nat : i <= Len(log) => Picked(at)[i] = Picked(other)[i]}
  <1>0. Len(log) \in Nat
    BY DEF LogTyped
  <1>1. 0 \in T
    BY <1>0, PickedSteps
  <1>2. ASSUME NEW n \in Nat, n \in T PROVE n + 1 \in T
    <2> SUFFICES ASSUME n + 1 <= Len(log) PROVE Picked(at)[n + 1] = Picked(other)[n + 1]
      OBVIOUS
    <2>1. n + 1 \in 1..Len(log) /\ Picked(at)[n] = Picked(other)[n] /\ n + 1 - 1 = n
      BY <1>0, <1>2
    <2>2. /\ Picked(at)[n + 1] = Pick(at, Picked(at)[n], n + 1)
          /\ Picked(other)[n + 1] = Pick(other, Picked(other)[n], n + 1)
      BY <1>0, <2>1, PickedSteps
    <2> QED
      BY <2>1, <2>2 DEF Pick
  <1> HIDE DEF T
  <1>3. \A n \in Nat : n \in T
    BY <1>1, <1>2, Induction
  <1> QED
    BY <1>0, <1>3, PickedSteps DEF T

\* The writes at positions of which some are all before the others.
LEMMA WritesInParts ==
  ASSUME LogTyped, NEW m \in Int, NEW early, NEW late,
         \A i \in early : i <= m, \A i \in late : i > m
  PROVE  WritesAt(early \cup late) = WritesAt(early) \o WritesAt(late)
  <1> DEFINE A == Picked(early)
             B == Picked(late)
             C == Picked(early \cup late)
             P(i) == C[i] = A[i] \o B[i] /\ (i <= m => B[i] = << >>)
             T == {i \in Nat : i <= Len(log) => P(i)}
  <1>0. Len(log) \in Nat
    BY DEF LogTyped
  <1>1. 0 \in T
    <2>1. A[0] = << >> /\ B[0] = << >> /\ C[0] = << >>
      BY <1>0, PickedSteps
    <2> HIDE DEF A, B, C
    <2>2. P(0)
      BY <2>1
    <2> QED
      BY <2>2
  <1>2. ASSUME NEW n \in Nat, n \in T PROVE n + 1 \in T
    <2> SUFFICES ASSUME n + 1 <= Len(log) PROVE P(n + 1)
      <3> HIDE DEF P
      <3> QED
        OBVIOUS
    <2>0. n + 1 \in 1..Len(log) /\ n + 1 - 1 = n /\ n \in 0..Len(log)
      BY <1>0
    <2>1. P(n)
      <3> HIDE DEF P
      <3> QED
        BY <1>0, <1>2
    <2>2. /\ A[n + 1] = Pick(early, A[n], n + 1) /\ B[n + 1] = Pick(late, B[n], n + 1)
          /\ C[n + 1] = Pick(early \cup late, C[n], n + 1)
      BY <1>0, <2>0, PickedSteps
    <2>3. A[n] \in Seq(RegisterWrite) /\ B[n] \in Seq(RegisterWrite)
      BY <2>0, PickedType
    <2> DEFINE e == <<log[n + 1].off, log[n + 1].val>>
    <2>4. IsApuWrite(log[n + 1]) => e \in RegisterWrite
      BY <2>0, EntryWrites
    <2> HIDE DEF A, B, C, e
    <2>5. CASE ~IsApuWrite(log[n + 1])
      <3>1. A[n + 1] = A[n] /\ B[n + 1] = B[n] /\ C[n + 1] = C[n]
        BY <2>2, <2>5, Zenon DEF Pick
      <3>2. n + 1 <= m => n <= m
        OBVIOUS
      <3> QED
        BY <2>1, <3>1, <3>2, Zenon
    <2>6. CASE IsApuWrite(log[n + 1]) /\ n + 1 <= m
      <3>1. n + 1 \notin late /\ B[n] = << >>
        BY <2>1, <2>6
      <3>2. B[n + 1] = << >>
        BY <2>2, <3>1 DEF Pick
      <3>3. A[n + 1] \in Seq(RegisterWrite)
        BY <2>2, <2>3, <2>4, <2>6 DEF Pick, e
      <3>4. C[n] = A[n]
        BY <2>1, <2>3, <3>1
      <3>5. C[n + 1] = A[n + 1]
        BY <2>2, <3>1, <3>4 DEF Pick
      <3> QED
        BY <3>2, <3>3, <3>5
    <2>7. CASE IsApuWrite(log[n + 1]) /\ ~(n + 1 <= m)
      <3>1. n + 1 \notin early
        BY <2>1, <2>7
      <3>2. A[n + 1] = A[n]
        BY <2>2, <3>1 DEF Pick
      <3>3. CASE n + 1 \in late
        <4>1. B[n + 1] = Append(B[n], e) /\ C[n + 1] = Append(C[n], e)
          BY <2>2, <2>7, <3>3 DEF Pick, e
        <4>2. Append(A[n] \o B[n], e) = A[n] \o Append(B[n], e)
          <5>1. PICK a \in Seq(RegisterWrite), b \in Seq(RegisterWrite), x \in RegisterWrite :
                   a = A[n] /\ b = B[n] /\ x = e
            BY <2>3, <2>4, <2>7, Zenon
          <5>2. /\ Append(a \o b, x) = (a \o b) \o <<x>> /\ Append(b, x) = b \o <<x>>
                /\ <<x>> \in Seq(RegisterWrite)
            BY ConcatProperties, AppendIsConcat
          <5>3. (a \o b) \o <<x>> = a \o (b \o <<x>>)
            BY <5>2, ConcatAssociative
          <5> QED
            BY <5>1, <5>2, <5>3
        <4> QED
          BY <2>1, <2>7, <3>2, <4>1, <4>2
      <3>4. CASE n + 1 \notin late
        BY <2>1, <2>2, <2>7, <3>1, <3>2, <3>4 DEF Pick
      <3> QED
        BY <3>3, <3>4
    <2> QED
      BY <2>1, <2>5, <2>6, <2>7
  <1> HIDE DEF T, P
  <1>3. \A n \in Nat : n \in T
    BY <1>1, <1>2, Induction
  <1>5. P(Len(log))
    BY <1>0, <1>3 DEF T
  <1>4. C[Len(log)] = A[Len(log)] \o B[Len(log)]
    BY <1>5, Zenon DEF P
  <1> QED
    <2>1. \A at : WritesAt(at) = Picked(at)[Len(log)]
      BY <1>0, PickedSteps
    <2> QED
      BY <1>4, <2>1, Zenon

-----------------------------------------------------------------------------
\* The shape of a log: one INIT_END, with the first PLAY_START right behind it, or neither.

LogShape ==
  \/ \A i \in 1..Len(log) : log[i].event \notin {"INIT_END", "PLAY_START"}
  \/ \E e \in 1..(Len(log) - 1) :
       /\ log[e].event = "INIT_END" /\ log[e + 1].event = "PLAY_START"
       /\ \A i \in 1..Len(log) : /\ log[i].event = "INIT_END" => i = e
                                 /\ log[i].event = "PLAY_START" => i > e

LogInv == LogTyped /\ LogShape

LEMMA LogInitInv == LogInit => LogInv
  BY DEF LogInit, LogInv, LogTyped, LogShape

\* An entry of neither kind behind the others changes nothing of the shape.
LEMMA PlainEntry ==
  ASSUME LogInv, NEW e \in Entry, e.event \notin {"INIT_END"},
         e.event = "PLAY_START" => Has("PLAY_START"), log' = Append(log, e)
  PROVE  LogInv'
  <1>0. log \in Seq(Entry) /\ Len(log) \in Nat
    BY DEF LogInv, LogTyped
  <1>1. /\ log' \in Seq(Entry) /\ Len(log') = Len(log) + 1 /\ log'[Len(log) + 1] = e
        /\ \A i \in 1..Len(log) : log'[i] = log[i]
    BY <1>0, AppendProperties
  <1>2. CASE \A i \in 1..Len(log) : log[i].event \notin {"INIT_END", "PLAY_START"}
    <2>1. e.event # "PLAY_START"
      BY <1>2 DEF Has
    <2>2. \A i \in 1..Len(log') : log'[i].event \notin {"INIT_END", "PLAY_START"}
      <3> TAKE i \in 1..Len(log')
      <3>1. CASE i = Len(log) + 1
        BY <1>1, <2>1, <3>1
      <3>2. CASE i \in 1..Len(log)
        BY <1>1, <1>2, <3>2
      <3> QED
        BY <1>0, <1>1, <3>1, <3>2
    <2> QED
      BY <1>1, <2>2 DEF LogInv, LogTyped, LogShape
  <1>3. ASSUME NEW k \in 1..(Len(log) - 1),
               log[k].event = "INIT_END", log[k + 1].event = "PLAY_START",
               \A i \in 1..Len(log) : /\ log[i].event = "INIT_END" => i = k
                                      /\ log[i].event = "PLAY_START" => i > k
        PROVE  LogInv'
    <2>1. /\ k \in 1..(Len(log') - 1) /\ k \in 1..Len(log) /\ k + 1 \in 1..Len(log)
          /\ Len(log) + 1 > k
      BY <1>0, <1>1
    <2>2. log'[k].event = "INIT_END" /\ log'[k + 1].event = "PLAY_START"
      BY <1>1, <1>3, <2>1
    <2>3. \A i \in 1..Len(log') : /\ log'[i].event = "INIT_END" => i = k
                                  /\ log'[i].event = "PLAY_START" => i > k
      <3> TAKE i \in 1..Len(log')
      <3>1. CASE i = Len(log) + 1
        BY <1>1, <2>1, <3>1
      <3>2. CASE i \in 1..Len(log)
        BY <1>1, <1>3, <3>2
      <3> QED
        BY <1>0, <1>1, <3>1, <3>2
    <2>4. LogShape'
      BY <2>1, <2>2, <2>3 DEF LogShape
    <2> QED
      BY <1>1, <2>4 DEF LogInv, LogTyped
  <1> QED
    BY <1>2, <1>3 DEF LogInv, LogShape

\* The first PLAY_START brings INIT_END with it.
LEMMA FirstPlay ==
  ASSUME LogInv, ~Has("PLAY_START"),
         log' = log \o <<Marker("INIT_END")>> \o <<Marker("PLAY_START")>>
  PROVE  LogInv'
  <1> DEFINE n == Len(log)
             a == Marker("INIT_END")
             b == Marker("PLAY_START")
  <1>0. log \in Seq(Entry) /\ n \in Nat
    BY DEF LogInv, LogTyped
  <1>1. /\ a \in Entry /\ b \in Entry /\ a.event = "INIT_END" /\ b.event = "PLAY_START"
    BY DEF Marker, Entry, Markers
  <1> HIDE DEF a, b
  <1>2. /\ log' \in Seq(Entry) /\ Len(log') = n + 2
        /\ log'[n + 1] = a /\ log'[n + 2] = b /\ \A i \in 1..n : log'[i] = log[i]
    BY <1>0, <1>1 DEF a, b
  <1>3. \A i \in 1..n : log[i].event \notin {"INIT_END", "PLAY_START"}
    <2>1. \A i \in 1..n : log[i].event # "PLAY_START"
      BY DEF Has
    <2>2. \A k \in 1..(n - 1) : k + 1 \in 1..n
      BY <1>0
    <2> QED
      BY <2>1, <2>2 DEF LogInv, LogShape
  <1>4. n + 1 \in 1..(Len(log') - 1)
    BY <1>0, <1>2
  <1>5. log'[n + 1].event = "INIT_END" /\ log'[n + 1 + 1].event = "PLAY_START"
    BY <1>0, <1>1, <1>2
  <1>6. \A i \in 1..Len(log') : /\ log'[i].event = "INIT_END" => i = n + 1
                                /\ log'[i].event = "PLAY_START" => i > n + 1
    <2> TAKE i \in 1..Len(log')
    <2>1. CASE i \in 1..n
      BY <1>2, <1>3, <2>1
    <2>2. CASE i = n + 1
      BY <1>1, <1>2, <2>2
    <2>3. CASE i = n + 2
      BY <1>0, <1>1, <1>2, <2>3
    <2> QED
      BY <1>0, <1>2, <2>1, <2>2, <2>3
  <1>7. LogShape'
    BY <1>4, <1>5, <1>6 DEF LogShape
  <1> QED
    BY <1>2, <1>7 DEF LogInv, LogTyped

LEMMA LogNextInv == LogInv /\ LogNext => LogInv'
  <1> SUFFICES ASSUME LogInv, LogNext PROVE LogInv'
    OBVIOUS
  <1>0. log \in Seq(Entry)
    BY DEF LogInv, LogTyped
  <1>1. CASE LogInitStart
    <2>1. Marker("INIT_START") \in Entry /\ Marker("INIT_START").event = "INIT_START"
      BY DEF Marker, Entry, Markers
    <2>2. log' = Append(log, Marker("INIT_START"))
      BY <1>1 DEF LogInitStart
    <2> QED
      BY <2>1, <2>2, PlainEntry
  <1>2. CASE LogPlayStart
    <2>1. Marker("PLAY_START") \in Entry /\ Marker("PLAY_START").event = "PLAY_START"
      BY DEF Marker, Entry, Markers
    <2>2. CASE Has("PLAY_START")
      <3>1. log' = log \o << >> \o <<Marker("PLAY_START")>>
        BY <1>2, <2>2 DEF LogPlayStart
      <3>2. log' = Append(log, Marker("PLAY_START"))
        BY <1>0, <2>1, <3>1
      <3> QED
        BY <2>1, <2>2, <3>2, PlainEntry
    <2>3. CASE ~Has("PLAY_START")
      BY <1>2, <2>3, FirstPlay DEF LogPlayStart
    <2> QED
      BY <2>2, <2>3
  <1>3. CASE LogPlayEnd
    <2>1. Marker("PLAY_END") \in Entry /\ Marker("PLAY_END").event = "PLAY_END"
      BY DEF Marker, Entry, Markers
    <2>2. log' = Append(log, Marker("PLAY_END"))
      BY <1>3 DEF LogPlayEnd
    <2> QED
      BY <2>1, <2>2, PlainEntry
  <1>4. ASSUME NEW off \in Offsets, NEW val \in Values, LogWrite(off, val) PROVE LogInv'
    <2>1. Write(off, val) \in Entry /\ Write(off, val).event = "WRITE"
      BY DEF Write, Entry
    <2>2. log' = Append(log, Write(off, val))
      BY <1>4 DEF LogWrite
    <2> QED
      BY <2>1, <2>2, PlainEntry
  <1> QED
    BY <1>1, <1>2, <1>3, <1>4 DEF LogNext

-----------------------------------------------------------------------------
\* The scans for an event, and the number of PLAY calls up to a position.

LEMMA Scan ==
  ASSUME Len(log) \in Nat, NEW i \in Nat, NEW kind
  PROVE  /\ NextAt(i, kind) \in 0..Len(log)
         /\ NextAt(i, kind) = 0 => \A j \in (i + 1)..Len(log) : log[j].event # kind
         /\ NextAt(i, kind) # 0 =>
              /\ NextAt(i, kind) > i /\ log[NextAt(i, kind)].event = kind
              /\ \A j \in (i + 1)..(NextAt(i, kind) - 1) : log[j].event # kind
  <1> DEFINE at == {j \in (i + 1)..Len(log) : log[j].event = kind}
             k == CHOOSE j \in at : \A m \in at : j <= m
  <1>1. CASE at = {}
    BY <1>1 DEF NextAt
  <1>2. CASE at # {}
    <2>0. at \subseteq Nat
      OBVIOUS
    <2>1. \E j \in at : \A m \in at : j <= m
      <3> HIDE DEF at
      <3> QED
        BY <1>2, <2>0, LeastNumber
    <2>2. k \in at /\ \A m \in at : k <= m
      <3> HIDE DEF at
      <3> QED
        BY <2>1
    <2>3. NextAt(i, kind) = k
      BY <1>2 DEF NextAt
    <2> HIDE DEF k
    <2> QED
      BY <2>2, <2>3
  <1> QED
    BY <1>1, <1>2

PlaysIn(i) == {j \in 1..i : IsPlayStart(log[j])}

LEMMA PlaysInFinite ==
  ASSUME NEW i \in Nat
  PROVE  /\ IsFiniteSet(PlaysIn(i)) /\ PlaysUpTo(i) = Cardinality(PlaysIn(i))
         /\ PlaysUpTo(i) \in Nat
  <1>1. IsFiniteSet(1..i)
    BY FS_Interval
  <1>2. PlaysIn(i) \subseteq 1..i
    BY DEF PlaysIn
  <1>3. IsFiniteSet(PlaysIn(i))
    BY <1>1, <1>2, FS_Subset
  <1>4. PlaysUpTo(i) = Cardinality(PlaysIn(i))
    BY DEF PlaysUpTo, PlaysIn
  <1> QED
    BY <1>3, <1>4, FS_CardinalityType

LEMMA PlaysGrow ==
  ASSUME NEW i \in Nat, NEW j \in Nat, i <= j PROVE PlaysUpTo(i) <= PlaysUpTo(j)
  <1>1. PlaysIn(i) \subseteq PlaysIn(j)
    BY DEF PlaysIn
  <1> QED
    BY <1>1, PlaysInFinite, FS_Subset

\* Between two calls the number is that of the first; at the second it is one more.
LEMMA PlaysStay ==
  ASSUME NEW i \in Nat, NEW j \in Nat, i <= j,
         \A m \in (i + 1)..j : log[m].event # "PLAY_START"
  PROVE  PlaysUpTo(j) = PlaysUpTo(i)
  <1>1. PlaysIn(j) = PlaysIn(i)
    BY DEF PlaysIn, IsPlayStart
  <1> QED
    BY <1>1, PlaysInFinite

LEMMA PlaysCount ==
  ASSUME NEW i \in Nat, NEW j \in Nat, i < j, log[j].event = "PLAY_START",
         \A m \in (i + 1)..(j - 1) : log[m].event # "PLAY_START"
  PROVE  PlaysUpTo(j) = PlaysUpTo(i) + 1
  <1>1. PlaysIn(j) = PlaysIn(i) \cup {j} /\ j \notin PlaysIn(i)
    BY DEF PlaysIn, IsPlayStart
  <1>2. Cardinality(PlaysIn(i) \cup {j}) = Cardinality(PlaysIn(i)) + 1
    BY <1>1, PlaysInFinite, FS_AddElement
  <1> QED
    BY <1>1, <1>2, PlaysInFinite

LEMMA NoPlays == PlaysUpTo(0) = 0
  <1>1. PlaysIn(0) = {}
    BY DEF PlaysIn
  <1> QED
    BY <1>1, PlaysInFinite, FS_EmptySet

-----------------------------------------------------------------------------
\* The schedule, frame by frame, is what the converter emits.

Total == PlaysUpTo(Len(log))

FullSchedule == [k \in 1..Total |-> WritesOfFrame(k)]

LEMMA TotalIsNat == LogTyped => Total \in Nat
  BY PlaysInFinite DEF LogTyped, Total

LEMMA ScheduleType == LogTyped => Schedule \in Seq(Seq(RegisterWrite))
  <1> SUFFICES ASSUME LogTyped PROVE Schedule \in Seq(Seq(RegisterWrite))
    OBVIOUS
  <1>1. CASE phase = "record"
    BY <1>1 DEF Schedule
  <1>2. CASE phase # "record"
    <2>1. \A k \in 1..Total : WritesOfFrame(k) \in Seq(RegisterWrite)
      BY WritesType DEF WritesOfFrame
    <2>2. FullSchedule \in [1..Total -> Seq(RegisterWrite)]
      BY <2>1 DEF FullSchedule
    <2>3. FullSchedule \in Seq(Seq(RegisterWrite))
      BY <2>2, TotalIsNat
    <2> QED
      BY <1>2, <2>3 DEF Schedule, FullSchedule, Total
  <1> QED
    BY <1>1, <1>2

\* Where PLAY_START stands, and what the next one is.
IsStart(i) == i \in 1..Len(log) /\ log[i].event = "PLAY_START"

LEMMA StartCounts ==
  ASSUME LogTyped, NEW i, IsStart(i)
  PROVE  PlaysUpTo(i - 1) \in Nat /\ PlaysUpTo(i) = PlaysUpTo(i - 1) + 1
  <1>1. i - 1 \in Nat /\ i \in Nat /\ i - 1 < i
    BY DEF LogTyped, IsStart
  <1>2. \A m \in (i - 1 + 1)..(i - 1) : log[m].event # "PLAY_START"
    BY <1>1
  <1> QED
    BY <1>1, <1>2, PlaysCount, PlaysInFinite DEF IsStart

LEMMA NextStart ==
  ASSUME LogTyped, NEW i, IsStart(i)
  PROVE  LET n == NextAt(i, "PLAY_START") IN
         /\ PlaysUpTo(i) \in 1..Total
         /\ n = 0 => Total = PlaysUpTo(i)
         /\ n # 0 => IsStart(n) /\ PlaysUpTo(n) = PlaysUpTo(i) + 1
  <1> DEFINE n == NextAt(i, "PLAY_START")
  <1>0. Len(log) \in Nat /\ i \in Nat /\ i >= 1 /\ i <= Len(log) /\ i - 1 \in Nat
    BY DEF LogTyped, IsStart
  <1>1. PlaysUpTo(i) >= 1
    BY StartCounts
  <1>2. PlaysUpTo(i) \in 1..Total
    BY <1>0, <1>1, PlaysGrow, PlaysInFinite DEF Total
  <1>3. n \in 0..Len(log)
    BY <1>0, Scan
  <1>4. n = 0 => Total = PlaysUpTo(i)
    BY <1>0, Scan, PlaysStay DEF Total
  <1>5. n # 0 => IsStart(n) /\ PlaysUpTo(n) = PlaysUpTo(i) + 1
    <2> SUFFICES ASSUME n # 0 PROVE IsStart(n) /\ PlaysUpTo(n) = PlaysUpTo(i) + 1
      OBVIOUS
    <2>1. /\ n > i /\ log[n].event = "PLAY_START"
          /\ \A j \in (i + 1)..(n - 1) : log[j].event # "PLAY_START"
      BY <1>0, Scan
    <2> HIDE DEF n
    <2>2. n \in Nat
      BY <1>3
    <2> QED
      BY <1>0, <1>3, <2>1, <2>2, PlaysCount DEF IsStart
  <1> QED
    BY <1>2, <1>4, <1>5

\* The positions behind a PLAY_START up to the next are those of its number.
LEMMA FrameSpan ==
  ASSUME LogTyped, NEW i, IsStart(i), NEW j \in 1..Len(log), log[j].event # "PLAY_START"
  PROVE  j \in FrameEntries(i) <=> PlaysUpTo(j) = PlaysUpTo(i)
  <1> DEFINE n == NextAt(i, "PLAY_START")
  <1>0. /\ Len(log) \in Nat /\ i \in Nat /\ i >= 1 /\ i <= Len(log) /\ i - 1 \in Nat
        /\ j \in Nat /\ j # i
    BY DEF LogTyped, IsStart
  <1>1. CASE j < i
    <2>1. PlaysUpTo(j) <= PlaysUpTo(i - 1)
      BY <1>0, <1>1, PlaysGrow
    <2>2. PlaysUpTo(i) = PlaysUpTo(i - 1) + 1 /\ PlaysUpTo(i - 1) \in Nat
      BY StartCounts
    <2>3. PlaysUpTo(j) # PlaysUpTo(i)
      BY <1>0, <2>1, <2>2, PlaysInFinite
    <2>4. j \notin FrameEntries(i)
      BY <1>0, <1>1 DEF FrameEntries
    <2> QED
      BY <2>3, <2>4
  <1>2. CASE j > i /\ n = 0
    <2>1. \A m \in (i + 1)..Len(log) : log[m].event # "PLAY_START"
      BY <1>0, <1>2, Scan
    <2>2. PlaysUpTo(j) = PlaysUpTo(i)
      BY <1>0, <1>2, <2>1, PlaysStay
    <2>3. j \in FrameEntries(i)
      BY <1>0, <1>2 DEF FrameEntries, FrameEnd
    <2> QED
      BY <2>2, <2>3
  <1>3. CASE j > i /\ n # 0
    <2>1. /\ n \in Nat /\ n > i /\ log[n].event = "PLAY_START"
          /\ \A m \in (i + 1)..(n - 1) : log[m].event # "PLAY_START"
      <3>1. n \in 0..Len(log)
        BY <1>0, Scan
      <3> QED
        BY <1>0, <1>3, <3>1, Scan
    <2>2. FrameEntries(i) = (i + 1)..(n - 1)
      BY <1>3 DEF FrameEntries, FrameEnd
    <2>3. PlaysUpTo(n) = PlaysUpTo(i) + 1
      BY <1>3, NextStart
    <2> HIDE DEF n
    <2>4. CASE j < n
      <3>1. \A m \in (i + 1)..j : log[m].event # "PLAY_START"
        BY <1>0, <2>1, <2>4
      <3>2. PlaysUpTo(j) = PlaysUpTo(i)
        BY <1>0, <1>3, <3>1, PlaysStay
      <3> QED
        BY <1>0, <1>3, <2>1, <2>2, <2>4, <3>2
    <2>5. CASE j >= n
      <3>1. PlaysUpTo(n) <= PlaysUpTo(j)
        BY <1>0, <2>1, <2>5, PlaysGrow
      <3>2. PlaysUpTo(j) # PlaysUpTo(i)
        BY <1>0, <2>3, <3>1, PlaysInFinite
      <3> QED
        BY <1>0, <2>1, <2>2, <2>5, <3>2
    <2> QED
      BY <1>0, <2>1, <2>4, <2>5
  <1> QED
    BY <1>0, <1>1, <1>2, <1>3
LEMMA WriteIsNoStart == \A i : IsApuWrite(log[i]) => log[i].event # "PLAY_START"
  BY DEF IsApuWrite

LEMMA NoWritesAtNothing == LogTyped => WritesAt({}) = << >>
  <1> SUFFICES ASSUME LogTyped PROVE WritesAt({}) = << >>
    OBVIOUS
  <1>1. WritesAt({}) \in Seq(RegisterWrite)
    BY WritesType
  <1>2. WritesAt({} \cup {}) = WritesAt({}) \o WritesAt({})
    <2>1. 0 \in Int /\ \A i \in {} : i <= 0 /\ i > 0
      OBVIOUS
    <2> QED
      BY <2>1, WritesInParts
  <1>3. {} \cup {} = {}
    OBVIOUS
  <1>4. PICK ws \in Seq(RegisterWrite) : ws = WritesAt({})
    BY <1>1
  <1>5. ws = ws \o ws
    BY <1>2, <1>3, <1>4
  <1>6. Len(ws \o ws) = Len(ws) + Len(ws) /\ Len(ws) \in Nat
    OBVIOUS
  <1>7. Len(ws) = 0
    BY <1>5, <1>6
  <1> QED
    BY <1>4, <1>7, EmptySeq

\* A frame after the first has the writes behind its PLAY_START.
LEMMA LaterFrame ==
  ASSUME LogTyped, NEW i, IsStart(i), PlaysUpTo(i) > 1
  PROVE  FullSchedule[PlaysUpTo(i)] = WritesAt(FrameEntries(i))
  <1>1. PlaysUpTo(i) \in 1..Total
    BY NextStart
  <1> DEFINE here == {j \in 1..Len(log) : FrameOf(j) = PlaysUpTo(i)}
  <1>2. \A j \in 1..Len(log) :
          IsApuWrite(log[j]) => (j \in here <=> j \in FrameEntries(i))
    <2> SUFFICES ASSUME NEW j \in 1..Len(log), IsApuWrite(log[j])
                 PROVE  j \in here <=> j \in FrameEntries(i)
      OBVIOUS
    <2>1. j \in FrameEntries(i) <=> PlaysUpTo(j) = PlaysUpTo(i)
      BY FrameSpan, WriteIsNoStart
    <2>2. PlaysUpTo(j) \in Nat
      BY PlaysInFinite DEF LogTyped
    <2>3. FrameOf(j) = PlaysUpTo(i) <=> PlaysUpTo(j) = PlaysUpTo(i)
      BY <1>1, <2>2, TotalIsNat DEF FrameOf
    <2> QED
      BY <2>1, <2>3
  <1>3. WritesAt(here) = WritesAt(FrameEntries(i))
    BY <1>2, SameWrites
  <1> QED
    BY <1>1, <1>3 DEF FullSchedule, WritesOfFrame

\* The first has INIT's writes before those.
LEMMA FirstFrame ==
  ASSUME LogTyped, NEW e, IsStart(e + 1), e \in Nat, e + 1 \in Nat, PlaysUpTo(e + 1) = 1,
         ~IsApuWrite(log[e])
  PROVE  FullSchedule[1] = WritesAt(1..(e - 1)) \o WritesAt(FrameEntries(e + 1))
  <1> DEFINE i == e + 1
             here == {j \in 1..Len(log) : FrameOf(j) = 1}
  <1>0. 1 \in 1..Total /\ Len(log) \in Nat /\ i >= 1 /\ i <= Len(log)
    BY NextStart DEF LogTyped, IsStart
  <1>1. \A j \in 1..Len(log) :
          IsApuWrite(log[j]) => (j \in here <=> j \in (1..(e - 1)) \cup FrameEntries(i))
    <2> SUFFICES ASSUME NEW j \in 1..Len(log), IsApuWrite(log[j])
                 PROVE  j \in here <=> j \in (1..(e - 1)) \cup FrameEntries(i)
      OBVIOUS
    <2>1. j \in FrameEntries(i) <=> PlaysUpTo(j) = 1
      BY FrameSpan, WriteIsNoStart
    <2>2. PlaysUpTo(j) \in Nat
      BY PlaysInFinite DEF LogTyped
    <2>3. j \in here <=> PlaysUpTo(j) \in {0, 1}
      BY <2>2 DEF FrameOf
    <2>4. PlaysUpTo(j) = 0 <=> j \in 1..(e - 1)
      <3>1. CASE j <= e
        <4>1. j # e
          OBVIOUS
        <4>2. PlaysUpTo(j) <= PlaysUpTo(e)
          BY <3>1, PlaysGrow
        <4>3. PlaysUpTo(e) = 0
          <5>1. PlaysUpTo(e + 1 - 1) \in Nat /\ PlaysUpTo(e + 1) = PlaysUpTo(e + 1 - 1) + 1
            BY StartCounts
          <5>2. e + 1 - 1 = e
            OBVIOUS
          <5> QED
            BY <5>1, <5>2
        <4> QED
          BY <2>2, <3>1, <4>1, <4>2, <4>3
      <3>2. CASE ~(j <= e)
        <4>1. PlaysUpTo(i) <= PlaysUpTo(j)
          BY <3>2, PlaysGrow
        <4> QED
          BY <2>2, <3>2, <4>1
      <3> QED
        BY <3>1, <3>2
    <2> QED
      BY <2>1, <2>3, <2>4
  <1>2. WritesAt(here) = WritesAt((1..(e - 1)) \cup FrameEntries(i))
    <2> HIDE DEF here
    <2> QED
      BY <1>1, SameWrites
  <1>3. WritesAt((1..(e - 1)) \cup FrameEntries(i)) =
          WritesAt(1..(e - 1)) \o WritesAt(FrameEntries(i))
    <2>1. e \in Int /\ (\A j \in 1..(e - 1) : j <= e) /\ (\A j \in FrameEntries(i) : j > e)
      BY DEF FrameEntries
    <2> QED
      BY <2>1, WritesInParts
  <1> QED
    BY <1>0, <1>2, <1>3 DEF FullSchedule, WritesOfFrame

\* Where the frames of a log begin.
LEMMA LogBegin ==
  ASSUME LogInv
  PROVE  LET first == NextAt(IF InitEnd = 0 THEN 0 ELSE InitEnd - 1, "PLAY_START") IN
         \/ first = 0 /\ Total = 0 /\ WritesAt(InitEntries) = << >>
         \/ /\ IsStart(first) /\ PlaysUpTo(first) = 1
            /\ FullSchedule[1] = WritesAt(InitEntries) \o WritesAt(FrameEntries(first))
  <1> DEFINE from == IF InitEnd = 0 THEN 0 ELSE InitEnd - 1
             first == NextAt(from, "PLAY_START")
  <1>0. LogTyped /\ Len(log) \in Nat
    BY DEF LogInv, LogTyped
  <1>1. CASE \A i \in 1..Len(log) : log[i].event \notin {"INIT_END", "PLAY_START"}
    <2>1. InitEnd = 0
      BY <1>0, <1>1, Scan DEF InitEnd
    <2>2. first = 0
      BY <1>0, <1>1, <2>1, Scan
    <2>3. Total = 0
      BY <1>0, <1>1, PlaysStay, NoPlays DEF Total
    <2>4. InitEntries = {}
      BY <2>1 DEF InitEntries
    <2> QED
      BY <1>0, <2>2, <2>3, <2>4, NoWritesAtNothing
  <1>2. ASSUME NEW e \in 1..(Len(log) - 1),
               log[e].event = "INIT_END", log[e + 1].event = "PLAY_START",
               \A i \in 1..Len(log) : /\ log[i].event = "INIT_END" => i = e
                                      /\ log[i].event = "PLAY_START" => i > e
        PROVE  /\ IsStart(first) /\ PlaysUpTo(first) = 1
               /\ FullSchedule[1] = WritesAt(InitEntries) \o WritesAt(FrameEntries(first))
    <2>0. e \in Nat /\ e + 1 \in Nat /\ e \in 1..Len(log) /\ e + 1 \in 1..Len(log)
      BY <1>0
    <2>1. InitEnd = e
      <3>1. InitEnd \in 0..Len(log) /\ InitEnd # 0
        BY <1>0, <1>2, <2>0, Scan DEF InitEnd
      <3>2. log[InitEnd].event = "INIT_END"
        BY <1>0, <3>1, Scan DEF InitEnd
      <3> QED
        BY <1>2, <3>1, <3>2
    <2>2. from = e - 1 /\ from \in Nat
      BY <2>0, <2>1
    <2> HIDE DEF from
    <2>3. first = e + 1
      <3>1. first \in 0..Len(log) /\ first # 0
        BY <1>0, <1>2, <2>0, <2>2, Scan
      <3>2. /\ log[first].event = "PLAY_START"
            /\ \A j \in (from + 1)..(first - 1) : log[j].event # "PLAY_START"
        BY <1>0, <2>2, <3>1, Scan
      <3> HIDE DEF first
      <3>3. first > e
        BY <1>2, <3>1, <3>2
      <3>4. ~(e + 1 \in (from + 1)..(first - 1))
        BY <1>2, <3>2
      <3> QED
        BY <2>0, <2>2, <3>1, <3>3, <3>4
    <2>4. IsStart(e + 1)
      BY <1>2, <2>0 DEF IsStart
    <2>5. PlaysUpTo(e + 1) = 1
      <3>1. \A m \in (0 + 1)..e : log[m].event # "PLAY_START"
        BY <1>2, <2>0
      <3>2. PlaysUpTo(e) = PlaysUpTo(0)
        BY <2>0, <3>1, PlaysStay
      <3>3. PlaysUpTo(e + 1) = PlaysUpTo(e + 1 - 1) + 1 /\ e + 1 - 1 = e
        BY <1>0, <2>0, <2>4, StartCounts
      <3> QED
        BY <3>2, <3>3, NoPlays
    <2>6. ~IsApuWrite(log[e])
      BY <1>2 DEF IsApuWrite
    <2>7. FullSchedule[1] = WritesAt(1..(e - 1)) \o WritesAt(FrameEntries(e + 1))
      BY <1>0, <2>0, <2>4, <2>5, <2>6, FirstFrame
    <2> QED
      BY <2>1, <2>3, <2>4, <2>5, <2>7 DEF InitEntries
  <1> QED
    BY <1>1, <1>2 DEF LogInv, LogShape

-----------------------------------------------------------------------------
\* What the bytes of the converter mean: a run of WAITs spans its frames, some at a
\* time, and a write is a command and its value.

LEMMA Division ==
  ASSUME NEW n \in Int, NEW d \in Nat \ {0}
  PROVE  /\ n \div d \in Int /\ n % d \in Int
         /\ n = (n \div d) * d + (n % d) /\ 0 <= n % d /\ n % d < d
  OBVIOUS

LEMMA Multiples == ASSUME NEW a \in Int, NEW d \in Nat \ {0}, a >= 1 PROVE a * d >= d
  OBVIOUS

LEMMA Quotient ==
  ASSUME NEW n \in Int, NEW d \in Nat \ {0}, NEW k \in Int,
         k * d <= n, n < k * d + d
  PROVE  n \div d = k
  <1> DEFINE m == n \div d
  <1>1. m \in Int /\ m * d <= n /\ n < m * d + d
    BY Division
  <1>2. CASE m >= k + 1
    <2>1. (m - k) * d >= d
      BY <1>1, <1>2, Multiples
    <2>2. (m - k) * d = m * d - k * d
      BY <1>1
    <2> QED
      BY <2>1, <2>2, <1>1
  <1>3. CASE k >= m + 1
    <2>1. (k - m) * d >= d
      BY <1>1, <1>3, Multiples
    <2>2. (k - m) * d = k * d - m * d
      BY <1>1
    <2> QED
      BY <2>1, <2>2, <1>1
  <1> QED
    BY <1>1, <1>2, <1>3

\* One WAIT, of a number of frames it can hold.
LEMMA OneWait ==
  ASSUME NEW n \in 1..128
  PROVE  MakeWait(n) \in Byte /\ IsWait(MakeWait(n)) /\ WaitFrames(MakeWait(n)) = n
  <1>1. MakeWait(n) = n - 1
    BY DEF MakeWait
  <1> QED
    BY <1>1 DEF Byte, IsWait, WaitFrames

\* How far t gets in its first k WAITs is to[k].
Spans(t, to, n) ==
  /\ t \in Seq(Byte) /\ to \in [0..Len(t) -> 0..n]
  /\ to[0] = 0 /\ to[Len(t)] = n
  /\ \A k \in 0..(Len(t) - 1) :
       /\ IsWait(t[k + 1]) /\ WaitFrames(t[k + 1]) \in Nat \ {0}
       /\ to[k + 1] = to[k] + WaitFrames(t[k + 1])

LEMMA WaitsSpan ==
  ASSUME NEW n \in Nat \ {0}
  PROVE  Len(Waits(n)) > 0 /\ \E to : Spans(Waits(n), to, n)
  <1> DEFINE M == MaxWaitFrames
             K == (n + M - 1) \div M
             to == [k \in 0..K |-> IF k * M <= n THEN k * M ELSE n]
             t == Waits(n)
  <1>0. M \in 1..128 /\ M \in Nat \ {0}
    BY ConvertAssumption
  <1> HIDE DEF M
  <1>1. /\ K \in Int /\ K * M <= n + M - 1 /\ n + M - 1 < K * M + M
    BY <1>0, Division
  <1> HIDE DEF K
  <1>2. K \in Nat /\ K >= 1
    <2>1. SUFFICES ASSUME K <= 0 PROVE FALSE
      BY <1>1
    <2>2. K * M <= 0
      BY <1>0, <1>1, <2>1
    <2> QED
      BY <1>0, <1>1, <2>2
  <1>3. ASSUME NEW k \in 0..K PROVE k * M \in Nat
    BY <1>0, <1>2
  <1>4. ASSUME NEW k \in 0..(K - 1) PROVE k * M < n /\ (k + 1) * M = k * M + M
    <2>1. (K - k) * M >= M
      BY <1>0, <1>2, Multiples
    <2>2. (K - k) * M = K * M - k * M
      BY <1>0, <1>2
    <2>3. k * M \in Nat /\ K * M \in Nat
      BY <1>0, <1>2
    <2> QED
      BY <1>0, <1>1, <2>1, <2>2, <2>3
  <1>5. t = [k \in 1..K |-> MakeWait(IF k * M <= n THEN M ELSE n % M)]
    BY DEF Waits, M, K
  <1>6. ASSUME NEW k \in 0..(K - 1)
        PROVE  \E v \in 1..128 : t[k + 1] = MakeWait(v) /\ to[k + 1] = to[k] + v
    <2>0. k + 1 \in 1..K /\ k \in 0..K /\ k + 1 \in 0..K /\ k * M \in Nat
      BY <1>0, <1>2
    <2>1. k * M < n /\ (k + 1) * M = k * M + M
      BY <1>4
    <2>2. to[k] = k * M /\ to[k + 1] = IF (k + 1) * M <= n THEN (k + 1) * M ELSE n
      BY <2>0, <2>1
    <2>3. t[k + 1] = MakeWait(IF (k + 1) * M <= n THEN M ELSE n % M)
      BY <1>5, <2>0
    <2> HIDE DEF t, to
    <2>4. CASE (k + 1) * M <= n
      BY <1>0, <2>0, <2>1, <2>2, <2>3, <2>4
    <2>5. CASE ~((k + 1) * M <= n)
      <3>1. n \div M = k
        BY <1>0, <2>0, <2>1, <2>5, Quotient
      <3>2. n = k * M + (n % M) /\ n % M \in Int /\ n % M < M
        BY <1>0, <3>1, Division
      <3>3. n % M \in 1..128 /\ n = k * M + (n % M)
        BY <1>0, <2>0, <2>1, <3>2
      <3>4. to[k + 1] = to[k] + (n % M) /\ t[k + 1] = MakeWait(n % M)
        BY <2>2, <2>3, <2>5, <3>3
      <3> QED
        BY <3>3, <3>4
    <2> QED
      BY <2>4, <2>5
  <1>7. /\ to \in [0..K -> 0..n] /\ to[0] = 0 /\ to[K] = n
    <2>1. \A k \in 0..K : (IF k * M <= n THEN k * M ELSE n) \in 0..n
      BY <1>3
    <2>2. to \in [0..K -> 0..n]
      BY <2>1
    <2>3. 0 \in 0..K /\ K \in 0..K /\ 0 * M = 0 /\ n <= K * M
      BY <1>0, <1>1, <1>2
    <2>4. to[0] = 0
      BY <2>3
    <2>5. to[K] = n
      <3>1. K * M \in Nat
        BY <1>0, <1>2
      <3>2. to[K] = IF K * M <= n THEN K * M ELSE n
        BY <2>3
      <3> QED
        BY <2>3, <3>1, <3>2
    <2> QED
      BY <2>2, <2>4, <2>5
  <1> HIDE DEF to
  <1>8. t \in Seq(Byte) /\ Len(t) = K
    <2>1. \A k \in 1..K : t[k] \in Byte
      <3> SUFFICES ASSUME NEW k \in 1..K PROVE t[k] \in Byte
        OBVIOUS
      <3>1. k - 1 \in 0..(K - 1) /\ k - 1 + 1 = k
        BY <1>2
      <3>2. PICK v \in 1..128 : t[k - 1 + 1] = MakeWait(v)
        BY <1>6, <3>1
      <3> QED
        BY <3>1, <3>2, OneWait
    <2>2. t \in [1..K -> Byte]
      BY <1>5, <2>1
    <2> HIDE DEF t
    <2> QED
      BY <1>2, <2>2
  <1> HIDE DEF t
  <1>9. \A k \in 0..(K - 1) : /\ IsWait(t[k + 1]) /\ WaitFrames(t[k + 1]) \in Nat \ {0}
                              /\ to[k + 1] = to[k] + WaitFrames(t[k + 1])
    BY <1>6, OneWait
  <1>10. Spans(t, to, n)
    BY <1>7, <1>8, <1>9 DEF Spans
  <1> QED
    BY <1>2, <1>8, <1>10 DEF t

LEMMA NoWaits == Waits(0) = << >>
  <1>1. (0 + MaxWaitFrames - 1) \div MaxWaitFrames = 0
    BY ConvertAssumption, Quotient
  <1> QED
    BY <1>1 DEF Waits

LEMMA RegWritesAre ==
  ASSUME NEW ws \in Seq(RegisterWrite)
  PROVE  LET t == RegWrites(ws) IN
         /\ t \in Seq(Byte) /\ Len(t) = 2 * Len(ws)
         /\ \A k \in 0..(Len(ws) - 1) :
              /\ IsRegWrite(t[2 * k + 1])
              /\ ws[k + 1] = <<RegOffset(t[2 * k + 1]), t[2 * k + 2]>>
  <1> DEFINE t == RegWrites(ws)
             n == Len(ws)
  <1>0. n \in Nat /\ 2 * n \in Nat
    OBVIOUS
  <1>1. t = [k \in 1..2 * n |-> IF k % 2 = 1 THEN RegWrite(ws[(k + 1) \div 2][1])
                                             ELSE ws[k \div 2][2]]
    BY DEF RegWrites
  <1>2. ASSUME NEW k \in 1..n
        PROVE /\ ws[k] = <<ws[k][1], ws[k][2]>> /\ ws[k][1] \in 0..23 /\ ws[k][2] \in Byte
    <2>1. ws[k] \in RegisterWrite
      OBVIOUS
    <2> QED
      BY <2>1 DEF RegisterWrite
  <1>3. ASSUME NEW k \in 0..(n - 1)
        PROVE  t[2 * k + 1] = RegWrite(ws[k + 1][1]) /\ t[2 * k + 2] = ws[k + 1][2]
    <2>1. /\ 2 * k + 1 \in 1..2 * n /\ 2 * k + 2 \in 1..2 * n
          /\ (2 * k + 1) % 2 = 1 /\ (2 * k + 1 + 1) \div 2 = k + 1
          /\ (2 * k + 2) % 2 # 1 /\ (2 * k + 2) \div 2 = k + 1
      BY <1>0
    <2> HIDE DEF n
    <2> QED
      BY <1>1, <2>1
  <1>4. ASSUME NEW o \in 0..23
        PROVE  RegWrite(o) \in Byte /\ IsRegWrite(RegWrite(o)) /\ RegOffset(RegWrite(o)) = o
    BY DEF RegWrite, Byte, IsRegWrite, RegOffset
  <1>5. t \in Seq(Byte) /\ Len(t) = 2 * n
    <2>1. \A k \in 1..2 * n : t[k] \in Byte
      <3> SUFFICES ASSUME NEW k \in 1..2 * n PROVE t[k] \in Byte
        OBVIOUS
      <3>1. PICK h \in 0..(n - 1) : k = 2 * h + 1 \/ k = 2 * h + 2
        <4> DEFINE h == (k - 1) \div 2
        <4> HIDE DEF n
        <4>1. h \in 0..(n - 1) /\ (k = 2 * h + 1 \/ k = 2 * h + 2)
          BY <1>0
        <4> QED
          BY <4>1
      <3>2. h + 1 \in 1..n
        BY <1>0
      <3> HIDE DEF t
      <3> QED
        BY <1>2, <1>3, <1>4, <3>1, <3>2
    <2>2. t \in [1..2 * n -> Byte]
      BY <1>1, <2>1
    <2> HIDE DEF t, n
    <2> QED
      BY <1>0, <2>2
  <1> HIDE DEF t
  <1>6. ASSUME NEW k \in 0..(n - 1)
        PROVE  /\ IsRegWrite(t[2 * k + 1])
               /\ ws[k + 1] = <<RegOffset(t[2 * k + 1]), t[2 * k + 2]>>
    <2>1. k + 1 \in 1..n
      BY <1>0
    <2> HIDE DEF n
    <2> QED
      BY <1>2, <1>3, <1>4, <2>1
  <1> QED
    BY <1>5, <1>6 DEF t

-----------------------------------------------------------------------------
\* Decoding.  A place <<p, f, w>> says: byte p of the stream s begins a command, and
\* it is read in frame f, of whose writes w have been made.

Places == Nat \X Nat \X Nat

Leads(sch, s, B, p, f, w) ==
  \/ /\ IsRegWrite(s[p + 1]) /\ p + 2 <= Len(s)
     /\ f <= Len(sch) /\ w < Len(sch[f])
     /\ sch[f][w + 1] = <<RegOffset(s[p + 1]), s[p + 2]>>
     /\ <<p + 2, f, w + 1>> \in B
  \/ LET n == WaitFrames(s[p + 1]) IN
     /\ IsWait(s[p + 1]) /\ n \in Nat \ {0}
     /\ f + n <= Len(sch) + 1 /\ w = Len(sch[f])
     /\ \A g \in (f + 1)..(f + n - 1) : sch[g] = << >>
     /\ <<p + 1, f + n, 0>> \in B
  \/ s[p + 1] = CmdEnd /\ f = Len(sch) + 1

Decodes(sch, s, B) ==
  /\ B \subseteq Places /\ <<0, 1, 0>> \in B
  /\ \A p, f, w \in Nat : <<p, f, w>> \in B =>
       /\ p <= Len(s) /\ f >= 1 /\ f <= Len(sch) + 1
       /\ p < Len(s) => Leads(sch, s, B, p, f, w)

\* The stream so far ends in frame f behind its first w writes.
DecodesTo(sch, s, B, f, w) ==
  /\ Decodes(sch, s, B)
  /\ f \in Nat /\ w \in Nat
  /\ \A g, v \in Nat : <<Len(s), g, v>> \in B <=> g = f /\ v = w

LEMMA NothingDecoded ==
  ASSUME NEW sch, Len(sch) \in Nat
  PROVE  DecodesTo(sch, << >>, {<<0, 1, 0>>}, 1, 0)
  BY DEF DecodesTo, Decodes, Places

\* Bytes behind the stream give new places behind the old ones.
LEMMA Joined ==
  ASSUME NEW s \in Seq(Byte), NEW t \in Seq(Byte)
  PROVE  Len(s \o t) = Len(s) + Len(t) /\ \A k \in 1..Len(t) : (s \o t)[Len(s) + k] = t[k]
  OBVIOUS

LEMMA Extend ==
  ASSUME NEW sch, NEW s \in Seq(Byte), NEW t \in Seq(Byte), Len(t) > 0, Len(sch) \in Nat,
         NEW B, NEW f, NEW w, DecodesTo(sch, s, B, f, w),
         NEW C, C \subseteq Places,
         \A p, g, v \in Nat : <<p, g, v>> \in C =>
           /\ p > Len(s) /\ p <= Len(s) + Len(t) /\ g >= 1 /\ g <= Len(sch) + 1
           /\ p < Len(s) + Len(t) => Leads(sch, s \o t, C, p, g, v),
         Leads(sch, s \o t, C, Len(s), f, w)
  PROVE  Decodes(sch, s \o t, B \cup C)
  <1> DEFINE st == s \o t
  <1>1. /\ st \in Seq(Byte) /\ Len(st) = Len(s) + Len(t) /\ Len(s) \in Nat /\ Len(t) \in Nat
        /\ \A i \in 1..Len(s) : st[i] = s[i]
    OBVIOUS
  <1> HIDE DEF st
  <1>2. ASSUME NEW p \in Nat, NEW g \in Nat, NEW v \in Nat, Leads(sch, st, C, p, g, v)
        PROVE  Leads(sch, st, B \cup C, p, g, v)
    BY <1>2 DEF Leads
  <1>3. ASSUME NEW p \in Nat, NEW g \in Nat, NEW v \in Nat, <<p, g, v>> \in B
        PROVE  /\ p <= Len(st) /\ g >= 1 /\ g <= Len(sch) + 1
               /\ p < Len(st) => Leads(sch, st, B \cup C, p, g, v)
    <2>1. /\ p <= Len(s) /\ g >= 1 /\ g <= Len(sch) + 1
          /\ p < Len(s) => Leads(sch, s, B, p, g, v)
      BY <1>3 DEF DecodesTo, Decodes
    <2>2. CASE p < Len(s)
      <3>1. st[p + 1] = s[p + 1] /\ (p + 2 <= Len(s) => st[p + 2] = s[p + 2])
        BY <1>1, <2>2
      <3>2. Leads(sch, s, B, p, g, v)
        BY <2>1, <2>2
      <3>3. p + 2 <= Len(s) => p + 2 <= Len(st)
        BY <1>1
      <3>4. Leads(sch, st, B \cup C, p, g, v)
        BY <3>1, <3>2, <3>3 DEF Leads
      <3> QED
        BY <1>1, <2>1, <2>2, <3>4
    <2>3. CASE p = Len(s)
      <3>1. g = f /\ v = w
        BY <1>3, <2>3 DEF DecodesTo
      <3>2. Leads(sch, st, C, p, g, v)
        BY <2>3, <3>1, Zenon DEF st
      <3>3. Leads(sch, st, B \cup C, p, g, v)
        BY <1>2, <3>2
      <3> QED
        BY <1>1, <2>1, <2>3, <3>3
    <2> QED
      BY <1>1, <2>1, <2>2, <2>3
  <1>4. ASSUME NEW p \in Nat, NEW g \in Nat, NEW v \in Nat, <<p, g, v>> \in C
        PROVE  /\ p <= Len(st) /\ g >= 1 /\ g <= Len(sch) + 1
               /\ p < Len(st) => Leads(sch, st, B \cup C, p, g, v)
    BY <1>1, <1>2, <1>4 DEF st
  <1>5. B \cup C \subseteq Places /\ <<0, 1, 0>> \in B \cup C
    BY DEF DecodesTo, Decodes
  <1>6. Decodes(sch, st, B \cup C)
    BY <1>3, <1>4, <1>5 DEF Decodes
  <1> QED
    BY <1>6 DEF st

LEMMA ExtendTo ==
  ASSUME NEW sch, NEW s \in Seq(Byte), NEW t \in Seq(Byte), Len(t) > 0, Len(sch) \in Nat,
         NEW B, NEW f, NEW w, DecodesTo(sch, s, B, f, w),
         NEW C, C \subseteq Places,
         \A p, g, v \in Nat : <<p, g, v>> \in C =>
           /\ p > Len(s) /\ p <= Len(s) + Len(t) /\ g >= 1 /\ g <= Len(sch) + 1
           /\ p < Len(s) + Len(t) => Leads(sch, s \o t, C, p, g, v),
         Leads(sch, s \o t, C, Len(s), f, w),
         NEW h \in Nat, NEW x \in Nat,
         \A g, v \in Nat : <<Len(s) + Len(t), g, v>> \in C <=> g = h /\ v = x
  PROVE  DecodesTo(sch, s \o t, B \cup C, h, x)
  <1>1. Decodes(sch, s \o t, B \cup C)
    BY Extend
  <1>2. Len(s \o t) = Len(s) + Len(t) /\ Len(s) \in Nat /\ Len(t) \in Nat
    OBVIOUS
  <1>3. ASSUME NEW g \in Nat, NEW v \in Nat PROVE <<Len(s) + Len(t), g, v>> \notin B
    BY <1>2 DEF DecodesTo, Decodes
  <1>4. \A g, v \in Nat : <<Len(s \o t), g, v>> \in B \cup C <=> g = h /\ v = x
    BY <1>2, <1>3
  <1> QED
    BY <1>1, <1>4 DEF DecodesTo

\* A run of WAITs, from the end of a frame over frames without writes.
LEMMA AppendWaits ==
  ASSUME NEW sch, Len(sch) \in Nat, NEW s \in Seq(Byte), NEW B, NEW f, NEW w,
         DecodesTo(sch, s, B, f, w),
         NEW n \in Nat \ {0}, f + n <= Len(sch) + 1, f >= 1, w = Len(sch[f]),
         \A g \in (f + 1)..(f + n - 1) : sch[g] = << >>
  PROVE  \E C : DecodesTo(sch, s \o Waits(n), C, f + n, 0)
  <1>0. f \in Nat /\ w \in Nat /\ Len(s) \in Nat
    BY DEF DecodesTo
  <1>1. PICK t, to : t = Waits(n) /\ Len(t) > 0 /\ Spans(t, to, n)
    BY WaitsSpan
  <1>2. /\ t \in Seq(Byte) /\ to \in [0..Len(t) -> 0..n] /\ to[0] = 0 /\ to[Len(t)] = n
        /\ \A k \in 0..(Len(t) - 1) :
             /\ IsWait(t[k + 1]) /\ WaitFrames(t[k + 1]) \in Nat \ {0}
             /\ to[k + 1] = to[k] + WaitFrames(t[k + 1])
    BY <1>1 DEF Spans
  <1> DEFINE st == s \o t
             C == {<<Len(s) + k, f + to[k], 0>> : k \in 1..Len(t)}
  <1>3. /\ Len(t) \in Nat /\ Len(st) = Len(s) + Len(t)
        /\ \A k \in 1..Len(t) : st[Len(s) + k] = t[k]
    BY <1>0, <1>2
  <1>4. \A k \in 0..Len(t) : to[k] \in Nat /\ to[k] <= n
    BY <1>2
  <1> HIDE DEF st
  <1>5. ASSUME NEW k \in 0..(Len(t) - 1), NEW v,
               v = Len(sch[f + to[k]])
        PROVE  Leads(sch, st, C, Len(s) + k, f + to[k], v)
    <2> DEFINE m == WaitFrames(t[k + 1])
    <2>0. k + 1 \in 1..Len(t) /\ k + 1 \in 0..Len(t) /\ k \in 0..Len(t) /\ k \in Nat
      BY <1>3
    <2>1. st[Len(s) + k + 1] = t[k + 1]
      <3>1. Len(s) + (k + 1) = Len(s) + k + 1
        BY <1>0, <2>0
      <3> QED
        BY <1>3, <2>0, <3>1
    <2>2. IsWait(t[k + 1]) /\ m \in Nat \ {0} /\ to[k + 1] = to[k] + m
      BY <1>2
    <2>3. to[k] \in Nat /\ to[k + 1] \in Nat /\ to[k + 1] <= n
      BY <1>4, <2>0
    <2> HIDE DEF m
    <2>4. /\ f + to[k] + m = f + to[k + 1] /\ f + to[k] + m <= Len(sch) + 1
      BY <1>0, <2>2, <2>3
    <2>5. \A g \in (f + to[k] + 1)..(f + to[k] + m - 1) : sch[g] = << >>
      BY <1>0, <2>2, <2>3
    <2>6. <<Len(s) + k + 1, f + to[k] + m, 0>> \in C
      <3>1. Len(s) + k + 1 = Len(s) + (k + 1)
        BY <1>0, <2>0
      <3>2. <<Len(s) + (k + 1), f + to[k + 1], 0>> \in C
        BY <2>0
      <3> QED
        BY <2>4, <3>1, <3>2
    <2> HIDE DEF C
    <2> QED
      BY <1>5, <2>1, <2>2, <2>4, <2>5, <2>6 DEF Leads, m
  <1>6. Leads(sch, st, C, Len(s), f, w)
    <2>1. 0 \in 0..(Len(t) - 1) /\ f + to[0] = f /\ Len(s) + 0 = Len(s)
      BY <1>0, <1>1, <1>2, <1>3
    <2>2. w = Len(sch[f + to[0]])
      BY <2>1
    <2> HIDE DEF C
    <2>3. Leads(sch, st, C, Len(s) + 0, f + to[0], w)
      BY <1>5, <2>1, <2>2
    <2> QED
      BY <2>1, <2>3
  <1>7. ASSUME NEW p \in Nat, NEW g \in Nat, NEW v \in Nat, <<p, g, v>> \in C
        PROVE  /\ p > Len(s) /\ p <= Len(s) + Len(t) /\ g >= 1 /\ g <= Len(sch) + 1
               /\ p < Len(s) + Len(t) => Leads(sch, st, C, p, g, v)
    <2>1. PICK k \in 1..Len(t) : p = Len(s) + k /\ g = f + to[k] /\ v = 0
      BY <1>7
    <2>2. k \in 0..Len(t) /\ to[k] \in Nat /\ to[k] <= n
      BY <1>3, <1>4
    <2>3. ASSUME k < Len(t) PROVE Leads(sch, st, C, p, g, v)
      <3>1. k + 1 \in 0..Len(t) /\ k \in 0..(Len(t) - 1)
        BY <1>3, <2>2, <2>3
      <3>4. k - 1 \in 0..(Len(t) - 1) /\ k - 1 \in 0..Len(t) /\ k - 1 + 1 = k
        BY <1>3, <2>3
      <3>5. to[k] >= 1
        <4>1. to[k - 1] \in Nat
          BY <1>4, <3>4
        <4>2. WaitFrames(t[k]) \in Nat \ {0} /\ to[k] = to[k - 1] + WaitFrames(t[k])
          BY <1>2, <3>4
        <4> QED
          BY <4>1, <4>2
      <3>6. to[k] < n
        <4>1. to[k + 1] \in Nat /\ to[k + 1] <= n
          BY <1>4, <3>1
        <4>2. WaitFrames(t[k + 1]) \in Nat \ {0} /\ to[k + 1] = to[k] + WaitFrames(t[k + 1])
          BY <1>2, <3>1
        <4> QED
          BY <2>2, <4>1, <4>2
      <3>7. sch[f + to[k]] = << >>
        <4>1. f + to[k] \in (f + 1)..(f + n - 1)
          BY <1>0, <2>2, <3>5, <3>6
        <4> HIDE DEF C
        <4> QED
          BY <4>1
      <3>8. 0 = Len(sch[f + to[k]])
        BY <3>7
      <3> HIDE DEF C
      <3> QED
        BY <1>5, <2>1, <3>1, <3>8
    <2> HIDE DEF C
    <2> QED
      BY <1>0, <1>3, <2>1, <2>2, <2>3
  <1>8. C \subseteq Places
    <2>1. \A k \in 1..Len(t) : Len(s) + k \in Nat /\ f + to[k] \in Nat /\ 0 \in Nat
      BY <1>0, <1>3, <1>4
    <2> QED
      BY <2>1 DEF Places
  <1>9. \A g, v \in Nat : <<Len(s) + Len(t), g, v>> \in C <=> g = f + n /\ v = 0
    <2>1. Len(t) \in 1..Len(t)
      BY <1>1, <1>3
    <2>2. \A k \in 1..Len(t) : Len(s) + k = Len(s) + Len(t) => k = Len(t)
      BY <1>0, <1>3
    <2> QED
      BY <1>2, <2>1, <2>2
  <1> HIDE DEF C
  <1>10. f + n \in Nat /\ 0 \in Nat
    BY <1>0
  <1>11. DecodesTo(sch, s \o t, B \cup C, f + n, 0)
    BY <1>1, <1>2, <1>6, <1>7, <1>8, <1>9, <1>10, ExtendTo DEF st
  <1> QED
    BY <1>1, <1>11
\* The writes of a frame, behind those it has already.
LEMMA AppendWrites ==
  ASSUME NEW sch, Len(sch) \in Nat, NEW s \in Seq(Byte), NEW B, NEW f, NEW w,
         DecodesTo(sch, s, B, f, w),
         NEW ws \in Seq(RegisterWrite), f \in 1..Len(sch),
         sch[f] \in Seq(RegisterWrite), w + Len(ws) <= Len(sch[f]),
         \A k \in 0..(Len(ws) - 1) : sch[f][w + k + 1] = ws[k + 1]
  PROVE  \E C : DecodesTo(sch, s \o RegWrites(ws), C, f, w + Len(ws))
  <1> DEFINE t == RegWrites(ws)
             st == s \o t
             N == Len(ws)
             C == {<<Len(s) + 2 * k, f, w + k>> : k \in 1..N}
  <1>0. f \in Nat /\ w \in Nat /\ Len(s) \in Nat /\ N \in Nat
    BY DEF DecodesTo
  <1>1. CASE ws = << >>
    <2>1. t \in Seq(Byte) /\ Len(t) = 0
      <3>1. N = 0
        BY <1>1
      <3>2. t \in Seq(Byte) /\ Len(t) = 2 * N
        BY RegWritesAre
      <3> HIDE DEF t, N
      <3> QED
        BY <3>1, <3>2
    <2> HIDE DEF t
    <2>2. t = << >>
      BY <2>1, EmptySeq
    <2>3. s \o t = s /\ w + Len(ws) = w
      BY <1>0, <1>1, <2>2
    <2> QED
      BY <2>3 DEF t
  <1>2. CASE ws # << >>
    <2>1. N >= 1
      BY <1>0, <1>2, EmptySeq
    <2>2. /\ t \in Seq(Byte) /\ Len(t) = 2 * N
          /\ \A k \in 0..(N - 1) :
               /\ IsRegWrite(t[2 * k + 1])
               /\ ws[k + 1] = <<RegOffset(t[2 * k + 1]), t[2 * k + 2]>>
      BY RegWritesAre
    <2> HIDE DEF t
    <2>3. /\ Len(st) = Len(s) + 2 * N
          /\ \A k \in 1..2 * N : st[Len(s) + k] = t[k]
      BY <2>2, Joined
    <2> HIDE DEF st, N
    <2>4. ASSUME NEW k \in 0..(N - 1) PROVE Leads(sch, st, C, Len(s) + 2 * k, f, w + k)
      <3> DEFINE p == Len(s) + 2 * k
      <3>1. 2 * k + 1 \in 1..2 * N /\ 2 * k + 2 \in 1..2 * N /\ k + 1 \in 1..N
        BY <1>0
      <3>2. p + 1 = Len(s) + (2 * k + 1) /\ p + 2 = Len(s) + (2 * k + 2)
        BY <1>0
      <3>3. st[p + 1] = t[2 * k + 1] /\ st[p + 2] = t[2 * k + 2] /\ p + 2 <= Len(st)
        BY <1>0, <2>3, <3>1, <3>2
      <3>4. IsRegWrite(st[p + 1]) /\ ws[k + 1] = <<RegOffset(st[p + 1]), st[p + 2]>>
        BY <2>2, <3>3
      <3>5. sch[f][w + k + 1] = ws[k + 1]
        BY DEF N
      <3>6. w + k < Len(sch[f])
        BY <1>0 DEF N
      <3>7. <<p + 2, f, w + k + 1>> \in C
        <4>1. <<Len(s) + 2 * (k + 1), f, w + (k + 1)>> \in C
          BY <3>1
        <4>2. Len(s) + 2 * (k + 1) = p + 2 /\ w + (k + 1) = w + k + 1
          BY <1>0
        <4> QED
          BY <4>1, <4>2
      <3> HIDE DEF C, p
      <3>8. Leads(sch, st, C, p, f, w + k)
        BY <3>3, <3>4, <3>5, <3>6, <3>7 DEF Leads
      <3> QED
        BY <3>8 DEF p
    <2>5. Leads(sch, st, C, Len(s), f, w)
      <3>1. 0 \in 0..(N - 1) /\ Len(s) + 2 * 0 = Len(s) /\ w + 0 = w
        BY <1>0, <2>1
      <3> HIDE DEF C
      <3> QED
        BY <2>4, <3>1
    <2>6. ASSUME NEW p \in Nat, NEW g \in Nat, NEW v \in Nat, <<p, g, v>> \in C
          PROVE  /\ p > Len(s) /\ p <= Len(s) + Len(t) /\ g >= 1 /\ g <= Len(sch) + 1
                 /\ p < Len(s) + Len(t) => Leads(sch, st, C, p, g, v)
      <3>1. PICK k \in 1..N : p = Len(s) + 2 * k /\ g = f /\ v = w + k
        BY <2>6
      <3>2. p < Len(s) + Len(t) => k \in 0..(N - 1)
        BY <1>0, <2>2, <3>1
      <3> HIDE DEF C
      <3> QED
        BY <1>0, <2>2, <2>4, <3>1, <3>2
    <2>7. C \subseteq Places
      BY <1>0 DEF Places
    <2>8. \A g, v \in Nat : <<Len(s) + Len(t), g, v>> \in C <=> g = f /\ v = w + N
      <3>1. N \in 1..N
        BY <1>0, <2>1
      <3>2. \A k \in 1..N : Len(s) + 2 * k = Len(s) + Len(t) <=> k = N
        BY <1>0, <2>2
      <3> QED
        BY <1>0, <3>1, <3>2
    <2> HIDE DEF C
    <2>9. w + N \in Nat /\ Len(t) > 0
      BY <1>0, <2>1, <2>2
    <2>10. DecodesTo(sch, s \o t, B \cup C, f, w + N)
      BY <1>0, <2>2, <2>5, <2>6, <2>7, <2>8, <2>9, ExtendTo DEF st
    <2> QED
      BY <2>10 DEF t, N
  <1> QED
    BY <1>1, <1>2

LEMMA AppendEnd ==
  ASSUME NEW sch, Len(sch) \in Nat, NEW s \in Seq(Byte), NEW B, NEW f, NEW w,
         DecodesTo(sch, s, B, f, w), f = Len(sch) + 1
  PROVE  \E C : DecodesTo(sch, s \o <<CmdEnd>>, C, f, 0)
  <1> DEFINE t == <<CmdEnd>>
             C == {<<Len(s) + 1, f, 0>>}
  <1>1. t \in Seq(Byte) /\ Len(t) = 1 /\ t[1] = CmdEnd /\ Len(t) > 0
    BY DEF CmdEnd, Byte
  <1> HIDE DEF t
  <1>2. (s \o t)[Len(s) + 1] = CmdEnd /\ Len(s) \in Nat /\ f \in Nat
    <2>1. 1 \in 1..Len(t)
      BY <1>1
    <2>2. (s \o t)[Len(s) + 1] = t[1]
      BY <1>1, <2>1, Joined
    <2>3. Len(s) \in Nat /\ f \in Nat
      OBVIOUS
    <2> QED
      BY <1>1, <2>2, <2>3
  <1>3. C \subseteq Places
    BY <1>2 DEF Places
  <1>4. \A p, g, v \in Nat : <<p, g, v>> \in C =>
          /\ p > Len(s) /\ p <= Len(s) + Len(t) /\ g >= 1 /\ g <= Len(sch) + 1
          /\ p < Len(s) + Len(t) => Leads(sch, s \o t, C, p, g, v)
    BY <1>1, <1>2
  <1>5. \A g, v \in Nat : <<Len(s) + Len(t), g, v>> \in C <=> g = f /\ v = 0
    BY <1>1, <1>2
  <1> HIDE DEF C
  <1>6. Leads(sch, s \o t, C, Len(s), f, w)
    BY <1>2 DEF Leads
  <1>7. DecodesTo(sch, s \o t, B \cup C, f, 0)
    <2>1. 0 \in Nat
      OBVIOUS
    <2> QED
      BY <1>1, <1>2, <1>3, <1>4, <1>5, <1>6, <2>1, ExtendTo
  <1> QED
    BY <1>7 DEF t

-----------------------------------------------------------------------------
\* The converter: its stream so far decodes to the frames it has done.

\* The schedule of the first n frames is in the stream, but for a WAIT that is pending.
FramesAt(fr, pending, s) ==
  LET n == IF fr = 0 THEN Total ELSE PlaysUpTo(fr) - 1 IN
  /\ fr # 0 => IsStart(fr)
  /\ pending \in Nat /\ s \in Seq(Byte)
  /\ \E B, f, w :
       /\ DecodesTo(FullSchedule, s, B, f, w)
       /\ f + pending = n + 1
       /\ \/ /\ n = 0 /\ f = 1 /\ w = Len(WritesAt(InitEntries))
             /\ fr # 0 => FullSchedule[1] = WritesAt(InitEntries) \o WritesAt(FrameEntries(fr))
          \/ /\ f \in 1..n /\ w = Len(FullSchedule[f])
             /\ \A g \in (f + 1)..n : FullSchedule[g] = << >>

ConvInv ==
  /\ LogInv
  /\ stream \in Seq(Byte)
  /\ phase \in {"record", "frames", "write", "done"}
  /\ phase = "record" => pending_wait = 0
  /\ phase = "frames" => FramesAt(frame, pending_wait, stream)
  /\ phase \in {"write", "done"} => \E B : DecodesTo(FullSchedule, stream, B, Total + 1, 0)
  /\ phase = "done" => \/ disk = NoFile
                       \/ \E n \in 0..(HeaderSize + Len(stream)) : disk = FilePrefix(n)

LEMMA FullScheduleType ==
  LogTyped => /\ FullSchedule \in Seq(Seq(RegisterWrite)) /\ Len(FullSchedule) = Total
              /\ Total \in Nat
  <1> SUFFICES ASSUME LogTyped
               PROVE  /\ FullSchedule \in Seq(Seq(RegisterWrite)) /\ Len(FullSchedule) = Total
                      /\ Total \in Nat
    OBVIOUS
  <1>1. \A k \in 1..Total : WritesOfFrame(k) \in Seq(RegisterWrite)
    BY WritesType DEF WritesOfFrame
  <1>2. FullSchedule \in [1..Total -> Seq(RegisterWrite)]
    BY <1>1 DEF FullSchedule
  <1> QED
    BY <1>2, TotalIsNat

LEMMA ScheduleIs == Schedule = IF phase = "record" THEN << >> ELSE FullSchedule
  BY DEF Schedule, FullSchedule, Total

LEMMA ScheduleIsNext == Schedule' = IF phase' = "record" THEN << >> ELSE FullSchedule'
  BY DEF Schedule, FullSchedule, Total

LEMMA SameLog ==
  ASSUME log' = log
  PROVE  FullSchedule' = FullSchedule /\ LogInv' = LogInv /\ Total' = Total
  <1>1. FullSchedule' = FullSchedule
    BY DEF FullSchedule, WritesOfFrame, WritesAt, IsApuWrite, FrameOf, PlaysUpTo, Total, IsPlayStart
  <1>2. Total' = Total
    BY DEF Total, PlaysUpTo, IsPlayStart
  <1> QED
    BY <1>1, <1>2 DEF LogInv, LogTyped, LogShape

LEMMA FramesStay ==
  ASSUME log' = log
  PROVE  FramesAt(frame, pending_wait, stream)' <=> FramesAt(frame', pending_wait', stream')
  <1>1. /\ Total' = Total /\ FullSchedule' = FullSchedule
        /\ WritesAt(InitEntries)' = WritesAt(InitEntries)
    BY SameLog DEF Total, PlaysUpTo, IsPlayStart, WritesAt, IsApuWrite, InitEntries, InitEnd,
                   NextAt
  <1>2. \A i : /\ PlaysUpTo(i)' = PlaysUpTo(i) /\ (IsStart(i)' <=> IsStart(i))
               /\ WritesAt(FrameEntries(i))' = WritesAt(FrameEntries(i))
    BY DEF PlaysUpTo, IsPlayStart, IsStart, WritesAt, IsApuWrite, FrameEntries, FrameEnd, NextAt
  <1> QED
    BY <1>1, <1>2 DEF FramesAt

\* INIT's writes come first, and wait for nothing.
LEMMA InitWrites ==
  ASSUME LogInv
  PROVE  FramesAt(NextAt(IF InitEnd = 0 THEN 0 ELSE InitEnd - 1, "PLAY_START"), 0,
                  RegWrites(WritesAt(InitEntries)))
  <1> DEFINE fr == NextAt(IF InitEnd = 0 THEN 0 ELSE InitEnd - 1, "PLAY_START")
             ws == WritesAt(InitEntries)
  <1>0. /\ LogTyped /\ ws \in Seq(RegisterWrite) /\ Len(ws) \in Nat
        /\ FullSchedule \in Seq(Seq(RegisterWrite)) /\ Len(FullSchedule) = Total /\ Total \in Nat
    BY WritesType, FullScheduleType DEF LogInv
  <1>1. \/ fr = 0 /\ Total = 0 /\ ws = << >>
        \/ /\ IsStart(fr) /\ PlaysUpTo(fr) = 1
           /\ FullSchedule[1] = ws \o WritesAt(FrameEntries(fr))
    BY LogBegin
  <1>2. DecodesTo(FullSchedule, << >>, {<<0, 1, 0>>}, 1, 0)
    BY <1>0, NothingDecoded
  <1>3. RegWrites(ws) \in Seq(Byte)
    BY <1>0, RegWritesAre
  <1>4. << >> \in Seq(Byte) /\ << >> \o RegWrites(ws) = RegWrites(ws)
    BY <1>3
  <1> HIDE DEF fr, ws
  <1>5. CASE fr = 0 /\ Total = 0 /\ ws = << >>
    <2>1. RegWrites(ws) = << >>
      <3>1. Len(RegWrites(ws)) = 2 * Len(ws) /\ Len(ws) = 0
        BY <1>0, <1>5, RegWritesAre
      <3>2. Len(RegWrites(ws)) = 0
        BY <3>1
      <3> QED
        BY <1>3, <3>2, EmptySeq
    <2>2. DecodesTo(FullSchedule, RegWrites(ws), {<<0, 1, 0>>}, 1, 0) /\ Len(ws) = 0
      BY <1>2, <1>5, <2>1
    <2>3. 1 + 0 = Total + 1 /\ 0 \in Nat
      BY <1>5
    <2>4. FramesAt(fr, 0, RegWrites(ws))
      BY <1>3, <1>5, <2>2, <2>3 DEF FramesAt, ws
    <2> QED
      BY <2>4 DEF fr, ws
  <1>6. CASE IsStart(fr) /\ PlaysUpTo(fr) = 1
             /\ FullSchedule[1] = ws \o WritesAt(FrameEntries(fr))
    <2> DEFINE rest == WritesAt(FrameEntries(fr))
    <2>1. rest \in Seq(RegisterWrite)
      BY <1>0, WritesType
    <2> HIDE DEF rest
    <2>2. FullSchedule[1] = ws \o rest
      BY <1>6 DEF rest
    <2>3. /\ FullSchedule[1] \in Seq(RegisterWrite) /\ 0 + Len(ws) <= Len(FullSchedule[1])
          /\ \A k \in 0..(Len(ws) - 1) : FullSchedule[1][0 + k + 1] = ws[k + 1]
      BY <1>0, <2>1, <2>2
    <2>4. 1 \in 1..Total
      BY <1>0, <1>6, NextStart
    <2>5. PICK C : DecodesTo(FullSchedule, << >> \o RegWrites(ws), C, 1, 0 + Len(ws))
      BY <1>0, <1>2, <1>4, <2>3, <2>4, AppendWrites
    <2>6. DecodesTo(FullSchedule, RegWrites(ws), C, 1, Len(ws))
      <3>1. 0 + Len(ws) = Len(ws)
        BY <1>0
      <3> QED
        BY <1>4, <2>5, <3>1
    <2>7. fr # 0 /\ PlaysUpTo(fr) - 1 = 0 /\ 1 + 0 = 0 + 1 /\ 0 \in Nat
      BY <1>6 DEF IsStart
    <2>8. FramesAt(fr, 0, RegWrites(ws))
      BY <1>3, <1>6, <2>6, <2>7 DEF FramesAt, ws
    <2> QED
      BY <2>8 DEF fr, ws
  <1> QED
    BY <1>1, <1>5, <1>6

\* The WAIT that is pending leads to the next frame, and to the writes INIT made if it
\* is the first.
LEMMA PendingWait ==
  ASSUME LogInv, NEW fr, fr # 0, NEW pending, NEW s, FramesAt(fr, pending, s)
  PROVE  LET k == PlaysUpTo(fr)
             ws == WritesAt(FrameEntries(fr)) IN
         /\ k \in 1..Total
         /\ \E C, w, before : /\ DecodesTo(FullSchedule, s \o Waits(pending), C, k, w)
                              /\ before \in Seq(RegisterWrite) /\ w = Len(before)
                              /\ FullSchedule[k] = before \o ws
  <1> DEFINE k == PlaysUpTo(fr)
             ws == WritesAt(FrameEntries(fr))
             n == k - 1
  <1>0. LogTyped /\ IsStart(fr) /\ pending \in Nat /\ s \in Seq(Byte)
    BY DEF LogInv, FramesAt
  <1>1. k \in 1..Total /\ n \in Nat /\ n + 1 = k
    BY <1>0, NextStart, TotalIsNat
  <1>2. PICK B, f, w :
       /\ DecodesTo(FullSchedule, s, B, f, w)
       /\ f + pending = n + 1
       /\ \/ /\ n = 0 /\ f = 1 /\ w = Len(WritesAt(InitEntries))
             /\ FullSchedule[1] = WritesAt(InitEntries) \o ws
          \/ /\ f \in 1..n /\ w = Len(FullSchedule[f])
             /\ \A g \in (f + 1)..n : FullSchedule[g] = << >>
    BY DEF FramesAt
  <1>3. FullSchedule \in Seq(Seq(RegisterWrite)) /\ Len(FullSchedule) = Total /\ Total \in Nat
    BY <1>0, FullScheduleType
  <1>4. WritesAt(InitEntries) \in Seq(RegisterWrite) /\ ws \in Seq(RegisterWrite)
    BY <1>0, WritesType
  <1>5. n > 0 => FullSchedule[k] = ws
    BY <1>0, <1>1, LaterFrame
  <1> HIDE DEF n, k, ws
  <1>6. CASE /\ n = 0 /\ f = 1 /\ w = Len(WritesAt(InitEntries))
             /\ FullSchedule[1] = WritesAt(InitEntries) \o ws
    <2>1. pending = 0 /\ k = f
      BY <1>0, <1>1, <1>2, <1>6
    <2>2. s \o Waits(pending) = s
      BY <1>0, <2>1, NoWaits
    <2>3. /\ DecodesTo(FullSchedule, s \o Waits(pending), B, k, w)
          /\ FullSchedule[k] = WritesAt(InitEntries) \o ws
      BY <1>2, <1>6, <2>1, <2>2
    <2> QED
      BY <1>1, <1>4, <1>6, <2>3 DEF k, ws
  <1>7. CASE /\ f \in 1..n /\ w = Len(FullSchedule[f])
             /\ \A g \in (f + 1)..n : FullSchedule[g] = << >>
    <2>1. /\ pending \in Nat \ {0} /\ f + pending = k /\ f + pending <= Len(FullSchedule) + 1
          /\ f >= 1 /\ \A g \in (f + 1)..(f + pending - 1) : FullSchedule[g] = << >>
      BY <1>0, <1>1, <1>2, <1>3, <1>7
    <2>2. PICK C : DecodesTo(FullSchedule, s \o Waits(pending), C, f + pending, 0)
      BY <1>0, <1>2, <1>3, <1>7, <2>1, AppendWaits
    <2>3. n > 0
      BY <1>1, <1>7
    <2>4. << >> \in Seq(RegisterWrite) /\ 0 = Len(<< >>) /\ << >> \o ws = ws
      BY <1>4
    <2>5. FullSchedule[k] = << >> \o ws
      BY <1>5, <2>3, <2>4
    <2>6. DecodesTo(FullSchedule, s \o Waits(pending), C, k, 0)
      BY <2>1, <2>2
    <2> QED
      BY <1>1, <2>4, <2>5, <2>6 DEF k, ws
  <1> QED
    BY <1>2, <1>6, <1>7

LEMMA FrameIsDone ==
  ASSUME LogInv, FramesAt(frame, pending_wait, stream), EmitFrame
  PROVE  FramesAt(frame', pending_wait', stream')
  <1> DEFINE k == PlaysUpTo(frame)
             ws == WritesAt(FrameEntries(frame))
             next == NextAt(frame, "PLAY_START")
             n == IF next = 0 THEN Total ELSE PlaysUpTo(next) - 1
  <1>0. /\ LogTyped /\ frame # 0 /\ IsStart(frame) /\ pending_wait \in Nat /\ stream \in Seq(Byte)
        /\ frame' = next
    BY DEF LogInv, FramesAt, EmitFrame
  <1>1. k \in 1..Total /\ k \in Nat /\ n = k /\ (next # 0 => IsStart(next))
    BY <1>0, NextStart, TotalIsNat
  <1>2. FullSchedule \in Seq(Seq(RegisterWrite)) /\ Len(FullSchedule) = Total /\ Total \in Nat
    BY <1>0, FullScheduleType
  <1>3. ws \in Seq(RegisterWrite)
    BY <1>0, WritesType
  <1>4. CASE ws # << >>
    <2>1. stream' = stream \o Waits(pending_wait) \o RegWrites(ws) /\ pending_wait' = 1
      BY <1>4 DEF EmitFrame
    <2>2. PICK C, w, before : /\ DecodesTo(FullSchedule, stream \o Waits(pending_wait), C, k, w)
                              /\ before \in Seq(RegisterWrite) /\ w = Len(before)
                              /\ FullSchedule[k] = before \o ws
      BY <1>0, PendingWait
    <2> HIDE DEF ws, k
    <2>3. /\ FullSchedule[k] \in Seq(RegisterWrite) /\ w + Len(ws) = Len(FullSchedule[k])
          /\ \A j \in 0..(Len(ws) - 1) : FullSchedule[k][w + j + 1] = ws[j + 1]
          /\ w + Len(ws) <= Len(FullSchedule[k])
      <3>1. /\ before \o ws \in Seq(RegisterWrite) /\ Len(before \o ws) = Len(before) + Len(ws)
            /\ \A j \in 0..(Len(ws) - 1) : (before \o ws)[Len(before) + j + 1] = ws[j + 1]
            /\ Len(before) + Len(ws) \in Nat
        BY <1>3, <2>2
      <3> QED
        BY <2>2, <3>1
    <2>4. stream \o Waits(pending_wait) \in Seq(Byte)
      <3>1. Waits(pending_wait) \in Seq(Byte)
        <4>1. CASE pending_wait = 0
          BY <4>1, NoWaits, EmptySeq
        <4>2. CASE pending_wait # 0
          <5>1. pending_wait \in Nat \ {0}
            BY <1>0, <4>2
          <5>2. PICK to : Spans(Waits(pending_wait), to, pending_wait)
            BY <5>1, WaitsSpan
          <5> QED
            BY <5>2 DEF Spans
        <4> QED
          BY <4>1, <4>2
      <3> QED
        BY <1>0, <3>1
    <2>5. PICK D : DecodesTo(FullSchedule, stream', D, k, w + Len(ws))
      BY <1>1, <1>2, <1>3, <2>1, <2>2, <2>3, <2>4, AppendWrites
    <2>6. stream' \in Seq(Byte)
      <3>1. RegWrites(ws) \in Seq(Byte)
        BY <1>3, RegWritesAre
      <3> QED
        BY <2>1, <2>4, <3>1
    <2>7. /\ k \in 1..n /\ w + Len(ws) = Len(FullSchedule[k]) /\ k + pending_wait' = n + 1
          /\ \A g \in (k + 1)..n : FullSchedule[g] = << >>
      BY <1>1, <2>1, <2>3
    <2> QED
      BY <1>0, <1>1, <2>1, <2>5, <2>6, <2>7 DEF FramesAt
  <1>5. CASE ws = << >>
    <2>1. stream' = stream /\ pending_wait' = pending_wait + 1
      BY <1>5 DEF EmitFrame
    <2>2. PICK B, f, w :
       /\ DecodesTo(FullSchedule, stream, B, f, w)
       /\ f + pending_wait = k - 1 + 1
       /\ \/ /\ k - 1 = 0 /\ f = 1 /\ w = Len(WritesAt(InitEntries))
             /\ FullSchedule[1] = WritesAt(InitEntries) \o ws
          \/ /\ f \in 1..(k - 1) /\ w = Len(FullSchedule[f])
             /\ \A g \in (f + 1)..(k - 1) : FullSchedule[g] = << >>
      BY <1>0 DEF FramesAt
    <2>3. WritesAt(InitEntries) \in Seq(RegisterWrite)
      BY <1>0, WritesType
    <2>4. k > 1 => FullSchedule[k] = << >>
      BY <1>0, <1>5, LaterFrame
    <2> HIDE DEF ws, k
    <2>5. /\ f \in 1..k /\ w = Len(FullSchedule[f]) /\ f + (pending_wait + 1) = k + 1
          /\ \A g \in (f + 1)..k : FullSchedule[g] = << >>
      <3>1. CASE /\ k - 1 = 0 /\ f = 1 /\ w = Len(WritesAt(InitEntries))
                 /\ FullSchedule[1] = WritesAt(InitEntries) \o ws
        <4>1. FullSchedule[1] = WritesAt(InitEntries)
          BY <1>5, <2>3, <3>1
        <4> QED
          BY <1>0, <1>1, <2>2, <3>1, <4>1
      <3>2. CASE /\ f \in 1..(k - 1) /\ w = Len(FullSchedule[f])
                 /\ \A g \in (f + 1)..(k - 1) : FullSchedule[g] = << >>
        BY <1>0, <1>1, <2>2, <2>4, <3>2
      <3> QED
        BY <2>2, <3>1, <3>2
    <2>6. pending_wait' \in Nat
      BY <1>0, <2>1
    <2>7. /\ DecodesTo(FullSchedule, stream', B, f, w) /\ f + pending_wait' = n + 1
          /\ f \in 1..n /\ w = Len(FullSchedule[f])
          /\ \A g \in (f + 1)..n : FullSchedule[g] = << >>
      BY <1>1, <2>1, <2>2, <2>5
    <2> QED
      BY <1>0, <1>1, <2>1, <2>6, <2>7 DEF FramesAt
  <1> QED
    BY <1>4, <1>5

\* The last WAIT leads behind the last frame, where END is.
LEMMA EndIsWritten ==
  ASSUME LogInv, FramesAt(frame, pending_wait, stream), EmitEnd
  PROVE  stream' \in Seq(Byte) /\ \E B : DecodesTo(FullSchedule, stream', B, Total + 1, 0)
  <1>0. /\ LogTyped /\ frame = 0 /\ pending_wait \in Nat /\ stream \in Seq(Byte)
        /\ stream' = stream \o Waits(pending_wait) \o <<CmdEnd>>
    BY DEF LogInv, FramesAt, EmitEnd
  <1>1. FullSchedule \in Seq(Seq(RegisterWrite)) /\ Len(FullSchedule) = Total /\ Total \in Nat
    BY <1>0, FullScheduleType
  <1>2. PICK B, f, w :
       /\ DecodesTo(FullSchedule, stream, B, f, w)
       /\ f + pending_wait = Total + 1
       /\ \/ Total = 0 /\ f = 1
          \/ /\ f \in 1..Total /\ w = Len(FullSchedule[f])
             /\ \A g \in (f + 1)..Total : FullSchedule[g] = << >>
    BY <1>0 DEF FramesAt
  <1> DEFINE s == stream \o Waits(pending_wait)
  <1>3. s \in Seq(Byte) /\ \E C, v : DecodesTo(FullSchedule, s, C, Total + 1, v)
    <2>1. CASE Total = 0 /\ f = 1
      <3>1. pending_wait = 0 /\ f = Total + 1
        BY <1>0, <1>2, <2>1
      <3>2. s = stream
        BY <1>0, <3>1, NoWaits
      <3> QED
        BY <1>0, <1>2, <3>1, <3>2
    <2>2. CASE /\ f \in 1..Total /\ w = Len(FullSchedule[f])
               /\ \A g \in (f + 1)..Total : FullSchedule[g] = << >>
      <3>1. /\ pending_wait \in Nat \ {0} /\ f + pending_wait <= Len(FullSchedule) + 1 /\ f >= 1
            /\ \A g \in (f + 1)..(f + pending_wait - 1) : FullSchedule[g] = << >>
        BY <1>0, <1>1, <1>2, <2>2
      <3>2. Waits(pending_wait) \in Seq(Byte)
        BY <3>1, WaitsSpan DEF Spans
      <3>3. \E C : DecodesTo(FullSchedule, s, C, f + pending_wait, 0)
        BY <1>0, <1>1, <1>2, <2>2, <3>1, AppendWaits
      <3> QED
        BY <1>0, <1>2, <3>2, <3>3
    <2> QED
      BY <1>2, <2>1, <2>2
  <1> HIDE DEF s
  <1>4. \E D : DecodesTo(FullSchedule, s \o <<CmdEnd>>, D, Total + 1, 0)
    BY <1>1, <1>3, AppendEnd
  <1>5. s \o <<CmdEnd>> \in Seq(Byte)
    <2>1. CmdEnd \in Byte
      BY DEF CmdEnd, Byte
    <2> QED
      BY <1>3, <2>1
  <1> QED
    BY <1>0, <1>4, <1>5 DEF s
LEMMA ConvInitInv == ConvInit => ConvInv
  <1> SUFFICES ASSUME ConvInit PROVE ConvInv
    OBVIOUS
  <1>1. LogInv
    BY LogInitInv DEF ConvInit
  <1>2. << >> \in Seq(Byte)
    OBVIOUS
  <1> QED
    BY <1>1, <1>2 DEF ConvInit, ConvInv

LEMMA ConvNextInv == ConvInv /\ [ConvNext]_convVars => ConvInv'
  <1> SUFFICES ASSUME ConvInv, [ConvNext]_convVars PROVE ConvInv'
    OBVIOUS
  <1>1. CASE Record
    <2>1. LogInv'
      BY <1>1, LogNextInv DEF Record, ConvInv
    <2> QED
      BY <1>1, <2>1 DEF Record, ConvInv
  <1>2. CASE EmitInit
    <2>1. log' = log /\ phase' = "frames" /\ pending_wait' = 0 /\ LogInv
      BY <1>2 DEF EmitInit, ConvInv
    <2>2. FramesAt(frame', pending_wait', stream')
      BY <1>2, <2>1, InitWrites DEF EmitInit
    <2>3. FramesAt(frame, pending_wait, stream)' /\ stream' \in Seq(Byte)
      BY <2>1, <2>2, FramesStay DEF FramesAt
    <2> QED
      BY <2>1, <2>3, SameLog DEF ConvInv
  <1>3. CASE EmitFrame
    <2>1. log' = log /\ phase' = "frames" /\ phase = "frames" /\ LogInv
      BY <1>3 DEF EmitFrame, ConvInv
    <2>2. FramesAt(frame', pending_wait', stream')
      BY <1>3, <2>1, FrameIsDone DEF ConvInv
    <2>3. FramesAt(frame, pending_wait, stream)' /\ stream' \in Seq(Byte)
      BY <2>1, <2>2, FramesStay DEF FramesAt
    <2> QED
      BY <2>1, <2>3, SameLog DEF ConvInv
  <1>4. CASE EmitEnd
    <2>1. log' = log /\ phase' = "write" /\ phase = "frames" /\ LogInv
      BY <1>4 DEF EmitEnd, ConvInv
    <2>2. stream' \in Seq(Byte) /\ \E B : DecodesTo(FullSchedule, stream', B, Total + 1, 0)
      BY <1>4, <2>1, EndIsWritten DEF ConvInv
    <2>3. (\E B : DecodesTo(FullSchedule, stream, B, Total + 1, 0))'
      BY <2>1, <2>2, SameLog
    <2> QED
      BY <2>1, <2>2, <2>3, SameLog DEF ConvInv
  <1>5. CASE WriteFile
    <2>1. /\ log' = log /\ stream' = stream /\ frame_count' = frame_count
          /\ phase' = "done" /\ phase = "write" /\ LogInv
      BY <1>5 DEF WriteFile, ConvInv
    <2>2. disk' = NoFile \/ \E n \in 0..(HeaderSize + Len(stream)) : disk' = FilePrefix(n)
      BY <1>5 DEF WriteFile
    <2>3. (disk = NoFile \/ \E n \in 0..(HeaderSize + Len(stream)) : disk = FilePrefix(n))'
      BY <2>1, <2>2 DEF FilePrefix, NoFile, HeaderSize
    <2>4. (\E B : DecodesTo(FullSchedule, stream, B, Total + 1, 0))'
      BY <2>1, SameLog DEF ConvInv
    <2> QED
      BY <2>1, <2>3, <2>4, SameLog DEF ConvInv
  <1>6. CASE UNCHANGED convVars
    <2>1. /\ log' = log /\ stream' = stream /\ frame_count' = frame_count /\ phase' = phase
          /\ disk' = disk /\ frame' = frame /\ pending_wait' = pending_wait
      BY <1>6 DEF convVars
    <2>2. FramesAt(frame, pending_wait, stream)' <=> FramesAt(frame, pending_wait, stream)
      <3>1. FramesAt(frame', pending_wait', stream') <=> FramesAt(frame, pending_wait, stream)
        BY <2>1
      <3> QED
        BY <2>1, <3>1, FramesStay
    <2>3. (\E B : DecodesTo(FullSchedule, stream, B, Total + 1, 0))' <=> \E B : DecodesTo(FullSchedule, stream, B, Total + 1, 0)
      BY <2>1, SameLog
    <2>4. (disk = NoFile \/ \E n \in 0..(HeaderSize + Len(stream)) : disk = FilePrefix(n))'
           <=> (disk = NoFile \/ \E n \in 0..(HeaderSize + Len(stream)) : disk = FilePrefix(n))
      BY <2>1 DEF FilePrefix, NoFile, HeaderSize
    <2> QED
      BY <2>1, <2>2, <2>3, <2>4, SameLog DEF ConvInv
  <1> QED
    BY <1>1, <1>2, <1>3, <1>4, <1>5, <1>6 DEF ConvNext
\* The header counts the frames, if its field is wide enough.
FramesDone == IF frame = 0 THEN Total ELSE PlaysUpTo(frame) - 1

CountInv ==
  /\ phase = "record" => frame_count = 0
  /\ phase \in {"write", "done"} => frame = 0
  /\ phase # "record" /\ Total < FieldMod => frame_count = FramesDone

LEMMA CountNextInv ==
  ConvInv /\ CountInv /\ [ConvNext]_convVars => CountInv'
  <1> SUFFICES ASSUME ConvInv, CountInv, [ConvNext]_convVars PROVE CountInv'
    OBVIOUS
  <1>0. LogInv /\ LogTyped /\ Total \in Nat
    BY TotalIsNat DEF ConvInv, LogInv
  <1>1. CASE Record
    BY <1>1 DEF Record, CountInv, ConvInv
  <1>2. CASE EmitInit
    <2>1. /\ log' = log /\ phase' = "frames" /\ frame_count' = 0
          /\ frame' = NextAt(IF InitEnd = 0 THEN 0 ELSE InitEnd - 1, "PLAY_START")
      BY <1>2 DEF EmitInit, CountInv
    <2>2. \/ frame' = 0 /\ Total = 0
          \/ frame' # 0 /\ PlaysUpTo(frame') = 1
      BY <1>0, <2>1, LogBegin DEF IsStart
    <2>3. FramesDone' = 0
      BY <2>1, <2>2, SameLog DEF FramesDone, PlaysUpTo, IsPlayStart
    <2> QED
      BY <2>1, <2>3 DEF CountInv
  <1>3. CASE EmitFrame
    <2>1. /\ log' = log /\ phase' = "frames" /\ phase = "frames" /\ frame # 0
          /\ frame_count' = (frame_count + 1) % FieldMod
          /\ frame' = NextAt(frame, "PLAY_START")
      BY <1>3 DEF EmitFrame
    <2>2. IsStart(frame)
      BY <2>1 DEF ConvInv, FramesAt
    <2>3. /\ PlaysUpTo(frame) \in 1..Total
          /\ (IF frame' = 0 THEN Total ELSE PlaysUpTo(frame') - 1) = PlaysUpTo(frame)
      BY <1>0, <2>1, <2>2, NextStart
    <2>4. FramesDone' = PlaysUpTo(frame)
      BY <2>1, <2>3, SameLog DEF FramesDone, PlaysUpTo, IsPlayStart
    <2>5. ASSUME Total < FieldMod PROVE frame_count' = FramesDone'
      <3>1. frame_count = PlaysUpTo(frame) - 1
        BY <2>1, <2>5 DEF CountInv, FramesDone
      <3>2. PlaysUpTo(frame) % FieldMod = PlaysUpTo(frame)
        BY <1>0, <2>3, <2>5, ConvertAssumption
      <3>3. frame_count + 1 = PlaysUpTo(frame)
        BY <1>0, <2>3, <3>1
      <3> QED
        BY <2>1, <2>4, <3>2, <3>3
    <2> QED
      BY <2>1, <2>5, SameLog DEF CountInv
  <1>4. CASE EmitEnd \/ WriteFile \/ UNCHANGED convVars
    <2>1. /\ log' = log /\ frame' = frame /\ frame_count' = frame_count
          /\ (phase' = "record" <=> phase = "record")
          /\ phase' \in {"write", "done"} => phase \in {"write", "done"} \/ frame = 0
      BY <1>4 DEF EmitEnd, WriteFile, convVars
    <2>2. FramesDone' = FramesDone
      BY <2>1, SameLog DEF FramesDone, PlaysUpTo, IsPlayStart
    <2> QED
      BY <2>1, <2>2, SameLog DEF CountInv
  <1> QED
    BY <1>1, <1>2, <1>3, <1>4 DEF ConvNext

-----------------------------------------------------------------------------
\* The player: where it is in the stream, and what it has played.

\* What the player loaded is the stream, or the part of it that the header's field counts.
Loaded ==
  /\ \E d \in 0..Len(stream) : /\ data = SubSeq(stream, 1, d)
                               /\ Len(stream) < FieldMod => d = Len(stream)
  /\ hasData /\ fileFrames = frame_count
  /\ Len(stream) < FieldMod => Whole

\* Between two ticks the next command is that of the frame after the WAIT.
AtRest(B) ==
  /\ playing /\ now = << >>
  /\ <<pc, Len(heard) + 1 + wait_frames, 0>> \in B
  /\ \A g \in (Len(heard) + 1)..(Len(heard) + wait_frames) : FullSchedule[g] = << >>

\* In a tick the writes of the frame have been made up to the next command.
InFrame(B) ==
  /\ playing /\ wait_frames = 0
  /\ \E w \in Nat : /\ <<pc, Len(heard) + 1, w>> \in B
                    /\ now = IF Len(heard) < Total
                             THEN SubSeq(FullSchedule[Len(heard) + 1], 1, w) ELSE << >>

\* The data ended inside a command: only data that the header did not count.
CutShort == ~playing /\ ~(Len(stream) < FieldMod)

PlayInv ==
  /\ stage \in {"convert", "loaded", "playing", "ended"}
  /\ pc \in Nat /\ wait_frames \in Nat /\ playing \in BOOLEAN /\ inTick \in BOOLEAN
  /\ hasData \in BOOLEAN
  /\ heard \in Seq(Seq(RegisterWrite)) /\ Len(heard) <= Total
  /\ \A i \in 1..Len(heard) : heard[i] = FullSchedule[i]
  /\ stage = "convert" => heard = << >> /\ now = << >> /\ ~playing /\ ~inTick
  /\ stage # "convert" => phase = "done"
  /\ stage = "loaded" => Loaded /\ ~inTick /\ heard = << >> /\ now = << >>
  /\ stage = "playing" =>
       /\ Loaded /\ frames_played = Len(heard)
       /\ \E B : /\ DecodesTo(FullSchedule, stream, B, Total + 1, 0)
                 /\ IF inTick THEN InFrame(B) \/ CutShort ELSE AtRest(B)
  /\ stage = "ended" => \/ ~hasData /\ heard = << >> /\ now = << >> /\ ~playing
                        \/ /\ Loaded
                           /\ Len(stream) < FieldMod =>
                                Len(heard) = Total /\ now = << >> /\ frames_played = Total

PipeInv == ConvInv /\ CountInv /\ PlayInv

LEMMA PipeInitInv == Init => PipeInv
  <1> SUFFICES ASSUME Init PROVE PipeInv
    OBVIOUS
  <1>1. ConvInv
    BY ConvInitInv DEF Init
  <1>2. CountInv
    BY DEF Init, ConvInit, CountInv
  <1>3. << >> \in Seq(Seq(RegisterWrite)) /\ Len(<< >>) = 0 /\ Total \in Nat
    BY <1>1, TotalIsNat, EmptySeq DEF ConvInv, LogInv
  <1>4. /\ stage = "convert" /\ heard = << >> /\ now = << >> /\ pc = 0 /\ wait_frames = 0
        /\ playing = FALSE /\ inTick = FALSE /\ hasData = FALSE
    BY DEF Init, Player!Init
  <1>5. Len(heard) = 0 /\ heard \in Seq(Seq(RegisterWrite))
    BY <1>3, <1>4
  <1>6. \A i \in 1..Len(heard) : heard[i] = FullSchedule[i]
    BY <1>5
  <1>7. /\ Len(heard) <= Total /\ pc \in Nat /\ wait_frames \in Nat /\ playing \in BOOLEAN
        /\ inTick \in BOOLEAN /\ hasData \in BOOLEAN
    <2>1. Len(heard) <= Total /\ pc \in Nat /\ wait_frames \in Nat
      BY <1>3, <1>4, <1>5
    <2>2. playing \in BOOLEAN /\ inTick \in BOOLEAN /\ hasData \in BOOLEAN
      BY <1>4, Zenon
    <2> QED
      BY <2>1, <2>2
  <1>8. stage # "loaded" /\ stage # "playing" /\ stage # "ended"
    BY <1>4
  <1>9. PlayInv
    BY <1>4, <1>5, <1>6, <1>7, <1>8, Zenon DEF PlayInv
  <1> QED
    BY <1>1, <1>2, <1>9 DEF PipeInv

\* The stages before the player plays.
LEMMA ConvertKeeps == ASSUME PipeInv, Convert PROVE PipeInv'
  <1>1. ConvNext /\ stage = "convert"
    BY DEF Convert
  <1>2. ConvInv' /\ CountInv'
    BY <1>1, ConvNextInv, CountNextInv DEF PipeInv
  <1>3. /\ stage' = "convert" /\ heard' = << >> /\ now' = << >> /\ pc' = pc
        /\ wait_frames' = wait_frames /\ playing' = playing /\ inTick' = inTick
        /\ hasData' = hasData
    BY <1>1 DEF Convert, PipeInv, PlayInv, playerVars
  <1>4. << >> \in Seq(Seq(RegisterWrite)) /\ Len(<< >>) = 0
    BY EmptySeq
  <1>5. Total' \in Nat
    <2>1. (LogTyped => Total \in Nat)'
      BY TotalIsNat, PTL
    <2> QED
      BY <1>2, <2>1 DEF ConvInv, LogInv
  <1>6. PlayInv'
    BY <1>1, <1>3, <1>4, <1>5 DEF PipeInv, PlayInv
  <1> QED
    BY <1>2, <1>6 DEF PipeInv

\* What stays when the converter's part does.
LEMMA ConvertedStays ==
  ASSUME PipeInv, UNCHANGED convVars
  PROVE  /\ ConvInv' /\ CountInv' /\ (Whole' <=> Whole)
         /\ FullSchedule' = FullSchedule /\ Total' = Total /\ stream' = stream
         /\ phase' = phase /\ frame_count' = frame_count /\ disk' = disk
  <1>1. ConvInv'
    BY ConvNextInv DEF PipeInv
  <1>2. /\ log' = log /\ phase' = phase /\ frame' = frame /\ frame_count' = frame_count
        /\ stream' = stream /\ disk' = disk
    BY DEF convVars
  <1>3. FullSchedule' = FullSchedule /\ Total' = Total
    BY <1>2, SameLog
  <1>4. FramesDone' = FramesDone
    BY <1>2, <1>3 DEF FramesDone, PlaysUpTo, IsPlayStart
  <1>5. CountInv'
    BY <1>2, <1>3, <1>4 DEF PipeInv, CountInv
  <1>6. Whole' <=> Whole
    BY <1>2 DEF Whole, FilePrefix, HeaderSize
  <1> QED
    BY <1>1, <1>2, <1>3, <1>5, <1>6

LEMMA LoadKeeps == ASSUME PipeInv, Load PROVE PipeInv'
  <1>0. /\ UNCHANGED convVars /\ heard' = heard /\ now' = now /\ stage = "convert"
        /\ phase = "done" /\ heard = << >> /\ now = << >> /\ ~inTick
    BY DEF Load, PipeInv, PlayInv
  <1>1. /\ ConvInv' /\ CountInv' /\ (Whole' <=> Whole)
        /\ FullSchedule' = FullSchedule /\ Total' = Total /\ stream' = stream
        /\ phase' = phase /\ frame_count' = frame_count /\ disk' = disk
    BY <1>0, ConvertedStays
  <1>2. CASE disk # NoFile /\ Player!LoadOk(disk) /\ stage' = "loaded"
    <2>1. /\ hasData' = TRUE /\ playing' = TRUE /\ inTick' = inTick /\ pc' = 0 /\ wait_frames' = 0
          /\ disk.header = "ok" /\ disk.data_size <= Len(disk.body)
          /\ data' = SubSeq(disk.body, 1, disk.data_size) /\ fileFrames' = disk.frame_count
      BY <1>2 DEF Player!LoadOk, Player!Rewind
    <2>2. PICK n \in 0..(HeaderSize + Len(stream)) : disk = FilePrefix(n)
      BY <1>0, <1>2 DEF PipeInv, ConvInv
    <2>3. stream \in Seq(Byte) /\ Len(stream) \in Nat
      BY DEF PipeInv, ConvInv
    <2> DEFINE d == Len(stream) % FieldMod
    <2>4. /\ n >= HeaderSize /\ disk.data_size = d /\ disk.frame_count = frame_count
          /\ disk.body = SubSeq(stream, 1, n - HeaderSize)
      <3>1. /\ disk.header = IF n < HeaderSize THEN "short" ELSE "ok"
            /\ disk.data_size = d /\ disk.frame_count = frame_count
            /\ disk.body = SubSeq(stream, 1, n - HeaderSize)
        BY <2>2 DEF FilePrefix
      <3>2. ~(n < HeaderSize)
        BY <2>1, <3>1
      <3>3. n >= HeaderSize
        BY <2>3, <3>2 DEF HeaderSize
      <3> QED
        BY <3>1, <3>3
    <2>5. n - HeaderSize \in 0..Len(stream) /\ n \in Int
      BY <2>2, <2>3, <2>4 DEF HeaderSize
    <2>6. Len(disk.body) = n - HeaderSize
      BY <2>3, <2>4, <2>5
    <2>7. d \in 0..(n - HeaderSize)
      <3>1. d \in Nat
        BY <2>3, ConvertAssumption
      <3> HIDE DEF d
      <3> QED
        BY <2>1, <2>4, <2>5, <2>6, <3>1
    <2>8. Len(stream) < FieldMod => d = Len(stream)
      BY <2>3, ConvertAssumption
    <2> HIDE DEF d
    <2>9. data' = SubSeq(stream, 1, d)
      <3> DEFINE m == n - HeaderSize
      <3>1. data' = SubSeq(SubSeq(stream, 1, m), 1, d) /\ m \in 0..Len(stream) /\ d \in 0..m
        BY <2>1, <2>4, <2>5, <2>7
      <3> HIDE DEF m
      <3> QED
        BY <2>3, <3>1
    <2>10. Len(stream) < FieldMod => Whole
      <3> SUFFICES ASSUME Len(stream) < FieldMod PROVE Whole
        OBVIOUS
      <3>1. n = HeaderSize + Len(stream)
        BY <2>3, <2>5, <2>7, <2>8 DEF HeaderSize
      <3> QED
        BY <1>0, <2>2, <3>1 DEF Whole
    <2>11. Loaded'
      <3>1. d \in 0..Len(stream)
        BY <2>3, <2>5, <2>7
      <3> QED
        BY <1>1, <2>1, <2>4, <2>8, <2>9, <2>10, <3>1 DEF Loaded
    <2>12. PlayInv'
      BY <1>0, <1>1, <1>2, <2>1, <2>11 DEF PipeInv, PlayInv
    <2> QED
      BY <1>1, <2>12 DEF PipeInv
  <1>3. ASSUME NEW f, Player!LoadFails(f), stage' = "ended" PROVE PipeInv'
    <2>1. /\ hasData' = FALSE /\ playing' = FALSE /\ inTick' = inTick /\ pc' = 0
          /\ wait_frames' = 0
      BY <1>3 DEF Player!LoadFails, Player!Rewind
    <2>2. PlayInv'
      BY <1>0, <1>1, <1>3, <2>1 DEF PipeInv, PlayInv
    <2> QED
      BY <1>1, <2>2 DEF PipeInv
  <1> QED
    BY <1>2, <1>3 DEF Load

LEMMA ResetKeeps == ASSUME PipeInv, Reset PROVE PipeInv'
  <1>0. /\ UNCHANGED convVars /\ heard' = heard /\ now' = now /\ stage = "loaded"
        /\ stage' = "playing" /\ heard = << >> /\ now = << >> /\ Loaded /\ ~inTick
        /\ phase = "done"
    BY DEF Reset, PipeInv, PlayInv
  <1>1. /\ ConvInv' /\ CountInv' /\ (Whole' <=> Whole)
        /\ FullSchedule' = FullSchedule /\ Total' = Total /\ stream' = stream
        /\ phase' = phase /\ frame_count' = frame_count /\ disk' = disk
    BY <1>0, ConvertedStays
  <1>2. /\ hasData' = hasData /\ playing' = hasData /\ inTick' = inTick /\ pc' = 0
        /\ wait_frames' = 0 /\ data' = data /\ fileFrames' = fileFrames /\ frames_played' = 0
    BY DEF Reset, Player!Reset, Player!Rewind, Player!file
  <1>3. Loaded' /\ hasData
    BY <1>0, <1>1, <1>2 DEF Loaded
  <1>4. PICK B : DecodesTo(FullSchedule, stream, B, Total + 1, 0)
    BY <1>0 DEF PipeInv, ConvInv
  <1>5. <<0, 1, 0>> \in B
    BY <1>4 DEF DecodesTo, Decodes
  <1>6. AtRest(B)'
    <2>1. Len(heard') = 0 /\ 0 + 1 + 0 = 1
      BY <1>0
    <2> QED
      BY <1>0, <1>1, <1>2, <1>3, <1>5, <2>1 DEF AtRest
  <1>7. PlayInv'
    <2>1. Len(heard') = 0
      BY <1>0
    <2> QED
      BY <1>0, <1>1, <1>2, <1>3, <1>4, <1>6, <2>1 DEF PipeInv, PlayInv
  <1> QED
    BY <1>1, <1>7 DEF PipeInv
-----------------------------------------------------------------------------
\* A tick.

\* What the player reads at a place in its data.
LEMMA PlayerReads ==
  ASSUME NEW s \in Seq(Byte), NEW d \in 0..Len(s), data = SubSeq(s, 1, d), pc \in Nat
  PROVE  /\ Player!data_size = d
         /\ pc < d => Player!Cmd = s[pc + 1]
         /\ ~(pc < d) => Player!Cmd = CmdEnd
         /\ pc + 1 < d => Player!Arg(1) = s[pc + 2]
  <1>1. Len(data) = d /\ \A i \in 1..d : data[i] = s[i]
    OBVIOUS
  <1>2. Player!data_size = d
    BY <1>1 DEF Player!data_size
  <1>3. Player!Cmd = IF pc + 0 < d THEN data[pc + 0 + 1] ELSE CmdEnd
    BY <1>2 DEF Player!Cmd, Player!Arg, Player!CmdEnd, CmdEnd
  <1>4. d \in Int /\ pc + 0 = pc
    OBVIOUS
  <1>5. pc < d => Player!Cmd = s[pc + 1]
    BY <1>1, <1>3, <1>4
  <1>6. ~(pc < d) => Player!Cmd = CmdEnd
    BY <1>3, <1>4
  <1>7. pc + 1 < d => Player!Arg(1) = s[pc + 2]
    <2> SUFFICES ASSUME pc + 1 < d PROVE Player!Arg(1) = s[pc + 2]
      OBVIOUS
    <2>1. Player!Arg(1) = data[pc + 1 + 1]
      BY <1>2 DEF Player!Arg
    <2>2. pc + 1 + 1 = pc + 2 /\ pc + 2 \in 1..d
      BY <1>4
    <2> QED
      BY <1>1, <2>1, <2>2
  <1> QED
    BY <1>2, <1>5, <1>6, <1>7

\* A byte of one of the converter's commands is taken for no other.
LEMMA OnlyThatCommand ==
  ASSUME Player!InTick, playing, Player!Cmd \in Byte
  PROVE  /\ IsRegWrite(Player!Cmd) => Player!DoRegWrite
         /\ IsWait(Player!Cmd) => Player!DoWait
         /\ Player!Cmd = CmdEnd => Player!DoEnd
  <1> DEFINE c == Player!Cmd
  <1>1. ~Player!CutOff
    BY DEF Player!CutOff
  <1>2. c \in 0..255
    BY DEF Byte
  <1> HIDE DEF c
  <1>3. /\ IsRegWrite(c) => c \in 192..223
        /\ c \in 192..223 => IsRegWrite(c)
        /\ IsWait(c) <=> c < 128
    BY <1>2 DEF IsRegWrite, IsWait
  <1>4. Player!DoWait => c < 128
    BY DEF Player!DoWait, Player!IsWait, c
  <1>5. Player!DoEnd => c = 254
    BY DEF Player!DoEnd, Player!CmdEnd, c
  <1>6. Player!DoLoop => c = 255
    BY DEF Player!DoLoop, Player!CmdLoop, c
  <1>7. Player!DoRegWrite => IsRegWrite(c)
    BY DEF Player!DoRegWrite, Player!IsRegWrite, IsRegWrite, c
  <1>8. Player!DoDpcmPlay \/ Player!DoDpcmStop \/ Player!DoDpcmRaw => c \in {224, 225, 226}
    BY DEF Player!DoDpcmPlay, Player!DoDpcmStop, Player!DoDpcmRaw, Player!CmdDpcmPlay,
           Player!CmdDpcmStop, Player!CmdDpcmRaw, c
  <1>9. Player!DoNoteOn \/ Player!DoNoteOff \/ Player!DoParam \/ Player!DoUnknown =>
          ~(c < 128) /\ ~IsRegWrite(c) /\ c # 254
    BY DEF Player!DoNoteOn, Player!DoNoteOff, Player!DoParam, Player!DoUnknown,
           Player!IsChannel, Player!IsWait, Player!IsRegWrite, IsRegWrite, Player!CmdEnd, c
  <1>10. /\ IsRegWrite(c) => Player!DoRegWrite
         /\ IsWait(c) => Player!DoWait
         /\ c = CmdEnd => Player!DoEnd
    BY <1>1, <1>2, <1>3, <1>4, <1>5, <1>6, <1>7, <1>8, <1>9 DEF Player!InTick, CmdEnd
  <1> QED
    BY <1>10 DEF c

\* A tick plays the frame that is due, or leaves what was heard as it is.
Plays == /\ Len(heard) < Total
         /\ heard' = Append(heard, FullSchedule[Len(heard) + 1])
LEMMA PrefixGrows ==
  ASSUME PipeInv, Plays, FullSchedule' = FullSchedule, Total' = Total
  PROVE  /\ heard' \in Seq(Seq(RegisterWrite)) /\ Len(heard') = Len(heard) + 1
         /\ Len(heard') <= Total' /\ Len(heard) \in Nat
         /\ \A i \in 1..Len(heard') : heard'[i] = FullSchedule'[i]
  <1>0. /\ heard \in Seq(Seq(RegisterWrite)) /\ Len(heard) < Total /\ Len(heard) \in Nat
        /\ \A i \in 1..Len(heard) : heard[i] = FullSchedule[i]
    BY DEF PipeInv, PlayInv, Plays
  <1>1. /\ FullSchedule \in Seq(Seq(RegisterWrite)) /\ Len(FullSchedule) = Total /\ Total \in Nat
    BY FullScheduleType DEF PipeInv, ConvInv, LogInv
  <1> DEFINE frame1 == FullSchedule[Len(heard) + 1]
  <1>2. frame1 \in Seq(RegisterWrite)
    <2>1. Len(heard) + 1 \in 1..Len(FullSchedule)
      BY <1>0, <1>1
    <2> QED
      BY <1>1, <2>1
  <1>3. heard' = Append(heard, frame1)
    BY DEF Plays
  <1> HIDE DEF frame1
  <1>4. /\ heard' \in Seq(Seq(RegisterWrite)) /\ Len(heard') = Len(heard) + 1
        /\ heard'[Len(heard) + 1] = frame1
        /\ \A i \in 1..Len(heard) : heard'[i] = heard[i]
    BY <1>0, <1>2, <1>3, AppendProperties
  <1>5. ASSUME NEW i \in 1..Len(heard') PROVE heard'[i] = FullSchedule'[i]
    <2>1. CASE i = Len(heard) + 1
      BY <1>4, <2>1 DEF frame1
    <2>2. CASE i \in 1..Len(heard)
      BY <1>0, <1>4, <2>2
    <2> QED
      BY <1>0, <1>4, <2>1, <2>2
  <1> QED
    BY <1>0, <1>1, <1>4, <1>5

\* A step of a tick that does not return keeps the player in the frame; one that
\* returns true plays it.  What the steps have in common.
LEMMA TickFacts ==
  ASSUME PipeInv, Tick
  PROVE  /\ stage = "playing" /\ phase = "done" /\ phase' = "done"
         /\ ConvInv' /\ CountInv' /\ (Whole' <=> Whole)
         /\ FullSchedule' = FullSchedule /\ Total' = Total /\ stream' = stream
         /\ frame_count' = frame_count /\ Total \in Nat /\ Loaded
         /\ heard \in Seq(Seq(RegisterWrite)) /\ Len(heard) \in Nat
         /\ heard' = IF ~inTick' /\ ret' THEN Append(heard, now \o out') ELSE heard
         /\ now' = IF ~inTick' /\ ret' THEN << >> ELSE now \o out'
         /\ stage' = IF ~inTick' /\ ~playing' THEN "ended" ELSE stage
         /\ Player!Tick \/ Player!InTick
         /\ FullSchedule \in Seq(Seq(RegisterWrite)) /\ Len(FullSchedule) = Total
  <1>1. UNCHANGED convVars /\ stage = "playing" /\ phase = "done" /\ Loaded
    BY DEF Tick, PipeInv, PlayInv
  <1>2. heard \in Seq(Seq(RegisterWrite)) /\ Len(heard) \in Nat
    BY DEF PipeInv, PlayInv
  <1>3. Total \in Nat /\ FullSchedule \in Seq(Seq(RegisterWrite)) /\ Len(FullSchedule) = Total
    BY FullScheduleType DEF PipeInv, ConvInv, LogInv
  <1>4. /\ ConvInv' /\ CountInv' /\ (Whole' <=> Whole)
        /\ FullSchedule' = FullSchedule /\ Total' = Total /\ stream' = stream
        /\ phase' = phase /\ frame_count' = frame_count
    BY <1>1, ConvertedStays
  <1>5. /\ heard' = IF ~inTick' /\ ret' THEN Append(heard, now \o out') ELSE heard
        /\ now' = IF ~inTick' /\ ret' THEN << >> ELSE now \o out'
        /\ stage' = IF ~inTick' /\ ~playing' THEN "ended" ELSE stage
        /\ Player!Tick \/ Player!InTick
    BY DEF Tick
  <1> QED
    BY <1>1, <1>2, <1>3, <1>4, <1>5

LEMMA DataStays ==
  ASSUME PipeInv, Tick
  PROVE  hasData' = hasData /\ data' = data /\ fileFrames' = fileFrames /\ Loaded'
  <1>1. Player!Tick \/ Player!InTick
    BY DEF Tick
  <1>2. hasData' = hasData /\ data' = data /\ fileFrames' = fileFrames
    <2>1. CASE Player!Tick
      BY <2>1 DEF Player!Tick, Player!TickStopped, Player!TickWaiting, Player!TickCommands,
                  Player!file
    <2>2. CASE Player!InTick
      BY <2>2 DEF Player!InTick, Player!DoWait, Player!DoEnd, Player!DoLoop, Player!DoRegWrite,
                  Player!DoDpcmPlay, Player!DoDpcmStop, Player!DoDpcmRaw, Player!DoNoteOn,
                  Player!DoNoteOff, Player!DoParam, Player!DoUnknown, Player!CutOff,
                  Player!Command, Player!file
    <2> QED
      BY <1>1, <2>1, <2>2
  <1> QED
    BY <1>2, TickFacts DEF Loaded

\* What is shown of each step of a tick.
Right == PipeInv' /\ (Plays \/ heard' = heard)

LEMMA WaitingIsRight ==
  ASSUME PipeInv, Tick, Player!Tick, ~inTick, wait_frames # 0
  PROVE  Right
  <1>0. PICK B : DecodesTo(FullSchedule, stream, B, Total + 1, 0) /\ AtRest(B)
    BY TickFacts DEF PipeInv, PlayInv
  <1>1. Player!TickWaiting
    BY <1>0 DEF Player!Tick, Player!TickStopped, Player!TickCommands, AtRest
  <1>2. /\ wait_frames \in Nat /\ wait_frames' = wait_frames - 1 /\ wait_frames > 0
        /\ frames_played' = frames_played + 1 /\ ret' = TRUE /\ pc' = pc /\ playing' = playing
        /\ inTick' = inTick /\ out' = << >> /\ playing /\ now = << >> /\ ~inTick /\ pc \in Nat
        /\ frames_played = Len(heard)
    BY <1>0, <1>1, TickFacts
       DEF Player!TickWaiting, Player!Writes, AtRest, PipeInv, PlayInv
  <1>3. <<pc, Len(heard) + 1 + wait_frames, 0>> \in B
    BY <1>0 DEF AtRest
  <1>4. Len(heard) + 1 + wait_frames <= Total + 1
    <2>1. Len(heard) + 1 + wait_frames \in Nat /\ 0 \in Nat /\ pc \in Nat
      BY <1>2, TickFacts
    <2>2. Len(heard) + 1 + wait_frames <= Len(FullSchedule) + 1
      BY <1>0, <1>3, <2>1 DEF DecodesTo, Decodes
    <2> QED
      BY <2>2, TickFacts
  <1>5. FullSchedule[Len(heard) + 1] = << >>
    <2>1. Len(heard) + 1 \in (Len(heard) + 1)..(Len(heard) + wait_frames)
      BY <1>2, TickFacts
    <2> QED
      BY <1>0, <2>1 DEF AtRest
  <1>6. Plays
    <2>1. heard' = Append(heard, now \o out') /\ now \o out' = << >>
      BY <1>2, TickFacts
    <2> QED
      BY <1>2, <1>4, <1>5, <2>1, TickFacts DEF Plays
  <1>7. /\ heard' \in Seq(Seq(RegisterWrite)) /\ Len(heard') = Len(heard) + 1
        /\ Len(heard') <= Total' /\ \A i \in 1..Len(heard') : heard'[i] = FullSchedule'[i]
    BY <1>6, TickFacts, PrefixGrows
  <1>8. stage' = "playing" /\ now' = << >>
    BY <1>2, TickFacts
  <1>9. AtRest(B)'
    <2>1. Len(heard') + 1 + wait_frames' = Len(heard) + 1 + wait_frames
          /\ Len(heard') + wait_frames' = Len(heard) + wait_frames
      BY <1>2, <1>7, TickFacts
    <2>2. \A g \in (Len(heard') + 1)..(Len(heard') + wait_frames') : FullSchedule'[g] = << >>
      <3>1. \A g \in (Len(heard) + 1)..(Len(heard) + wait_frames) : FullSchedule[g] = << >>
        BY <1>0 DEF AtRest
      <3> QED
        BY <1>2, <1>7, <2>1, <3>1, TickFacts
    <2> QED
      BY <1>2, <1>3, <1>8, <2>1, <2>2 DEF AtRest
  <1>10. DecodesTo(FullSchedule, stream, B, Total + 1, 0)'
    BY <1>0, TickFacts
  <1>11. pc' \in Nat /\ wait_frames' \in Nat /\ frames_played' = Len(heard')
    BY <1>2, <1>7
  <1>12. PlayInv'
    BY <1>2, <1>7, <1>8, <1>9, <1>10, <1>11, TickFacts, DataStays DEF PlayInv, PipeInv
  <1> QED
    BY <1>6, <1>12, TickFacts DEF Right, PipeInv

LEMMA EnterIsRight ==
  ASSUME PipeInv, Tick, Player!Tick, ~inTick, wait_frames = 0
  PROVE  Right
  <1>0. PICK B : DecodesTo(FullSchedule, stream, B, Total + 1, 0) /\ AtRest(B)
    BY TickFacts DEF PipeInv, PlayInv
  <1>1. Player!TickCommands
    BY <1>0 DEF Player!Tick, Player!TickStopped, Player!TickWaiting, AtRest
  <1>2. /\ wait_frames' = 0 /\ inTick' = TRUE /\ pc' = pc /\ playing' = playing
        /\ frames_played' = frames_played /\ out' = << >> /\ now = << >> /\ playing
        /\ frames_played = Len(heard) /\ pc \in Nat
    BY <1>0, <1>1, TickFacts
       DEF Player!TickCommands, Player!cursor, Player!Writes, AtRest, PipeInv, PlayInv
  <1>3. heard' = heard /\ now' = << >> /\ stage' = "playing"
    BY <1>2, TickFacts
  <1>4. <<pc, Len(heard) + 1, 0>> \in B
    <2>1. Len(heard) + 1 + wait_frames = Len(heard) + 1
      BY TickFacts
    <2> QED
      BY <1>0, <2>1 DEF AtRest
  <1>5. SubSeq(FullSchedule[Len(heard) + 1], 1, 0) = << >>
    OBVIOUS
  <1>6. InFrame(B)'
    BY <1>2, <1>3, <1>4, <1>5, TickFacts DEF InFrame
  <1>7. DecodesTo(FullSchedule, stream, B, Total + 1, 0)'
    BY <1>0, TickFacts
  <1>8. PlayInv'
    BY <1>2, <1>3, <1>6, <1>7, TickFacts, DataStays DEF PlayInv, PipeInv
  <1> QED
    BY <1>3, <1>8, TickFacts DEF Right, PipeInv
LEMMA CutIsRight ==
  ASSUME PipeInv, Tick, inTick, ~playing
  PROVE  Right
  <1>0. CutShort /\ pc \in Nat /\ wait_frames \in Nat
    BY TickFacts DEF PipeInv, PlayInv, InFrame
  <1>1. Player!CutOff
    <2>1. Player!InTick
      BY TickFacts DEF Player!Tick, Player!TickStopped, Player!TickWaiting, Player!TickCommands
    <2> QED
      BY <2>1 DEF Player!InTick, Player!Fetch, Player!DoWait, Player!DoEnd, Player!DoLoop,
                  Player!DoRegWrite, Player!DoDpcmPlay, Player!DoDpcmStop, Player!DoDpcmRaw,
                  Player!DoNoteOn, Player!DoNoteOff, Player!DoParam, Player!DoUnknown
  <1>2. /\ inTick' = FALSE /\ ret' = playing /\ pc' = pc /\ wait_frames' = wait_frames
        /\ playing' = playing
    BY <1>1 DEF Player!CutOff, Player!Return, Player!cursor
  <1>3. heard' = heard /\ stage' = "ended"
    BY <1>2, TickFacts
  <1>4. ~(Len(stream') < FieldMod)
    BY <1>0, TickFacts DEF CutShort
  <1>5. PlayInv'
    BY <1>0, <1>2, <1>3, <1>4, TickFacts, DataStays DEF PlayInv, PipeInv
  <1> QED
    BY <1>3, <1>5, TickFacts DEF Right, PipeInv

LEMMA EndIsRight ==
  ASSUME PipeInv, Tick, inTick, playing, Player!DoEnd,
         Len(stream) < FieldMod => Len(heard) = Total /\ now = << >>
  PROVE  Right
  <1>0. pc \in Nat /\ wait_frames \in Nat /\ frames_played = Len(heard)
    BY TickFacts DEF PipeInv, PlayInv
  <1>1. /\ inTick' = FALSE /\ ret' = FALSE /\ playing' = FALSE /\ out' = << >>
        /\ wait_frames' = wait_frames /\ frames_played' = frames_played /\ pc' \in {pc, pc + 1}
    BY DEF Player!DoEnd, Player!Return, Player!SamePace, Player!Writes
  <1>2. heard' = heard /\ stage' = "ended" /\ now' = now \o << >> /\ pc' \in Nat
    BY <1>0, <1>1, TickFacts
  <1>3. Len(stream') < FieldMod => Len(heard') = Total' /\ now' = << >> /\ frames_played' = Total'
    BY <1>0, <1>1, <1>2, TickFacts
  <1>4. PlayInv'
    BY <1>0, <1>1, <1>2, <1>3, TickFacts, DataStays DEF PlayInv, PipeInv
  <1> QED
    BY <1>2, <1>4, TickFacts DEF Right, PipeInv

LEMMA WaitIsRight ==
  ASSUME PipeInv, Tick, inTick, playing, Player!DoWait,
         NEW B, DecodesTo(FullSchedule, stream, B, Total + 1, 0), InFrame(B),
         NEW n \in Nat \ {0}, n = WaitFrames(Player!Cmd), pc < Player!data_size,
         Player!data_size \in Nat,
         Len(heard) + 1 + n <= Total + 1, now = FullSchedule[Len(heard) + 1],
         \A g \in (Len(heard) + 1 + 1)..(Len(heard) + 1 + n - 1) : FullSchedule[g] = << >>,
         <<pc + 1, Len(heard) + 1 + n, 0>> \in B
  PROVE  Right
  <1>0. pc \in Nat /\ frames_played = Len(heard)
    BY TickFacts DEF PipeInv, PlayInv
  <1>1. /\ inTick' = FALSE /\ ret' = TRUE /\ out' = << >> /\ wait_frames' = n - 1
        /\ frames_played' = frames_played + 1 /\ pc' = pc + 1 /\ playing' = TRUE
    <2>1. /\ inTick' = FALSE /\ ret' = TRUE /\ out' = << >> /\ wait_frames' = n - 1
          /\ frames_played' = frames_played + 1 /\ Player!Consume(0)
      BY DEF Player!DoWait, Player!Return, Player!Writes, Player!WaitFrames, WaitFrames
    <2>2. pc + 0 < Player!data_size /\ pc + 0 + 1 = pc + 1
      BY <1>0
    <2> QED
      BY <2>1, <2>2 DEF Player!Consume
  <1>2. now \o << >> = now
    <2>1. now \in Seq(RegisterWrite)
      <3>1. Len(heard) + 1 \in 1..Len(FullSchedule)
        BY TickFacts
      <3> QED
        BY <3>1, TickFacts
    <2> QED
      BY <2>1
  <1>3. Plays
    <2>1. Len(heard) \in Nat /\ Total \in Nat
      BY TickFacts
    <2>2. Len(heard) < Total
      BY <2>1
    <2>3. heard' = Append(heard, now \o out')
      BY <1>1, TickFacts
    <2> QED
      BY <1>1, <1>2, <2>2, <2>3 DEF Plays
  <1>4. /\ heard' \in Seq(Seq(RegisterWrite)) /\ Len(heard') = Len(heard) + 1
        /\ Len(heard') <= Total' /\ \A i \in 1..Len(heard') : heard'[i] = FullSchedule'[i]
    BY <1>3, TickFacts, PrefixGrows
  <1>5. stage' = "playing" /\ now' = << >>
    BY <1>1, TickFacts
  <1>6. AtRest(B)'
    <2>1. /\ Len(heard') + 1 + wait_frames' = Len(heard) + 1 + n
          /\ Len(heard') + wait_frames' = Len(heard) + 1 + n - 1
          /\ Len(heard') + 1 = Len(heard) + 1 + 1
      BY <1>1, <1>4, TickFacts
    <2>2. \A g \in (Len(heard') + 1)..(Len(heard') + wait_frames') : FullSchedule'[g] = << >>
      BY <2>1, TickFacts
    <2> QED
      BY <1>1, <1>5, <2>1, <2>2 DEF AtRest
  <1>7. DecodesTo(FullSchedule, stream, B, Total + 1, 0)'
    BY TickFacts
  <1>8. pc' \in Nat /\ wait_frames' \in Nat /\ frames_played' = Len(heard')
    BY <1>0, <1>1, <1>4
  <1>9. PlayInv'
    BY <1>1, <1>4, <1>5, <1>6, <1>7, <1>8, TickFacts, DataStays DEF PlayInv, PipeInv
  <1> QED
    BY <1>3, <1>9, TickFacts DEF Right, PipeInv

LEMMA OneMore ==
  ASSUME NEW S, NEW q \in Seq(S), NEW w \in Nat, w < Len(q)
  PROVE  SubSeq(q, 1, w) \o <<q[w + 1]>> = SubSeq(q, 1, w + 1)
  <1>1. w + 1 \in 1..Len(q) /\ q[w + 1] \in S
    OBVIOUS
  <1>2. SubSeq(q, 1, w) \o <<q[w + 1]>> = Append(SubSeq(q, 1, w), q[w + 1])
    BY <1>1
  <1>3. SubSeq(q, 1, w + 1) = Append(SubSeq(q, 1, w), q[w + 1])
    BY <1>1
  <1> QED
    BY <1>2, <1>3

LEMMA WriteIsRight ==
  ASSUME PipeInv, Tick, inTick, playing, Player!DoRegWrite,
         NEW B, DecodesTo(FullSchedule, stream, B, Total + 1, 0), InFrame(B),
         NEW w \in Nat, Len(heard) < Total, w < Len(FullSchedule[Len(heard) + 1]),
         now = SubSeq(FullSchedule[Len(heard) + 1], 1, w),
         NEW d \in Nat, Player!data_size = d, pc < d,
         pc + 1 < d => FullSchedule[Len(heard) + 1][w + 1] =
                         <<RegOffset(Player!Cmd), Player!Arg(1)>>,
         Len(stream) < FieldMod => pc + 1 < d,
         <<pc + 2, Len(heard) + 1, w + 1>> \in B
  PROVE  Right
  <1>0. pc \in Nat /\ frames_played = Len(heard) /\ wait_frames = 0
    BY TickFacts DEF PipeInv, PlayInv, InFrame
  <1>1. /\ inTick' = inTick /\ wait_frames' = wait_frames /\ frames_played' = frames_played
        /\ out' = << <<RegOffset(Player!Cmd), Player!Arg(1)>> >>
        /\ pc' = IF pc + 1 < d THEN pc + 1 + 1 ELSE d
        /\ playing' = (pc + 1 < d)
    BY DEF Player!DoRegWrite, Player!Command, Player!Consume, Player!Writes, Player!Continue,
           Player!SamePace, Player!RegOffset, RegOffset
  <1>2. heard' = heard /\ stage' = "playing" /\ now' = now \o out'
    BY <1>1, TickFacts
  <1>3. DecodesTo(FullSchedule, stream, B, Total + 1, 0)'
    BY TickFacts
  <1>4. pc' \in Nat /\ playing' \in BOOLEAN
    BY <1>0, <1>1
  <1>5. (InFrame(B) \/ CutShort)'
    <2>1. CASE pc + 1 < d
      <3> DEFINE q == FullSchedule[Len(heard) + 1]
      <3>1. q \in Seq(RegisterWrite)
        <4>1. Len(heard) + 1 \in 1..Len(FullSchedule)
          BY TickFacts
        <4> QED
          BY <4>1, TickFacts
      <3>2. out' = <<q[w + 1]>>
        BY <1>1, <2>1
      <3>3. SubSeq(q, 1, w) \o <<q[w + 1]>> = SubSeq(q, 1, w + 1)
        BY <3>1, OneMore
      <3>4. now' = SubSeq(q, 1, w + 1)
        BY <1>2, <3>2, <3>3
      <3>5. pc' = pc + 2 /\ playing' = TRUE
        <4>1. pc' = pc + 2
          BY <1>0, <1>1, <2>1
        <4>2. playing' = TRUE
          BY <1>1, <2>1, Zenon
        <4> QED
          BY <4>1, <4>2
      <3>6. w + 1 \in Nat
        OBVIOUS
      <3> QED
        BY <1>0, <1>1, <1>2, <3>4, <3>5, <3>6, TickFacts DEF InFrame
    <2>2. CASE ~(pc + 1 < d)
      BY <1>1, <2>2, TickFacts DEF CutShort
    <2> QED
      BY <2>1, <2>2
  <1>6. wait_frames' \in Nat /\ frames_played' = Len(heard')
    BY <1>0, <1>1, <1>2
  <1>7. inTick' = TRUE
    BY <1>1 DEF PipeInv, PlayInv
  <1>8. PlayInv'
    BY <1>2, <1>3, <1>4, <1>5, <1>6, <1>7, TickFacts, DataStays DEF PlayInv, PipeInv
  <1> QED
    BY <1>2, <1>8, TickFacts DEF Right, PipeInv
LEMMA CommandIsRight ==
  ASSUME PipeInv, Tick, inTick, playing
  PROVE  Right
  <1>0. pc \in Nat /\ wait_frames \in Nat /\ stream \in Seq(Byte) /\ Len(stream) \in Nat
    BY DEF PipeInv, PlayInv, ConvInv
  <1>1. PICK B : DecodesTo(FullSchedule, stream, B, Total + 1, 0) /\ InFrame(B)
    BY TickFacts DEF PipeInv, PlayInv, CutShort
  <1>2. PICK d \in 0..Len(stream) : /\ data = SubSeq(stream, 1, d)
                                    /\ Len(stream) < FieldMod => d = Len(stream)
    BY TickFacts DEF Loaded
  <1>3. /\ Player!data_size = d
        /\ pc < d => Player!Cmd = stream[pc + 1]
        /\ ~(pc < d) => Player!Cmd = CmdEnd
        /\ pc + 1 < d => Player!Arg(1) = stream[pc + 2]
    BY <1>0, <1>2, PlayerReads
  <1>4. Player!InTick
    BY TickFacts DEF Player!Tick, Player!TickStopped, Player!TickWaiting, Player!TickCommands
  <1>5. PICK w \in Nat : /\ <<pc, Len(heard) + 1, w>> \in B
                         /\ now = IF Len(heard) < Total
                                  THEN SubSeq(FullSchedule[Len(heard) + 1], 1, w) ELSE << >>
    BY <1>1 DEF InFrame
  <1> DEFINE f == Len(heard) + 1
  <1>6. f \in Nat /\ Len(heard) \in Nat /\ Len(heard) <= Total /\ Total \in Nat
    BY TickFacts DEF PipeInv, PlayInv
  <1>7. /\ pc <= Len(stream) /\ f <= Len(FullSchedule) + 1
        /\ pc < Len(stream) => Leads(FullSchedule, stream, B, pc, f, w)
        /\ pc = Len(stream) => f = Total + 1
    BY <1>0, <1>1, <1>5, <1>6 DEF DecodesTo, Decodes
  <1>8. CASE ~(pc < d)
    <2>1. Player!Cmd = CmdEnd /\ Player!Cmd \in Byte
      BY <1>3, <1>8 DEF CmdEnd, Byte
    <2>2. Player!DoEnd
      BY <1>4, <2>1, OnlyThatCommand
    <2>3. Len(stream) < FieldMod => Len(heard) = Total /\ now = << >>
      <3> SUFFICES ASSUME Len(stream) < FieldMod PROVE Len(heard) = Total /\ now = << >>
        OBVIOUS
      <3>1. pc = Len(stream)
        BY <1>0, <1>2, <1>7, <1>8
      <3> QED
        BY <1>5, <1>6, <1>7, <3>1
    <2> QED
      BY <2>2, <2>3, EndIsRight
  <1>9. CASE pc < d
    <2> DEFINE c == stream[pc + 1]
    <2>0. c \in Byte /\ Player!Cmd = c /\ Leads(FullSchedule, stream, B, pc, f, w)
      <3>1. pc + 1 \in 1..Len(stream) /\ pc < Len(stream)
        BY <1>0, <1>2, <1>9
      <3> QED
        BY <1>0, <1>3, <1>7, <1>9, <3>1
    <2>1. CASE /\ IsRegWrite(c) /\ pc + 2 <= Len(stream)
               /\ f <= Len(FullSchedule) /\ w < Len(FullSchedule[f])
               /\ FullSchedule[f][w + 1] = <<RegOffset(c), stream[pc + 2]>>
               /\ <<pc + 2, f, w + 1>> \in B
      <3>1. Player!DoRegWrite
        BY <1>4, <2>0, <2>1, OnlyThatCommand
      <3>2. Len(heard) < Total /\ Len(stream) < FieldMod => pc + 1 < d
        BY <1>0, <1>2, <2>1
      <3>3. Len(heard) < Total
        BY <1>6, <2>1, TickFacts
      <3>4. now = SubSeq(FullSchedule[Len(heard) + 1], 1, w)
        BY <1>5, <3>3
      <3>5. pc + 1 < d => FullSchedule[Len(heard) + 1][w + 1] =
                            <<RegOffset(Player!Cmd), Player!Arg(1)>>
        BY <1>3, <2>0, <2>1
      <3>6. d \in Nat
        BY <1>2
      <3> QED
        BY <1>1, <1>3, <1>9, <2>1, <3>1, <3>2, <3>3, <3>4, <3>5, <3>6, WriteIsRight
    <2>2. CASE LET n == WaitFrames(c) IN
               /\ IsWait(c) /\ n \in Nat \ {0}
               /\ f + n <= Len(FullSchedule) + 1 /\ w = Len(FullSchedule[f])
               /\ \A g \in (f + 1)..(f + n - 1) : FullSchedule[g] = << >>
               /\ <<pc + 1, f + n, 0>> \in B
      <3> DEFINE n == WaitFrames(c)
      <3>1. Player!DoWait
        BY <1>4, <2>0, <2>2, OnlyThatCommand
      <3>2. n \in Nat \ {0} /\ n = WaitFrames(Player!Cmd) /\ Len(heard) + 1 + n <= Total + 1
        BY <2>0, <2>2, TickFacts
      <3>3. Len(heard) < Total
        <4> HIDE DEF n
        <4> QED
          BY <1>6, <3>2
      <3>4. now = FullSchedule[Len(heard) + 1]
        <4> DEFINE q == FullSchedule[Len(heard) + 1]
        <4>1. q \in Seq(RegisterWrite)
          <5>1. Len(heard) + 1 \in 1..Len(FullSchedule)
            BY <1>6, <3>3, TickFacts
          <5> QED
            BY <5>1, TickFacts
        <4>2. now = SubSeq(q, 1, w) /\ w = Len(q)
          BY <1>5, <2>2, <3>3
        <4> HIDE DEF q
        <4>3. SubSeq(q, 1, Len(q)) = q
          BY <4>1
        <4> QED
          BY <4>2, <4>3 DEF q
      <3>5. Player!data_size \in Nat /\ pc < Player!data_size
        BY <1>2, <1>3, <1>9
      <3>6. /\ \A g \in (Len(heard) + 1 + 1)..(Len(heard) + 1 + n - 1) : FullSchedule[g] = << >>
            /\ <<pc + 1, Len(heard) + 1 + n, 0>> \in B
        BY <2>2
      <3> HIDE DEF n
      <3> QED
        BY <1>1, <3>1, <3>2, <3>4, <3>5, <3>6, WaitIsRight
    <2>3. CASE c = CmdEnd /\ f = Len(FullSchedule) + 1
      <3>1. Player!DoEnd
        BY <1>4, <2>0, <2>3, OnlyThatCommand
      <3>2. Len(heard) = Total
        BY <1>6, <2>3, TickFacts
      <3>3. now = << >>
        BY <1>5, <1>6, <3>2
      <3> QED
        BY <3>1, <3>2, <3>3, EndIsRight
    <2> QED
      BY <2>0, <2>1, <2>2, <2>3 DEF Leads
  <1> QED
    BY <1>8, <1>9

LEMMA TickIsRight == ASSUME PipeInv, Tick PROVE Right
  <1>1. playing \in BOOLEAN /\ inTick \in BOOLEAN
    BY DEF PipeInv, PlayInv
  <1>2. CASE inTick
    BY <1>2, CutIsRight, CommandIsRight
  <1>3. CASE ~inTick
    <2>1. Player!Tick
      BY <1>3, TickFacts
         DEF Player!InTick, Player!Fetch, Player!DoWait, Player!DoEnd, Player!DoLoop,
             Player!DoRegWrite, Player!DoDpcmPlay, Player!DoDpcmStop, Player!DoDpcmRaw,
             Player!DoNoteOn, Player!DoNoteOff, Player!DoParam, Player!DoUnknown, Player!CutOff
    <2> QED
      BY <1>3, <2>1, WaitingIsRight, EnterIsRight
  <1> QED
    BY <1>2, <1>3

LEMMA StutterKeeps == ASSUME PipeInv, UNCHANGED vars PROVE PipeInv'
  <1>1. /\ UNCHANGED convVars /\ stage' = stage /\ heard' = heard /\ now' = now
        /\ hasData' = hasData /\ data' = data /\ fileFrames' = fileFrames /\ pc' = pc
        /\ wait_frames' = wait_frames /\ playing' = playing /\ inTick' = inTick
        /\ frames_played' = frames_played
    BY DEF vars, playerVars
  <1>2. /\ ConvInv' /\ CountInv' /\ (Whole' <=> Whole)
        /\ FullSchedule' = FullSchedule /\ Total' = Total /\ stream' = stream
        /\ phase' = phase /\ frame_count' = frame_count
    BY <1>1, ConvertedStays
  <1>3. Loaded' <=> Loaded
    BY <1>1, <1>2 DEF Loaded
  <1>4. \A B : (AtRest(B)' <=> AtRest(B)) /\ (InFrame(B)' <=> InFrame(B))
    BY <1>1, <1>2 DEF AtRest, InFrame
  <1>5. CutShort' <=> CutShort
    BY <1>1, <1>2 DEF CutShort
  <1>6. PlayInv'
    BY <1>1, <1>2, <1>3, <1>4, <1>5 DEF PipeInv, PlayInv
  <1> QED
    BY <1>2, <1>6 DEF PipeInv

-----------------------------------------------------------------------------
\* The inductive invariant: the stream so far decodes to the frames converted so far,
\* and the player stands at a place of it that agrees with what it has played.
THEOREM PipelineInvariant == Spec => []PipeInv
  <1>1. Init => PipeInv
    BY PipeInitInv
  <1>2. PipeInv /\ [Next]_vars => PipeInv'
    BY ConvertKeeps, LoadKeeps, ResetKeeps, TickIsRight, StutterKeeps DEF Next, Right
  <1> QED
    BY <1>1, <1>2, PTL DEF Spec

\* Each step of the tool chain is a step of the promise: EmitInit ends the recording and
\* fixes the schedule, and a tick that returns true plays its next frame.
LEMMA StepReplays ==
  ASSUME PipeInv, [Next]_vars
  PROVE  [Replay!Next]_(Replay!replayVars)
  <1>0. LogTyped /\ Total \in Nat
    BY TotalIsNat DEF PipeInv, ConvInv, LogInv
  <1>1. CASE UNCHANGED convVars /\ heard' = heard
    <2>1. Schedule' = Schedule
      BY <1>1, ConvertedStays, ScheduleIs, ScheduleIsNext
    <2> QED
      BY <1>1, <2>1 DEF Replay!replayVars
  <1>2. CASE Convert
    <2>1. heard' = heard /\ ConvNext /\ heard = << >>
      BY <1>2 DEF Convert, PipeInv, PlayInv
    <2>2. CASE phase = "record"
      <3>1. Schedule = << >>
        BY <2>2, ScheduleIs
      <3>2. PipeInv'
        BY <1>2, ConvertKeeps
      <3>3. Schedule' \in Seq(Seq(RegisterWrite))
        <4>1. (LogTyped => Schedule \in Seq(Seq(RegisterWrite)))'
          BY ScheduleType, PTL
        <4> QED
          BY <3>2, <4>1 DEF PipeInv, ConvInv, LogInv
      <3>4. Replay!Capture
        BY <2>1, <3>1, <3>3 DEF Replay!Capture, RegisterWrite
      <3> QED
        BY <3>4 DEF Replay!Next
    <2>3. CASE phase # "record"
      <3>1. log' = log /\ phase' # "record"
        BY <2>1, <2>3 DEF ConvNext, Record, EmitInit, EmitFrame, EmitEnd, WriteFile
      <3>2. Schedule' = Schedule
        BY <2>3, <3>1, SameLog, ScheduleIs, ScheduleIsNext
      <3> QED
        BY <2>1, <3>2 DEF Replay!replayVars
    <2> QED
      BY <2>2, <2>3
  <1>3. CASE Tick
    <2>1. UNCHANGED convVars /\ (Plays \/ heard' = heard)
      BY <1>3, TickIsRight DEF Tick, Right
    <2>2. CASE Plays
      <3>1. phase # "record"
        BY <1>3, TickFacts
      <3>2. Schedule = FullSchedule /\ Schedule' = FullSchedule
        BY <1>3, <3>1, TickFacts, ScheduleIs, ScheduleIsNext
      <3>3. Len(FullSchedule) = Total
        BY <1>0, FullScheduleType
      <3>4. Replay!Play
        BY <2>2, <3>2, <3>3 DEF Replay!Play, Plays
      <3> QED
        BY <3>4 DEF Replay!Next
    <2> QED
      BY <1>1, <2>1, <2>2
  <1> QED
    BY <1>1, <1>2, <1>3 DEF Next, Load, Reset, vars

\* For every log that a recording can make, every limit of a WAIT and every width of the
\* header's fields: the tool chain is a FrameReplay of the schedule written from the log.
THEOREM TuneIsReplayed == Spec => ReplaysTheTune
  <1>1. Init => Replay!Init
    <2> SUFFICES ASSUME Init PROVE Replay!Init
      OBVIOUS
    <2>1. Schedule = << >> /\ heard = << >>
      BY ScheduleIs DEF Init, ConvInit
    <2> QED
      BY <2>1 DEF Replay!Init
  <1>2. PipeInv /\ [Next]_vars => [Replay!Next]_(Replay!replayVars)
    BY StepReplays
  <1> QED
    BY <1>1, <1>2, PipelineInvariant, PTL DEF Spec, ReplaysTheTune, Replay!Spec

\* A file that the disk cut short is refused, as long as the stream's length fits the
\* header's field: a size that has wrapped may pass fmsq_player_load's comparison.
THEOREM ShortFileIsRefused == Spec => [](Len(stream) < FieldMod => ShortFileIsSilent)
  <1>1. PipeInv => (Len(stream) < FieldMod => ShortFileIsSilent)
    BY DEF PipeInv, PlayInv, Loaded, ShortFileIsSilent
  <1> QED
    BY <1>1, PipelineInvariant, PTL

\* The player stops only after the last frame, and its ticks are then the frames that the
\* header counts.
THEOREM PlayedToTheEnd == Spec => []WholeTuneIsHeard
  <1>1. PipeInv => WholeTuneIsHeard
    <2> SUFFICES ASSUME PipeInv, stage = "ended", hasData, Len(stream) < FieldMod
                 PROVE  /\ heard = Schedule /\ now = << >>
                        /\ Len(Schedule) < FieldMod => frames_played = fileFrames
      BY DEF WholeTuneIsHeard
    <2>1. /\ Loaded /\ Len(heard) = Total /\ now = << >> /\ frames_played = Total
          /\ phase = "done" /\ heard \in Seq(Seq(RegisterWrite))
          /\ \A i \in 1..Len(heard) : heard[i] = FullSchedule[i]
      BY DEF PipeInv, PlayInv
    <2>2. FullSchedule \in Seq(Seq(RegisterWrite)) /\ Len(FullSchedule) = Total
      BY FullScheduleType DEF PipeInv, ConvInv, LogInv
    <2>3. heard = FullSchedule
      BY <2>1, <2>2
    <2>4. Schedule = FullSchedule
      BY <2>1, ScheduleIs
    <2>5. Total < FieldMod => frame_count = Total
      BY <2>1 DEF PipeInv, CountInv, FramesDone
    <2> QED
      BY <2>1, <2>2, <2>3, <2>4, <2>5 DEF Loaded
  <1> QED
    BY <1>1, PipelineInvariant, PTL
=============================================================================
