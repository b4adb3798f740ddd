---------------------------- MODULE CmuFifoProofs ----------------------------
(***************************************************************************)
(* The FIFO of the crypto wrapper is a queue, for every depth, every ratio *)
(* of the widths and either direction.                                     *)
(*                                                                         *)
(* The flags are right only because the pointer of the wider side stands   *)
(* at the head of a line: WideAligned, which no single comparison of the   *)
(* code tests, is what makes the invariant inductive.                      *)
(***************************************************************************)
EXTENDS CmuFifo, SequenceTheorems, TLAPS

WidePtr == IF PushWide THEN pushPtr.ptr ELSE popPtr.ptr

WideAligned == \E l \in 0 .. Depth - 1 : WidePtr = l * Ratio

FifoIInv == FifoTypeOK /\ entries_in_use \in 0 .. Room /\ WideAligned

-----------------------------------------------------------------------------
\* The sizes are what they should be.
LEMMA Sizes ==
  /\ Room \in Nat /\ Room >= Ratio /\ Ratio \in Nat /\ Ratio >= 2
  /\ PushSize \in Nat /\ PopSize \in Nat /\ Room >= 2
BY FifoAssumption, SMT DEF Room, PushSize, PopSize

\* The head of a line has the whole line before it, and the next head or the
\* end of the memory behind it.
LEMMA HeadOfLine ==
  ASSUME NEW l \in 0 .. Depth - 1
  PROVE  /\ l * Ratio \in 0 .. Room - Ratio
         /\ (l + 1) * Ratio = l * Ratio + Ratio
         /\ l = Depth - 1 => l * Ratio + Ratio = Room
         /\ l < Depth - 1 => l * Ratio + Ratio < Room
<1>1. l * Ratio + Ratio = (l + 1) * Ratio
  BY FifoAssumption, SMT
<1>2. l * Ratio >= 0
  BY FifoAssumption, SMT
<1>3. CASE l = Depth - 1
  BY <1>1, <1>2, <1>3, FifoAssumption, SMT DEF Room
<1>4. CASE l < Depth - 1
  <2>1. Depth * Ratio - (l + 1) * Ratio = (Depth - l - 1) * Ratio
    BY FifoAssumption, SMT
  <2>2. (Depth - l - 1) * Ratio >= Ratio
    BY <1>4, FifoAssumption, SMT
  <2>3. (l + 1) * Ratio <= Depth * Ratio - Ratio
    BY <2>1, <2>2, FifoAssumption, SMT
  <2> QED
    BY <1>1, <1>2, <1>4, <2>3, FifoAssumption, SMT DEF Room
<1> QED
  BY <1>3, <1>4, FifoAssumption

\* Heads of different lines are at least a line apart.
LEMMA LinesApart ==
  ASSUME NEW a \in Int, NEW b \in Int, a < b
  PROVE  a * Ratio + Ratio <= b * Ratio
<1>1. (b - a - 1) * Ratio >= 0
  BY FifoAssumption, SMT
<1>2. (b - a - 1) * Ratio = b * Ratio - a * Ratio - Ratio
  BY FifoAssumption, SMT
<1> QED
  BY <1>1, <1>2, FifoAssumption, SMT

\* A word is in the line of a head when it is less than a line away from it.
LEMMA InLine ==
  ASSUME NEW l \in 0 .. Depth - 1, NEW x \in 0 .. Room - 1
  PROVE  (x \div Ratio = (l * Ratio) \div Ratio) <=> (l * Ratio <= x /\ x < l * Ratio + Ratio)
<1> DEFINE d == x \div Ratio
<1>1. (l * Ratio) \div Ratio = l
  BY FifoAssumption, SMT
<1>2. d \in Int /\ d * Ratio <= x /\ x < d * Ratio + Ratio
  BY FifoAssumption, Sizes, SMT
<1>3. d < l => d * Ratio + Ratio <= l * Ratio
  BY <1>2, LinesApart, FifoAssumption
<1>4. l < d => l * Ratio + Ratio <= d * Ratio
  BY <1>2, LinesApart, FifoAssumption
<1> HIDE DEF d
<1>5. d = l <=> (l * Ratio <= x /\ x < l * Ratio + Ratio)
  BY <1>2, <1>3, <1>4, FifoAssumption, Sizes, SMT
<1> QED
  BY <1>1, <1>5 DEF d

-----------------------------------------------------------------------------
\* What the invariant says of the pointer of the wider side: the line it stands
\* at is whole, and the other pointer is in this line or is not.
LEMMA WideLine ==
  ASSUME FifoIInv
  PROVE  /\ PushWide =>
              /\ pushPtr.ptr + Ratio <= Room
              /\ line_match <=> (pushPtr.ptr <= popPtr.ptr /\ popPtr.ptr < pushPtr.ptr + Ratio)
         /\ ~PushWide =>
              /\ popPtr.ptr + Ratio <= Room
              /\ line_match <=> (popPtr.ptr <= pushPtr.ptr /\ pushPtr.ptr < popPtr.ptr + Ratio)
<1>1. PICK l \in 0 .. Depth - 1 : WidePtr = l * Ratio
  BY DEF FifoIInv, WideAligned
<1>2. pushPtr.ptr \in 0 .. Room - 1 /\ popPtr.ptr \in 0 .. Room - 1
  BY DEF FifoIInv, FifoTypeOK
<1>3. l * Ratio + Ratio <= Room
  BY HeadOfLine, Sizes, SMT
<1>4. CASE PushWide
  <2>1. pushPtr.ptr = l * Ratio
    BY <1>1, <1>4 DEF WidePtr
  <2>2. line_match <=> (popPtr.ptr \div Ratio = (l * Ratio) \div Ratio)
    BY <2>1 DEF line_match, Line
  <2> QED
    BY <1>2, <1>3, <1>4, <2>1, <2>2, InLine
<1>5. CASE ~PushWide
  <2>1. popPtr.ptr = l * Ratio
    BY <1>1, <1>5 DEF WidePtr
  <2>2. line_match <=> (pushPtr.ptr \div Ratio = (l * Ratio) \div Ratio)
    BY <2>1 DEF line_match, Line
  <2> QED
    BY <1>2, <1>3, <1>5, <2>1, <2>2, InLine
<1> QED
  BY <1>4, <1>5

\* The flags count words.
LEMMA FlagsCount ==
  ASSUME FifoIInv
  PROVE  /\ push_rdy <=> entries_in_use + PushSize <= Room
         /\ pop_rdy <=> entries_in_use >= PopSize
         /\ empty <=> entries_in_use = 0
         /\ entries_in_use \in 0 .. Room
         /\ pushPtr.ptr + PushSize <= Room /\ popPtr.ptr + PopSize <= Room
<1>1. /\ pushPtr \in [wrap : BOOLEAN, ptr : 0 .. Room - 1]
      /\ popPtr \in [wrap : BOOLEAN, ptr : 0 .. Room - 1]
      /\ entries_in_use \in 0 .. Room
  BY DEF FifoIInv, FifoTypeOK
<1>2. entries_in_use = (IF wrap_match THEN 0 ELSE Room) + pushPtr.ptr - popPtr.ptr
  BY DEF entries_in_use
<1>3. PushSize = (IF PushWide THEN Ratio ELSE 1) /\ PopSize = (IF PushWide THEN 1 ELSE Ratio)
  BY DEF PushSize, PopSize
<1>4. CASE wrap_match
  BY <1>1, <1>2, <1>3, <1>4, WideLine, Sizes, FifoAssumption, SMT
     DEF push_rdy, pop_rdy, full, empty, almost_full, almost_empty, ptr_match
<1>5. CASE ~wrap_match
  BY <1>1, <1>2, <1>3, <1>5, WideLine, Sizes, FifoAssumption, SMT
     DEF push_rdy, pop_rdy, full, empty, almost_full, almost_empty, ptr_match
<1> QED
  BY <1>4, <1>5

-----------------------------------------------------------------------------
\* The invariant holds after reset.
LEMMA FifoInitInv == FifoInit => FifoIInv
<1> SUFFICES ASSUME FifoInit PROVE FifoIInv
  OBVIOUS
<1>1. FifoTypeOK
  BY Sizes, FifoAssumption, SMT DEF FifoInit, FifoTypeOK, Start
<1>2. entries_in_use \in 0 .. Room
  BY Sizes, SMT DEF FifoInit, Start, entries_in_use, wrap_match
<1>3. WideAligned
  <2>1. WidePtr = 0 * Ratio /\ 0 \in 0 .. Depth - 1
    BY FifoAssumption, SMT DEF FifoInit, Start, WidePtr
  <2> QED
    BY <2>1 DEF WideAligned
<1> QED
  BY <1>1, <1>2, <1>3 DEF FifoIInv

\* A pointer that moves by no more than the memory stays a pointer.
LEMMA AdvanceType ==
  ASSUME NEW p \in [wrap : BOOLEAN, ptr : 0 .. Room - 1], NEW n \in 0 .. Room
  PROVE  /\ Advance(p, n) \in [wrap : BOOLEAN, ptr : 0 .. Room - 1]
         /\ p.ptr + n < Room => Advance(p, n).wrap = p.wrap /\ Advance(p, n).ptr = p.ptr + n
         /\ p.ptr + n >= Room => Advance(p, n).wrap = ~p.wrap /\ Advance(p, n).ptr = p.ptr + n - Room
BY Sizes, SMT DEF Advance

\* The head of a line moves to the head of the next.
LEMMA AdvanceLine ==
  ASSUME NEW p \in [wrap : BOOLEAN, ptr : 0 .. Room - 1],
         NEW l \in 0 .. Depth - 1, p.ptr = l * Ratio
  PROVE  \E k \in 0 .. Depth - 1 : Advance(p, Ratio).ptr = k * Ratio
<1>1. Ratio \in 0 .. Room
  BY Sizes, SMT
<1> DEFINE a == Advance(p, Ratio)
<1>a. /\ p.ptr + Ratio < Room => a.ptr = p.ptr + Ratio
      /\ p.ptr + Ratio >= Room => a.ptr = p.ptr + Ratio - Room
  BY <1>1, AdvanceType
<1>b. /\ (l + 1) * Ratio = p.ptr + Ratio
      /\ l = Depth - 1 => p.ptr + Ratio = Room
      /\ l < Depth - 1 => p.ptr + Ratio < Room
  BY HeadOfLine
<1> HIDE DEF a
<1>2. CASE l = Depth - 1
  <2>1. a.ptr = 0
    BY <1>2, <1>a, <1>b, Sizes, SMT
  <2>2. 0 * Ratio = 0 /\ 0 \in 0 .. Depth - 1
    BY FifoAssumption, SMT
  <2> QED
    BY <2>1, <2>2 DEF a
<1>3. CASE l < Depth - 1
  <2>1. a.ptr = (l + 1) * Ratio
    BY <1>3, <1>a, <1>b
  <2>2. l + 1 \in 0 .. Depth - 1
    BY <1>3, FifoAssumption, SMT
  <2> QED
    BY <2>1, <2>2 DEF a
<1> QED
  BY <1>2, <1>3, FifoAssumption, SMT

\* What comes and what goes is counted, around the end of the memory too.
LEMMA CountMoves ==
  ASSUME pushPtr \in [wrap : BOOLEAN, ptr : 0 .. Room - 1],
         popPtr \in [wrap : BOOLEAN, ptr : 0 .. Room - 1],
         NEW in \in 0 .. Room, NEW out \in 0 .. Room,
         entries_in_use \in 0 .. Room, entries_in_use + in <= Room, entries_in_use >= out,
         pushPtr' = Advance(pushPtr, in), popPtr' = Advance(popPtr, out)
  PROVE  entries_in_use' = entries_in_use + in - out
<1>1. /\ pushPtr.ptr + in < Room => pushPtr'.wrap = pushPtr.wrap /\ pushPtr'.ptr = pushPtr.ptr + in
      /\ pushPtr.ptr + in >= Room => pushPtr'.wrap = ~pushPtr.wrap /\ pushPtr'.ptr = pushPtr.ptr + in - Room
  BY AdvanceType
<1>2. /\ popPtr.ptr + out < Room => popPtr'.wrap = popPtr.wrap /\ popPtr'.ptr = popPtr.ptr + out
      /\ popPtr.ptr + out >= Room => popPtr'.wrap = ~popPtr.wrap /\ popPtr'.ptr = popPtr.ptr + out - Room
  BY AdvanceType
<1>3. entries_in_use = (IF wrap_match THEN 0 ELSE Room) + pushPtr.ptr - popPtr.ptr
  BY DEF entries_in_use
<1>4. entries_in_use' = (IF wrap_match' THEN 0 ELSE Room) + pushPtr'.ptr - popPtr'.ptr
  BY DEF entries_in_use
<1>5. /\ wrap_match <=> pushPtr.wrap = popPtr.wrap
      /\ wrap_match' <=> pushPtr'.wrap = popPtr'.wrap
      /\ pushPtr.wrap \in BOOLEAN /\ popPtr.wrap \in BOOLEAN
  BY DEF wrap_match
<1>6. CASE pushPtr.ptr + in < Room /\ popPtr.ptr + out < Room
  BY <1>1, <1>2, <1>3, <1>4, <1>5, <1>6, Sizes, SMT
<1>7. CASE pushPtr.ptr + in >= Room /\ popPtr.ptr + out < Room
  <2>1. wrap_match' <=> ~wrap_match
    BY <1>1, <1>2, <1>5, <1>7
  <2> QED
    BY <1>1, <1>2, <1>3, <1>4, <1>7, <2>1, Sizes, SMT
<1>8. CASE pushPtr.ptr + in < Room /\ popPtr.ptr + out >= Room
  <2>1. wrap_match' <=> ~wrap_match
    BY <1>1, <1>2, <1>5, <1>8
  <2> QED
    BY <1>1, <1>2, <1>3, <1>4, <1>8, <2>1, Sizes, SMT
<1>9. CASE pushPtr.ptr + in >= Room /\ popPtr.ptr + out >= Room
  <2>1. wrap_match' <=> wrap_match
    BY <1>1, <1>2, <1>5, <1>9
  <2> QED
    BY <1>1, <1>2, <1>3, <1>4, <1>9, <2>1, Sizes, SMT
<1> QED
  BY <1>6, <1>7, <1>8, <1>9, Sizes, SMT

\* Every cycle keeps the invariant.
LEMMA FifoStepInv == FifoIInv /\ [FifoNext]_fifoVars => FifoIInv'
<1> SUFFICES ASSUME FifoIInv, [FifoNext]_fifoVars PROVE FifoIInv'
  OBVIOUS
<1>0. CASE UNCHANGED fifoVars
  BY <1>0, Zenon DEF fifoVars, FifoIInv, FifoTypeOK, entries_in_use, wrap_match, WideAligned, WidePtr
<1>1. ASSUME NEW clear \in BOOLEAN, NEW push_en \in BOOLEAN, NEW pop_en \in BOOLEAN,
             NEW push_data \in [1 .. PushSize -> Data],
             FifoCycle(clear, push_en, pop_en, push_data)
      PROVE  FifoIInv'
  <2>1. CASE clear
    <3>1. FifoInit'
      BY <1>1, <2>1 DEF FifoCycle, FifoInit
    <3>2. FifoTypeOK'
      BY <3>1, Sizes, FifoAssumption, SMT DEF FifoInit, FifoTypeOK, Start
    <3>3. (entries_in_use \in 0 .. Room)'
      BY <3>1, Sizes, SMT DEF FifoInit, Start, entries_in_use, wrap_match
    <3>4. WidePtr' = 0 * Ratio /\ 0 \in 0 .. Depth - 1
      BY <3>1, FifoAssumption, SMT DEF FifoInit, Start, WidePtr
    <3> QED
      BY <3>2, <3>3, <3>4 DEF FifoIInv, WideAligned
  <2>2. CASE ~clear
    <3> DEFINE in  == IF push_en /\ push_rdy THEN PushSize ELSE 0
               out == IF pop_en /\ pop_rdy THEN PopSize ELSE 0
    <3>1. /\ pushPtr \in [wrap : BOOLEAN, ptr : 0 .. Room - 1]
          /\ popPtr \in [wrap : BOOLEAN, ptr : 0 .. Room - 1]
          /\ memory \in [0 .. Room - 1 -> Data]
      BY DEF FifoIInv, FifoTypeOK
    <3>2. /\ in \in 0 .. Room /\ entries_in_use + in <= Room
          /\ out \in 0 .. Room /\ entries_in_use >= out
          /\ entries_in_use \in 0 .. Room
      BY FlagsCount, Sizes, SMT
    <3>3. pushPtr' = Advance(pushPtr, in) /\ popPtr' = Advance(popPtr, out)
      BY <1>1, <2>2, <3>1, Sizes, SMT DEF FifoCycle, Advance
    <3>4. memory' \in [0 .. Room - 1 -> Data]
      <4>1. CASE ~(push_en /\ push_rdy)
        BY <1>1, <2>2, <3>1, <4>1 DEF FifoCycle
      <4>2. CASE push_en /\ push_rdy
        <5>1. memory' = [j \in 0 .. Room - 1 |->
                           IF j \in pushPtr.ptr .. pushPtr.ptr + PushSize - 1
                           THEN push_data[j - pushPtr.ptr + 1] ELSE memory[j]]
          BY <1>1, <2>2, <4>2 DEF FifoCycle
        <5>2. ASSUME NEW j \in 0 .. Room - 1, j \in pushPtr.ptr .. pushPtr.ptr + PushSize - 1
              PROVE  push_data[j - pushPtr.ptr + 1] \in Data
          <6>1. j - pushPtr.ptr + 1 \in 1 .. PushSize
            BY <3>1, <5>2, Sizes, SMT
          <6> QED
            BY <6>1
        <5> QED
          BY <3>1, <5>1, <5>2
      <4> QED
        BY <4>1, <4>2
    <3>5. FifoTypeOK'
      BY <3>1, <3>2, <3>3, <3>4, AdvanceType DEF FifoTypeOK
    <3>6. entries_in_use' = entries_in_use + in - out
      BY <3>1, <3>2, <3>3, CountMoves
    <3>b. (entries_in_use \in 0 .. Room)'
      BY <3>2, <3>6, Sizes, SMT
    <3>7. WideAligned'
      <4>1. PICK l \in 0 .. Depth - 1 : WidePtr = l * Ratio
        BY DEF FifoIInv, WideAligned
      <4>2. CASE PushWide
        <5>1. pushPtr.ptr = l * Ratio /\ WidePtr' = pushPtr'.ptr
          BY <4>1, <4>2 DEF WidePtr
        <5>2. pushPtr' = pushPtr \/ pushPtr' = Advance(pushPtr, Ratio)
          BY <1>1, <2>2, <4>2 DEF FifoCycle, PushSize
        <5> QED
          BY <3>1, <5>1, <5>2, AdvanceLine DEF WideAligned
      <4>3. CASE ~PushWide
        <5>1. popPtr.ptr = l * Ratio /\ WidePtr' = popPtr'.ptr
          BY <4>1, <4>3 DEF WidePtr
        <5>2. popPtr' = popPtr \/ popPtr' = Advance(popPtr, Ratio)
          BY <1>1, <2>2, <4>3 DEF FifoCycle, PopSize
        <5> QED
          BY <3>1, <5>1, <5>2, AdvanceLine DEF WideAligned
      <4> QED
        BY <4>2, <4>3
    <3> QED
      BY <3>5, <3>b, <3>7 DEF FifoIInv
  <2> QED
    BY <2>1, <2>2
<1> QED
  BY <1>0, <1>1 DEF FifoNext

-----------------------------------------------------------------------------
\* The words of the queue are in the memory, from the pop pointer on.
LEMMA ContentIsASeq ==
  ASSUME FifoIInv
  PROVE  /\ Content \in Seq(Data) /\ Len(Content) = entries_in_use
         /\ \A i \in 1 .. entries_in_use : Content[i] = memory[Slot(popPtr.ptr + i - 1)]
<1>1. entries_in_use \in Nat /\ entries_in_use <= Room /\ popPtr.ptr \in 0 .. Room - 1
      /\ memory \in [0 .. Room - 1 -> Data]
  BY Sizes, SMT DEF FifoIInv, FifoTypeOK
<1>2. \A i \in 1 .. entries_in_use : Slot(popPtr.ptr + i - 1) \in 0 .. Room - 1
  BY <1>1, Sizes, SMT DEF Slot
<1>3. Content \in [1 .. entries_in_use -> Data]
  BY <1>1, <1>2 DEF Content
<1>4. Content \in Seq(Data) /\ Len(Content) = entries_in_use
  BY <1>1, <1>3, SMT
<1> QED
  BY <1>4 DEF Content

\* The push pointer is where the queue ends.
LEMMA QueueEnd ==
  ASSUME FifoIInv
  PROVE  pushPtr.ptr = Slot(popPtr.ptr + entries_in_use)
<1>1. /\ pushPtr.ptr \in 0 .. Room - 1 /\ popPtr.ptr \in 0 .. Room - 1
      /\ entries_in_use \in 0 .. Room
      /\ entries_in_use = (IF wrap_match THEN 0 ELSE Room) + pushPtr.ptr - popPtr.ptr
  BY DEF FifoIInv, FifoTypeOK, entries_in_use
<1> QED
  BY <1>1, Sizes, SMT DEF Slot

\* The flags and the data of the FIFO are those of the queue.
LEMMA FlagsFollow == FifoIInv => FlagsAgree
<1> SUFFICES ASSUME FifoIInv PROVE FlagsAgree
  OBVIOUS
<1>1. /\ push_rdy <=> Queue!PushRdy
      /\ pop_rdy <=> Queue!PopRdy
      /\ empty <=> Queue!Empty
  BY FlagsCount, ContentIsASeq DEF Queue!PushRdy, Queue!PopRdy, Queue!Empty
<1>2. ASSUME pop_rdy PROVE pop_data = Queue!PopData
  <2>1. /\ PopSize \in Nat /\ PopSize <= entries_in_use /\ entries_in_use \in 0 .. Room
        /\ popPtr.ptr + PopSize <= Room /\ popPtr.ptr \in 0 .. Room - 1
        /\ memory \in [0 .. Room - 1 -> Data]
    BY <1>2, FlagsCount, Sizes, SMT DEF FifoIInv, FifoTypeOK
  <2>2. \A i \in 1 .. PopSize : Content[i] = memory[popPtr.ptr + i - 1] /\ Content[i] \in Data
    <3> SUFFICES ASSUME NEW i \in 1 .. PopSize
                 PROVE  Content[i] = memory[popPtr.ptr + i - 1] /\ Content[i] \in Data
      OBVIOUS
    <3>1. Slot(popPtr.ptr + i - 1) = popPtr.ptr + i - 1 /\ popPtr.ptr + i - 1 \in 0 .. Room - 1
          /\ i \in 1 .. entries_in_use
      BY <2>1, Sizes, SMT DEF Slot
    <3> QED
      BY <2>1, <3>1, ContentIsASeq
  <2>3. /\ SubSeq(Content, 1, PopSize) \in Seq(Data)
        /\ Len(SubSeq(Content, 1, PopSize)) = PopSize
        /\ \A i \in 1 .. PopSize : SubSeq(Content, 1, PopSize)[i] = Content[i]
    <3>1. /\ SubSeq(Content, 1, PopSize) \in Seq(Data)
          /\ Len(SubSeq(Content, 1, PopSize)) = IF 1 <= PopSize THEN PopSize - 1 + 1 ELSE 0
          /\ \A i \in 1 .. PopSize - 1 + 1 : SubSeq(Content, 1, PopSize)[i] = Content[1 + i - 1]
      BY <2>1, <2>2, SubSeqProperties
    <3> QED
      BY <2>1, <3>1, SMT
  <2>4. pop_data \in [1 .. PopSize -> Data]
    BY <2>1, <2>2 DEF pop_data
  <2>5. pop_data \in Seq(Data) /\ Len(pop_data) = PopSize
    BY <2>1, <2>4, SMT
  <2>6. \A i \in 1 .. PopSize : pop_data[i] = SubSeq(Content, 1, PopSize)[i]
    BY <2>2, <2>3 DEF pop_data
  <2> QED
    BY <2>3, <2>5, <2>6, SeqEqual DEF Queue!PopData
<1> QED
  BY <1>1, <1>2 DEF FlagsAgree

-----------------------------------------------------------------------------
\* No slot of the queue is among the slots behind it that are still free.
LEMMA SlotsApart ==
  ASSUME NEW p \in 0 .. Room - 1, NEW n \in 0 .. Room, NEW in \in 0 .. Room, n + in <= Room,
         NEW k \in 0 .. n - 1
  PROVE  Slot(p + k) \notin Slot(p + n) .. Slot(p + n) + in - 1
<1>1. CASE p + n < Room
  BY <1>1, Sizes, SMT DEF Slot
<1>2. CASE p + n >= Room
  BY <1>2, Sizes, SMT DEF Slot
<1> QED
  BY <1>1, <1>2, Sizes, SMT

\* A cycle that does not clear does to the queue what the queue says: the words
\* that stay keep their order, the new ones come behind them.
LEMMA CycleMoves ==
  ASSUME FifoIInv, FifoIInv',
         NEW in \in 0 .. Room, NEW out \in 0 .. Room, NEW d \in Seq(Data), Len(d) = in,
         entries_in_use + in <= Room, entries_in_use >= out,
         pushPtr.ptr + in <= Room, popPtr.ptr + out <= Room,
         pushPtr' = Advance(pushPtr, in), popPtr' = Advance(popPtr, out),
         memory' = [j \in 0 .. Room - 1 |->
                      IF j \in pushPtr.ptr .. pushPtr.ptr + in - 1
                      THEN d[j - pushPtr.ptr + 1] ELSE memory[j]]
  PROVE  Content' = SubSeq(Content, out + 1, Len(Content)) \o d
<1> DEFINE n == entries_in_use
           S == SubSeq(Content, out + 1, n)
<1>1. /\ pushPtr \in [wrap : BOOLEAN, ptr : 0 .. Room - 1]
      /\ popPtr \in [wrap : BOOLEAN, ptr : 0 .. Room - 1]
      /\ memory \in [0 .. Room - 1 -> Data] /\ n \in 0 .. Room
  BY DEF FifoIInv, FifoTypeOK
<1>2. n' = n + in - out
  BY <1>1, CountMoves
<1>3. Content \in Seq(Data) /\ Len(Content) = n
      /\ \A i \in 1 .. n : Content[i] = memory[Slot(popPtr.ptr + i - 1)]
  BY ContentIsASeq
<1>4. Content' \in Seq(Data) /\ Len(Content') = n + in - out
      /\ \A i \in 1 .. n + in - out : Content'[i] = memory'[Slot(popPtr'.ptr + i - 1)]
  <2>1. Content' \in Seq(Data) /\ Len(Content') = n'
        /\ \A i \in 1 .. n' : Content'[i] = memory'[Slot(popPtr'.ptr + i - 1)]
    <3>1. entries_in_use' \in Nat /\ entries_in_use' <= Room /\ popPtr'.ptr \in 0 .. Room - 1
          /\ memory' \in [0 .. Room - 1 -> Data]
      BY Sizes, SMT DEF FifoIInv, FifoTypeOK
    <3>2. \A i \in 1 .. entries_in_use' : Slot(popPtr'.ptr + i - 1) \in 0 .. Room - 1
      BY <3>1, Sizes, SMT DEF Slot
    <3>3. Content' = [i \in 1 .. entries_in_use' |-> memory'[Slot(popPtr'.ptr + i - 1)]]
      BY DEF Content, Slot
    <3>4. Content' \in [1 .. entries_in_use' -> Data]
      BY <3>1, <3>2, <3>3
    <3>5. Content' \in Seq(Data) /\ Len(Content') = entries_in_use'
      BY <3>1, <3>4, SMT
    <3> QED
      BY <3>3, <3>5
  <2> QED
    BY <1>2, <2>1
<1>5. S \in Seq(Data) /\ Len(S) = n - out /\ \A i \in 1 .. n - out : S[i] = Content[i + out]
  <2>1. \A i \in out + 1 .. n : Content[i] \in Data
    BY <1>1, <1>3, LenProperties, SMT
  <2>2. /\ S \in Seq(Data)
        /\ Len(S) = IF out + 1 <= n THEN n - (out + 1) + 1 ELSE 0
        /\ \A i \in 1 .. n - (out + 1) + 1 : S[i] = Content[out + 1 + i - 1]
    BY <1>1, <2>1, SubSeqProperties, SMT
  <2> QED
    BY <1>1, <2>2, SMT
<1> HIDE DEF n, S
<1>6. /\ S \o d \in Seq(Data) /\ Len(S \o d) = n - out + in
      /\ \A i \in 1 .. n - out + in : (S \o d)[i] = IF i <= n - out THEN S[i] ELSE d[i - (n - out)]
  <2>1. /\ S \o d \in Seq(Data) /\ Len(S \o d) = Len(S) + Len(d)
        /\ \A i \in 1 .. Len(S) + Len(d) :
             (S \o d)[i] = IF i <= Len(S) THEN S[i] ELSE d[i - Len(S)]
    BY <1>5, ConcatProperties
  <2> QED
    BY <1>5, <2>1
<1>7. ASSUME NEW i \in 1 .. n + in - out
      PROVE  Slot(popPtr'.ptr + i - 1) = Slot(popPtr.ptr + out + i - 1)
  <2>1. /\ popPtr.ptr + out < Room => popPtr'.ptr = popPtr.ptr + out
        /\ popPtr.ptr + out >= Room => popPtr'.ptr = popPtr.ptr + out - Room
    BY <1>1, AdvanceType
  <2> QED
    BY <1>1, <1>7, <2>1, Sizes, SMT DEF Slot, n
<1>8. pushPtr.ptr = Slot(popPtr.ptr + n)
  BY QueueEnd DEF n
<1>9. ASSUME NEW i \in 1 .. n + in - out
      PROVE  Content'[i] = (S \o d)[i]
  <2>1. Content'[i] = memory'[Slot(popPtr.ptr + out + i - 1)]
    BY <1>4, <1>7
  <2>2. Slot(popPtr.ptr + out + i - 1) \in 0 .. Room - 1
    BY <1>1, Sizes, SMT DEF Slot, n
  <2>3. CASE i <= n - out
    <3>1. Slot(popPtr.ptr + out + i - 1) \notin pushPtr.ptr .. pushPtr.ptr + in - 1
      <4>1. out + i - 1 \in 0 .. n - 1 /\ n + in <= Room
        BY <1>1, <2>3, SMT DEF n
      <4>2. Slot(popPtr.ptr + (out + i - 1)) \notin pushPtr.ptr .. pushPtr.ptr + in - 1
        BY <1>1, <1>8, <4>1, SlotsApart
      <4>3. popPtr.ptr + (out + i - 1) = popPtr.ptr + out + i - 1
        BY <1>1, SMT
      <4> QED
        BY <4>2, <4>3
    <3>2. Content'[i] = memory[Slot(popPtr.ptr + out + i - 1)]
      BY <2>1, <2>2, <3>1
    <3>3. i + out \in 1 .. n /\ popPtr.ptr + out + i - 1 = popPtr.ptr + (i + out) - 1
      BY <1>1, <2>3, SMT
    <3>4. Content[i + out] = memory[Slot(popPtr.ptr + out + i - 1)]
      BY <1>3, <3>3
    <3>5. (S \o d)[i] = S[i] /\ S[i] = Content[i + out]
      BY <1>1, <1>5, <1>6, <2>3, SMT
    <3> QED
      BY <3>2, <3>4, <3>5
  <2>4. CASE i > n - out
    <3>1. Slot(popPtr.ptr + out + i - 1) = pushPtr.ptr + (i - (n - out)) - 1
      BY <1>1, <1>8, <2>4, Sizes, SMT DEF Slot, n
    <3>2. Slot(popPtr.ptr + out + i - 1) \in pushPtr.ptr .. pushPtr.ptr + in - 1
      BY <1>1, <2>4, <3>1, Sizes, SMT
    <3>3. Slot(popPtr.ptr + out + i - 1) - pushPtr.ptr + 1 = i - (n - out)
      BY <1>1, <3>1, SMT
    <3>4. Content'[i] = d[i - (n - out)]
      BY <2>1, <2>2, <3>2, <3>3
    <3>5. (S \o d)[i] = d[i - (n - out)]
      BY <1>1, <1>6, <2>4, SMT
    <3> QED
      BY <3>4, <3>5
  <2>5. i <= n - out \/ i > n - out
    BY <1>1, SMT
  <2> QED
    BY <2>3, <2>4, <2>5
<1>10. Content' = S \o d
  <2>1. Len(Content') = Len(S \o d) /\ \A i \in 1 .. Len(Content') : Content'[i] = (S \o d)[i]
    BY <1>1, <1>4, <1>6, <1>9, SMT
  <2> QED
    BY <1>4, <1>6, <2>1, SeqEqual
<1> QED
  BY <1>3, <1>10 DEF S, n

\* Every cycle of the FIFO is a cycle of the queue.
LEMMA CycleRefines ==
  ASSUME FifoIInv, FifoIInv', FifoNext
  PROVE  Queue!QueueNext
<1>1. PICK clear \in BOOLEAN, push_en \in BOOLEAN, pop_en \in BOOLEAN,
           push_data \in [1 .. PushSize -> Data] : FifoCycle(clear, push_en, pop_en, push_data)
  BY DEF FifoNext
<1> DEFINE d   == IF push_en /\ push_rdy THEN push_data ELSE << >>
           in  == IF push_en /\ push_rdy THEN PushSize ELSE 0
           out == IF pop_en /\ pop_rdy THEN PopSize ELSE 0
<1>2. push_data \in Seq(Data) /\ Len(push_data) = PushSize
  BY Sizes, SMT
<1>3. CASE clear
  <2>1. Content' = << >>
    <3>a. pushPtr' = Start /\ popPtr' = Start
      BY <1>1, <1>3 DEF FifoCycle
    <3>1. entries_in_use' = 0
      BY <3>a, Sizes, SMT DEF Start, entries_in_use, wrap_match
    <3>2. Content' = [i \in 1 .. entries_in_use' |-> memory'[Slot(popPtr'.ptr + i - 1)]]
      BY DEF Content, Slot
    <3> QED
      BY <3>1, <3>2, SMT
  <2>2. Queue!QueueCycle(clear, push_en, pop_en, push_data)
    BY <1>3, <2>1 DEF Queue!QueueCycle
  <2> QED
    BY <2>2 DEF Queue!QueueNext
<1>4. CASE ~clear
  <2>1. /\ pushPtr \in [wrap : BOOLEAN, ptr : 0 .. Room - 1]
        /\ popPtr \in [wrap : BOOLEAN, ptr : 0 .. Room - 1]
        /\ memory \in [0 .. Room - 1 -> Data] /\ entries_in_use \in 0 .. Room
    BY DEF FifoIInv, FifoTypeOK
  <2>2. /\ in \in 0 .. Room /\ out \in 0 .. Room
        /\ entries_in_use + in <= Room /\ entries_in_use >= out
        /\ pushPtr.ptr + in <= Room /\ popPtr.ptr + out <= Room
    BY <2>1, FlagsCount, Sizes, SMT
  <2>3. d \in Seq(Data) /\ Len(d) = in
    BY <1>2, EmptySeq
  <2>4. pushPtr' = Advance(pushPtr, in) /\ popPtr' = Advance(popPtr, out)
    BY <1>1, <1>4, <2>1, Sizes, SMT DEF FifoCycle, Advance
  <2>5. memory' = [j \in 0 .. Room - 1 |->
                     IF j \in pushPtr.ptr .. pushPtr.ptr + in - 1
                     THEN d[j - pushPtr.ptr + 1] ELSE memory[j]]
    <3>1. CASE push_en /\ push_rdy
      BY <1>1, <1>4, <3>1 DEF FifoCycle
    <3>2. CASE ~(push_en /\ push_rdy)
      <4>1. pushPtr.ptr .. pushPtr.ptr + in - 1 = {}
        BY <2>1, <3>2, SMT
      <4>2. memory' = memory
        BY <1>1, <1>4, <3>2 DEF FifoCycle
      <4> QED
        BY <2>1, <4>1, <4>2
    <3> QED
      BY <3>1, <3>2
  <2> HIDE DEF in, out, d
  <2>6. Content' = SubSeq(Content, out + 1, Len(Content)) \o d
    BY <2>2, <2>3, <2>4, <2>5, CycleMoves
  <2>7. (pop_rdy <=> Queue!PopRdy) /\ (push_rdy <=> Queue!PushRdy)
    BY FlagsFollow DEF FlagsAgree
  <2>8. Queue!QueueCycle(clear, push_en, pop_en, push_data)
    BY <1>4, <2>6, <2>7 DEF Queue!QueueCycle, Queue!After, in, out, d
  <2> QED
    BY <2>8 DEF Queue!QueueNext
<1> QED
  BY <1>3, <1>4

-----------------------------------------------------------------------------
\* The inductive invariant holds in every reachable state.
THEOREM FifoInvariant == FifoSpec => []FifoIInv
  BY FifoInitInv, FifoStepInv, PTL DEF FifoSpec

\* Both pointers stay within the memory, for every depth and ratio.
THEOREM FifoTypesHold == FifoSpec => []FifoTypeOK
<1>1. FifoIInv => FifoTypeOK
  BY DEF FifoIInv
<1> QED
  BY <1>1, FifoInvariant, PTL

\* push_rdy, pop_rdy, empty and pop_data are those of a queue, for every depth
\* and ratio and in both directions.
THEOREM FlagsHold == FifoSpec => []FlagsAgree
  BY FlagsFollow, FifoInvariant, PTL

\* sinc_cmu_fifo implements the bounded queue: words leave in the order they
\* came, and none is lost or overwritten.
THEOREM QueueImplemented == FifoSpec => ImplementsQueue
<1>1. FifoInit => Queue!QueueInit
  <2> SUFFICES ASSUME FifoInit PROVE Content = << >>
    BY DEF Queue!QueueInit
  <2>1. entries_in_use = 0
    BY Sizes, SMT DEF FifoInit, Start, entries_in_use, wrap_match
  <2> QED
    BY <2>1, SMT DEF Content
<1>2. FifoIInv /\ FifoIInv' /\ [FifoNext]_fifoVars => [Queue!QueueNext]_Content
  <2> SUFFICES ASSUME FifoIInv, FifoIInv', [FifoNext]_fifoVars
               PROVE  [Queue!QueueNext]_Content
    OBVIOUS
  <2>1. CASE FifoNext
    BY <2>1, CycleRefines
  <2>2. CASE UNCHANGED fifoVars
    BY <2>2 DEF fifoVars, Content, entries_in_use, wrap_match, Slot
  <2> QED
    BY <2>1, <2>2
<1> QED
  BY <1>1, <1>2, FifoInvariant, PTL DEF FifoSpec, ImplementsQueue, Queue!QueueSpec
=============================================================================
