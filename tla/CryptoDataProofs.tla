-------------------------- MODULE CryptoDataProofs --------------------------
(***************************************************************************)
(* The words of ENCR_BLOCK and FETCH_BLOCK, for blocks of every length,    *)
(* lines of every width and every number of blocks: none is lost, none     *)
(* overtakes another, and no command leaves any for the next.              *)
(*                                                                         *)
(* The argument is a ledger.  The words of a block are to come, in the     *)
(* input buffer, in the AES core, in the output buffer or gone.            *)
(* While it moves (Moving), the words that left the input buffer (Taken)   *)
(* are those that went into the output buffer (Out) and those of the AES   *)
(* blocks inside the core, and each buffer holds the words its place in    *)
(* this sum says (InFlight, AesBlocksInOrder).  aes_block_cnt is the same  *)
(* sum in AES blocks; it is 0 before the first and after the last, and the *)
(* two are told apart by what is still in the input buffer.  The rest is   *)
(* what holds when no block moves: the tag of one is on its way (Between), *)
(* or there is no command (IdleClean).                                     *)
(***************************************************************************)
EXTENDS CryptoData, SequenceTheorems, TLAPS

\* The words of n AES blocks.
Lines(n) == n * Ratio

\* A block is between its source and its destination: it is read, or read and
\* the data FSM has not gone back to AES_IDLE.
Moving == cmd.st # "IDLE" /\ (cmd.sub = 1 \/ (cmd.sub = 2 /\ aes.st # "AES_IDLE"))

\* The words of the block that arrived, that left the input buffer and that
\* reached the output buffer.
Got   == IF cmd.sub = 1 THEN rd.cnt ELSE BlockWords
Taken == Got - Len(ib)
Out   == wr.cnt + Len(ob)

\* gp_aes_clr, and what the tag leaves behind.
CoreIdle == ~core.run /\ core.blocks = << >> /\ ~core.tag

\* What the core and the buffers hold, as sequences.
AesBlock == [line : Seq(Words), last : BOOLEAN]
SeqsOK ==
  /\ ib \in Seq(Words) /\ ob \in Seq(Words) /\ core.blocks \in Seq(AesBlock)
  /\ DOMAIN core = {"run", "blocks", "tag"}

\* The words of q are those of the block from the n-th on.
Holds(q, kind, n) == \A i \in 1 .. Len(q) : q[i] = Word(kind, n + i)

\* The AES blocks bs are the next ones after o words, and the last of the cache
\* block carries the flag.
InOrder(bs, o) ==
  \A j \in 1 .. Len(bs) :
    /\ Len(bs[j].line) = Ratio
    /\ Holds(bs[j].line, "IN", o + Lines(j - 1))
    /\ bs[j].last <=> o + Lines(j) = BlockWords

\* Without a command there is nothing anywhere.
IdleClean == cmd.st = "IDLE" => ib = << >> /\ ob = << >> /\ aes.st = "AES_IDLE" /\ CoreIdle

\* What a sub-state says of the transfers.
SubStates ==
  /\ cmd.st = "ENCR" => cmd.sub \in 1 .. 3
  /\ bypass /\ cmd.st # "IDLE" => cmd.sub # 3
  /\ cmd.st = "FETCH" => ~wr.exec
  /\ cmd.st # "IDLE" /\ ~rd.exec => rd.cnt = 0
  /\ cmd.st = "ENCR" /\ ~wr.exec => wr.cnt = 0
  /\ cmd.st # "IDLE" /\ ~(Sub(1) \/ ReadsTag) => ~rd.exec
  /\ cmd.st = "FETCH" /\ cmd.sub \in {3, 4} => wr.cnt = 0

\* Where the data FSM can be, and what it says of the core and of
\* first_aes_block_flag.
AesPlace ==
  cmd.st # "IDLE" =>
    /\ bypass => aes.st \in {"AES_IDLE", "AES_BYPASS"} /\ CoreIdle
    /\ ~bypass => aes.st # "AES_BYPASS"
    /\ cmd.sub = 1 => aes.st # "AES_TAG_OUT"
    /\ aes.st \in {"AES_IDLE", "AES_IN", "AES_TAG_OUT"} => ~aes.first
    /\ core.tag <=> aes.st = "AES_TAG_OUT"
    /\ aes.st = "AES_IDLE" => core.blocks = << >>

\* The ledger of the words of a block.
InFlight ==
  Moving =>
    /\ Taken >= 0 /\ Holds(ib, "IN", Taken)
    /\ Out + Lines(Len(core.blocks)) = Taken
    /\ Holds(ob, IF bypass THEN "IN" ELSE "OUT", wr.cnt)
    /\ aes.st = "AES_IDLE" => Taken = 0

\* The same in AES blocks, when they go through the core.
AesBlocksInOrder ==
  Moving /\ ~bypass =>
    /\ Taken = Lines(aes.cnt) \/ (aes.cnt = 0 /\ Taken = BlockWords)
    /\ core.tag <=> Out = BlockWords
    /\ ~core.run => Taken = 0
    /\ InOrder(core.blocks, Out)

\* Between two blocks: the tag is read, compared or written.
Between ==
  cmd.st # "IDLE" /\ ~Moving =>
    /\ core.blocks = << >>
    /\ ~bypass => aes.cnt = 0
    /\ cmd.st = "ENCR" => ib = << >> /\ ~bypass
    /\ aes.st = "AES_IDLE" => ~core.run /\ cmd.st = "ENCR"
    /\ aes.st \in {"AES_IDLE", "AES_TAG_OUT", "AES_BYPASS"}
    /\ In("ENCR", 2) => wr.cnt = BlockWords /\ Len(ob) = Ratio /\ Holds(ob, "TAG", 0)
    /\ In("ENCR", 3) => /\ Holds(ob, "TAG", wr.cnt)
                        /\ aes.st = "AES_IDLE" => Out = Ratio
                        /\ aes.st = "AES_TAG_OUT" => Out = 0
    /\ cmd.st = "FETCH" => ob = << >> /\ Holds(ib, "TAG", 0) /\ aes.st # "AES_IDLE"
    /\ ReadsTag => Len(ib) = rd.cnt
    /\ In("FETCH", 4) => Len(ib) = IF bypass THEN 0 ELSE Ratio

\* encr_block_cnt counts the blocks written, and no command for no blocks gets
\* past sub-state 1.
Counted ==
  /\ cmd.st = "ENCR" /\ encr.num = 0 => cmd.sub = 1 /\ ~rd.exec
  /\ cmd.st = "ENCR" => encr.cnt = encr.written
  /\ cmd.st = "ENCR" /\ encr.num # 0 => encr.cnt < encr.num
  /\ cmd.st # "IDLE" => encr.res = "NONE"
  /\ cmd.st = "FETCH" => encr.num = 0 /\ encr.written = 0
  /\ AllBlocksWritten

\* A line that AES_IN pops is driven into the core: it is not the first of its
\* block, or the output buffer is empty.
LinesAreDriven ==
  aes.st = "AES_IN" /\ DinRdy /\ IB!PopRdy => ~first_aes_block \/ OB!Empty

\* The inductive invariant.
DataIInv ==
  /\ DataTypeOK /\ SeqsOK /\ IdleClean /\ SubStates /\ AesPlace /\ InFlight
  /\ AesBlocksInOrder /\ Between /\ Counted

-----------------------------------------------------------------------------
\* A cache block, AES block by AES block.
LEMMA LineSizes ==
  /\ \A n \in Nat : Lines(n) \in Nat /\ Lines(n + 1) = Lines(n) + Ratio
  /\ \A n \in 0 .. AesBlocks - 1 : Lines(n) + Ratio <= BlockWords
  /\ \A n \in 0 .. AesBlocks - 2 : Lines(n) + Ratio < BlockWords
  /\ \A n \in 1 .. AesBlocks : Lines(n) >= Ratio
  /\ \A m, n \in Nat : m <= n => Lines(m) <= Lines(n)
  /\ Lines(0) = 0 /\ Lines(1) = Ratio /\ Lines(2) = 2 * Ratio /\ Lines(AesBlocks) = BlockWords
<1> USE DataAssumption
<1>1. \A n \in Nat : Lines(n) \in Nat /\ Lines(n + 1) = Lines(n) + Ratio
  BY SMT DEF Lines
<1>2. \A m, n \in Nat : m <= n => Lines(m) <= Lines(n)
  <2>1. SUFFICES ASSUME NEW m \in Nat, NEW n \in Nat, m <= n PROVE Lines(m) <= Lines(n)
    OBVIOUS
  <2>2. Lines(n) = Lines(m) + (n - m) * Ratio /\ (n - m) * Ratio >= 0
    BY <2>1, SMT DEF Lines
  <2> QED
    BY <2>2, <1>1
<1>3. Lines(0) = 0 /\ Lines(1) = Ratio /\ Lines(2) = 2 * Ratio /\ Lines(AesBlocks) = BlockWords
  BY SMT DEF Lines, BlockWords
<1>4. ASSUME NEW n \in 0 .. AesBlocks - 1 PROVE Lines(n) + Ratio <= BlockWords
  BY <1>1, <1>2, <1>3
<1>5. ASSUME NEW n \in 0 .. AesBlocks - 2 PROVE Lines(n) + Ratio < BlockWords
  <2>1. Lines(n + 2) = Lines(n) + 2 * Ratio
    BY <1>1
  <2> QED
    BY <2>1, <1>1, <1>2, <1>3
<1>6. ASSUME NEW n \in 1 .. AesBlocks PROVE Lines(n) >= Ratio
  BY <1>2, <1>3
<1> QED
  BY <1>1, <1>2, <1>3, <1>4, <1>5, <1>6

\* The sizes the leaves use, without the quantifiers.
LEMMA Sizes ==
  /\ Ratio \in Nat /\ Ratio >= 2 /\ AesBlocks \in Nat /\ AesBlocks >= 2
  /\ BlockWords \in Nat /\ BlockWords >= 2 * Ratio
  /\ Lines(0) = 0 /\ Lines(1) = Ratio /\ Lines(2) = 2 * Ratio
BY LineSizes, DataAssumption

\* A queue of which the first p words have gone, with d behind the others.
LEMMA QueueMoves ==
  ASSUME NEW S, NEW s \in Seq(S), NEW p \in 0 .. Len(s), NEW d \in Seq(S),
         NEW r, r = SubSeq(s, p + 1, Len(s)) \o d
  PROVE  /\ r \in Seq(S) /\ Len(r) = Len(s) - p + Len(d)
         /\ \A i \in 1 .. Len(s) - p : r[i] = s[p + i]
         /\ \A i \in 1 .. Len(d) : r[Len(s) - p + i] = d[i]
<1> DEFINE t == SubSeq(s, p + 1, Len(s))
<1>1. /\ t \in Seq(S) /\ Len(t) = Len(s) - p
      /\ \A i \in 1 .. Len(s) - p : t[i] = s[p + i]
  <2>1. \A i \in p + 1 .. Len(s) : s[i] \in S
    BY ElementOfSeq
  <2>2. Len(s) \in Nat
    BY LenProperties
  <2>3. /\ t \in Seq(S) /\ Len(t) = IF p + 1 <= Len(s) THEN Len(s) - (p + 1) + 1 ELSE 0
        /\ \A i \in 1 .. Len(s) - (p + 1) + 1 : t[i] = s[p + 1 + i - 1]
    BY <2>1, <2>2, SubSeqProperties
  <2> QED
    BY <2>2, <2>3
<1> HIDE DEF t
<1>2. /\ t \o d \in Seq(S) /\ Len(t \o d) = Len(t) + Len(d)
      /\ \A i \in 1 .. Len(t) + Len(d) :
           (t \o d)[i] = IF i <= Len(t) THEN t[i] ELSE d[i - Len(t)]
  BY <1>1, ConcatProperties
<1>3. Len(s) \in Nat /\ Len(d) \in Nat
  BY LenProperties
<1>4. r = t \o d
  BY DEF t
<1>5. r \in Seq(S) /\ Len(r) = Len(s) - p + Len(d)
  BY <1>1, <1>2, <1>4
<1>6. ASSUME NEW i \in 1 .. Len(s) - p PROVE r[i] = s[p + i]
  <2>1. i \in 1 .. Len(t) + Len(d) /\ i <= Len(t)
    BY <1>1, <1>3
  <2> QED
    BY <1>1, <1>2, <1>4, <2>1
<1>7. ASSUME NEW i \in 1 .. Len(d) PROVE r[Len(s) - p + i] = d[i]
  <2> DEFINE j == Len(t) + i
  <2>1. j \in 1 .. Len(t) + Len(d) /\ ~(j <= Len(t)) /\ j - Len(t) = i
    BY <1>1, <1>3
  <2> HIDE DEF j
  <2>2. r[j] = d[i]
    BY <1>2, <1>4, <2>1
  <2> QED
    BY <1>1, <2>2 DEF j
<1> QED
  BY <1>5, <1>6, <1>7

\* A queue without words is the empty one.
LEMMA Emptied ==
  ASSUME NEW S, NEW s \in Seq(S), Len(s) = 0
  PROVE  s = << >>
BY EmptySeq

\* A line leaves the input buffer: the others move up.
LEMMA IbPop ==
  ASSUME ib \in Seq(Words), IB!PopRdy, IB!QueueCycle(FALSE, FALSE, TRUE, << >>)
  PROVE  /\ ib' \in Seq(Words) /\ Len(ib) >= Ratio /\ Len(ib') = Len(ib) - Ratio
         /\ \A i \in 1 .. Len(ib') : ib'[i] = ib[Ratio + i]
<1>1. Len(ib) >= Ratio /\ ib' = SubSeq(ib, Ratio + 1, Len(ib)) \o << >>
  BY DEF IB!PopRdy, IB!QueueCycle, IB!After
<1>2. Len(ib) \in Nat /\ << >> \in Seq(Words) /\ Len(<< >>) = 0 /\ Ratio \in 0 .. Len(ib)
  BY <1>1, LenProperties, EmptySeq, Sizes
<1>3. /\ ib' \in Seq(Words) /\ Len(ib') = Len(ib) - Ratio + Len(<< >>)
      /\ \A i \in 1 .. Len(ib) - Ratio : ib'[i] = ib[Ratio + i]
  BY <1>1, <1>2, QueueMoves
<1>4. Len(ib') = Len(ib) - Ratio /\ Len(ib) >= Ratio
  BY <1>2, <1>3, Sizes
<1> QED
  BY <1>3, <1>4

\* The line at the head of the input buffer.
LEMMA IbLine ==
  ASSUME ib \in Seq(Words), IB!PopRdy
  PROVE  /\ IB!PopData \in Seq(Words) /\ Len(IB!PopData) = Ratio
         /\ \A i \in 1 .. Ratio : IB!PopData[i] = ib[i]
<1>1. Len(ib) \in Nat /\ Len(ib) >= Ratio
  BY LenProperties DEF IB!PopRdy
<1>2. \A i \in 1 .. Ratio : ib[i] \in Words
  BY <1>1, ElementOfSeq, Sizes
<1> QED
  BY <1>1, <1>2, SubSeqProperties, Sizes DEF IB!PopData

\* A cycle of the input buffer without push and pop.
LEMMA IbStay ==
  ASSUME ib \in Seq(Words), IB!QueueCycle(FALSE, FALSE, FALSE, << >>)
  PROVE  ib' = ib
<1>1. ib' = SubSeq(ib, 1, Len(ib)) \o << >>
  BY DEF IB!QueueCycle, IB!After
<1> QED
  BY <1>1, SubSeqFull, ConcatEmptySeq

\* A word enters the input buffer when there is room.
LEMMA IbPush ==
  ASSUME ib \in Seq(Words), NEW w \in Words, Len(ib) < BlockWords,
         IB!QueueCycle(FALSE, TRUE, FALSE, <<w>>)
  PROVE  /\ ib' \in Seq(Words) /\ Len(ib') = Len(ib) + 1
         /\ \A i \in 1 .. Len(ib) : ib'[i] = ib[i]
         /\ ib'[Len(ib) + 1] = w
<1>1. Len(ib) \in Nat /\ Len(ib) + 1 <= BlockWords
  BY LenProperties, Sizes
<1>2. PICK d : d = <<w>>
  OBVIOUS
<1>3. d \in Seq(Words) /\ Len(d) = 1 /\ d[1] = w
  BY <1>2
<1>4. ib' = SubSeq(ib, 1, Len(ib)) \o d
  BY <1>1, <1>2 DEF IB!QueueCycle, IB!After, IB!PushRdy
<1>5. ib' = ib \o d
  BY <1>4, SubSeqFull
<1>6. /\ ib' \in Seq(Words) /\ Len(ib') = Len(ib) + Len(d)
      /\ \A i \in 1 .. Len(ib) + Len(d) :
           ib'[i] = IF i <= Len(ib) THEN ib[i] ELSE d[i - Len(ib)]
  BY <1>3, <1>5, ConcatProperties
<1> QED
  BY <1>1, <1>3, <1>6

\* A line enters the empty output buffer.
LEMMA ObPush ==
  ASSUME ob = << >>, NEW d \in Seq(Words), Len(d) = Ratio,
         OB!QueueCycle(FALSE, TRUE, FALSE, d)
  PROVE  ob' = d
<1>1. ob \in Seq(Words) /\ Len(ob) = 0
  BY EmptySeq
<1>2. Len(ob) + Ratio <= Ratio
  BY <1>1, Sizes
<1>3. ob' = SubSeq(ob, 1, Len(ob)) \o d
  BY <1>2 DEF OB!QueueCycle, OB!After, OB!PushRdy
<1> QED
  BY <1>1, <1>3, SubSeqFull, ConcatEmptySeq

\* A word leaves the output buffer.
LEMMA ObPop ==
  ASSUME ob \in Seq(Words), OB!PopRdy, OB!QueueCycle(FALSE, FALSE, TRUE, << >>)
  PROVE  /\ ob' \in Seq(Words) /\ Len(ob) >= 1 /\ Len(ob') = Len(ob) - 1
         /\ \A i \in 1 .. Len(ob') : ob'[i] = ob[1 + i]
<1>1. Len(ob) \in Nat /\ Len(ob) >= 1
  BY LenProperties DEF OB!PopRdy
<1>2. PICK p \in 0 .. Len(ob) : p = 1
  BY <1>1
<1>3. ob' = SubSeq(ob, p + 1, Len(ob)) \o << >>
  BY <1>2 DEF OB!PopRdy, OB!QueueCycle, OB!After
<1>4. << >> \in Seq(Words) /\ Len(<< >>) = 0
  BY EmptySeq
<1>5. /\ ob' \in Seq(Words) /\ Len(ob') = Len(ob) - p + Len(<< >>)
      /\ \A i \in 1 .. Len(ob) - p : ob'[i] = ob[p + i]
  BY <1>3, <1>4, QueueMoves
<1>6. Len(ob') = Len(ob) - 1
  BY <1>1, <1>2, <1>4, <1>5
<1> QED
  BY <1>1, <1>2, <1>5, <1>6

\* A cycle of the output buffer without push and pop.
LEMMA ObStay ==
  ASSUME ob \in Seq(Words), OB!QueueCycle(FALSE, FALSE, FALSE, << >>)
  PROVE  ob' = ob
<1>1. ob' = SubSeq(ob, 1, Len(ob)) \o << >>
  BY DEF OB!QueueCycle, OB!After
<1> QED
  BY <1>1, SubSeqFull, ConcatEmptySeq

-----------------------------------------------------------------------------
(* The steps of the invariant, one lemma per action.                        *)

\* The types, field by field.
CmdFlops  == [st : {"IDLE", "ENCR", "FETCH"}, sub : 1 .. 4]
EncrFlops == [num : Nums \cup {0}, cnt : 0 .. CntMod - 1, written : 0 .. CntMod,
              res : {"NONE", "OK", "ERR"}]
Transfers == [exec : BOOLEAN, cnt : 0 .. BlockWords]
AesStates == {"AES_IDLE", "AES_IN", "AES_OUT", "AES_TAG_OUT", "AES_BYPASS"}
AesFlops  == [st : AesStates, cnt : 0 .. AesBlocks - 1, first : BOOLEAN, last : BOOLEAN]

\* The flops as numbers and states, the lengths of the queues, and the words in
\* the core.
Fields ==
  /\ cmd.st \in {"IDLE", "ENCR", "FETCH"} /\ cmd.sub \in 1 .. 4 /\ bypass \in BOOLEAN
  /\ rd.exec \in BOOLEAN /\ rd.cnt \in Nat /\ rd.cnt <= BlockWords
  /\ wr.exec \in BOOLEAN /\ wr.cnt \in Nat /\ wr.cnt <= BlockWords
  /\ aes.st \in AesStates /\ aes.cnt \in Nat /\ aes.cnt <= AesBlocks - 1
  /\ aes.first \in BOOLEAN /\ aes.last \in BOOLEAN
  /\ core.run \in BOOLEAN /\ core.tag \in BOOLEAN /\ gen \in {0, 1}

Lengths ==
  /\ Len(core.blocks) \in Nat /\ Len(core.blocks) <= 2
  /\ Len(ib) \in Nat /\ Len(ob) \in Nat /\ Len(ib) <= BlockWords /\ Len(ob) <= Ratio

InCore ==
  /\ Lines(Len(core.blocks)) \in Nat
  /\ Len(core.blocks) # 0 => Lines(Len(core.blocks)) >= Ratio

\* The type invariant by flops.
LEMMA TypeParts ==
  DataTypeOK <=>
    /\ cmd \in CmdFlops /\ bypass \in BOOLEAN /\ encr \in EncrFlops
    /\ rd \in Transfers /\ wr \in Transfers /\ aes \in AesFlops
    /\ core.run \in BOOLEAN /\ core.tag \in BOOLEAN /\ Len(core.blocks) \in 0 .. 2
    /\ Len(ib) \in 0 .. BlockWords /\ Len(ob) \in 0 .. Ratio /\ gen \in {0, 1}
BY DEF DataTypeOK, CmdFlops, EncrFlops, Transfers, AesFlops, AesStates

\* What the type invariant says of the fields.
LEMMA FieldTypes == ASSUME DataIInv PROVE Fields /\ Lengths /\ InCore
<1>1. /\ cmd \in CmdFlops /\ bypass \in BOOLEAN
      /\ rd \in Transfers /\ wr \in Transfers /\ aes \in AesFlops
      /\ core.run \in BOOLEAN /\ core.tag \in BOOLEAN /\ Len(core.blocks) \in 0 .. 2
      /\ Len(ib) \in 0 .. BlockWords /\ Len(ob) \in 0 .. Ratio /\ gen \in {0, 1}
  BY TypeParts DEF DataIInv
<1>2. /\ Lines(Len(core.blocks)) \in Nat
      /\ Len(core.blocks) # 0 => Lines(Len(core.blocks)) >= Ratio
  <2>1. Len(core.blocks) = 0 \/ Len(core.blocks) = 1 \/ Len(core.blocks) = 2
    BY <1>1
  <2>2. CASE Len(core.blocks) = 0
    <3>1. Lines(Len(core.blocks)) = 0
      BY <2>2, Sizes, Zenon
    <3> QED
      BY <2>2, <3>1
  <2>3. CASE Len(core.blocks) = 1
    <3>1. Lines(Len(core.blocks)) = Ratio
      BY <2>3, Sizes, Zenon
    <3> QED
      BY <3>1, Sizes
  <2>4. CASE Len(core.blocks) = 2
    <3>1. Lines(Len(core.blocks)) = 2 * Ratio
      BY <2>4, Sizes, Zenon
    <3> QED
      BY <3>1, Sizes
  <2> QED
    BY <2>1, <2>2, <2>3, <2>4
<1>3. Fields
  BY <1>1, Sizes DEF CmdFlops, Transfers, AesFlops, AesStates, Fields
<1>4. Lengths
  <2>1. Ratio \in Nat /\ BlockWords \in Nat
    BY Sizes
  <2>2. Len(core.blocks) \in Nat /\ Len(core.blocks) <= 2
    <3>1. PICK n \in 0 .. 2 : Len(core.blocks) = n
      BY <1>1, Zenon
    <3>2. n \in Nat /\ n <= 2
      OBVIOUS
    <3> QED
      BY <3>1, <3>2, Zenon
  <2>3. Len(ib) \in Nat /\ Len(ib) <= BlockWords
    BY <1>1, <2>1
  <2>4. Len(ob) \in Nat /\ Len(ob) <= Ratio
    BY <1>1, <2>1
  <2> QED
    BY <2>2, <2>3, <2>4 DEF Lengths
<1> QED
  BY <1>2, <1>3, <1>4 DEF InCore

\* After the reset there is nothing to keep track of.
LEMMA InitData == DataInit => DataIInv
<1> SUFFICES ASSUME DataInit PROVE DataIInv
  OBVIOUS
<1>1. << >> \in Seq(Words) /\ << >> \in Seq(AesBlock) /\ Len(<< >>) = 0
  BY EmptySeq
<1> QED
  BY <1>1, Sizes, DataAssumption
     DEF DataInit, DataIInv, DataTypeOK, SeqsOK, IdleClean, SubStates, AesPlace, InFlight,
         AesBlocksInOrder, Between, Counted, Moving, CoreIdle, NoTransfer, AllBlocksWritten,
         In, Sub, ReadsTag

\* SINC_IDLE takes up a command: nothing of the last one is left.
LEMMA StartData ==
  ASSUME DataIInv, NEW c \in {"ENCR", "FETCH"}, NEW n \in Nums \cup {0},
         c = "FETCH" => n = 0, StartCmd(c, n)
  PROVE  DataIInv'
<1>0. DataTypeOK /\ SeqsOK /\ IdleClean /\ Fields
  BY FieldTypes DEF DataIInv
<1>1. /\ cmd.st = "IDLE" /\ cmd'.st = c /\ cmd'.sub = 1
      /\ rd'.exec = FALSE /\ rd'.cnt = 0 /\ wr'.exec = FALSE /\ wr'.cnt = 0
      /\ encr'.num = n /\ encr'.cnt = 0 /\ encr'.written = 0 /\ encr'.res = "NONE"
  BY DEF StartCmd, NoTransfer
<1>2. /\ aes'.st = aes.st /\ aes'.cnt = 0 /\ aes'.first = FALSE
      /\ UNCHANGED <<bypass, core, ib, ob, gen>>
  BY <1>0 DEF StartCmd, DataTypeOK
<1>3. /\ ib = << >> /\ ob = << >> /\ Len(ib) = 0 /\ Len(ob) = 0 /\ ~core.run /\ ~core.tag
      /\ core.blocks = << >> /\ Len(core.blocks) = 0 /\ aes.st = "AES_IDLE"
  BY <1>0, <1>1 DEF IdleClean, CoreIdle
<1>4. DataTypeOK' /\ SeqsOK'
  <2>1. cmd' \in CmdFlops
    BY DEF StartCmd, CmdFlops
  <2>2. encr' \in EncrFlops
    BY DataAssumption DEF StartCmd, EncrFlops
  <2>3. rd' \in Transfers /\ wr' \in Transfers
    BY Sizes DEF StartCmd, NoTransfer, Transfers
  <2>4. aes' \in AesFlops
    <3>1. aes \in AesFlops /\ aes' = [aes EXCEPT !.cnt = 0, !.first = FALSE]
      BY <1>0, TypeParts DEF StartCmd
    <3>2. 0 \in 0 .. AesBlocks - 1
      BY Sizes
    <3> QED
      BY <3>1, <3>2, Zenon DEF AesFlops
  <2> QED
    BY <1>0, <1>2, <2>1, <2>2, <2>3, <2>4, TypeParts DEF DataTypeOK, SeqsOK,
       CmdFlops, EncrFlops, Transfers, AesFlops, AesStates
<1>5. IdleClean' /\ SubStates' /\ AesPlace'
  BY <1>0, <1>1, <1>2, <1>3 DEF IdleClean, SubStates, AesPlace, CoreIdle, In, Sub, ReadsTag
<1>6. InFlight' /\ AesBlocksInOrder'
  <2>1. Len(ib') = 0 /\ Len(ob') = 0 /\ Len(core'.blocks) = 0
    BY <1>2, <1>3
  <2>2. Taken' = 0 /\ Out' = 0
    BY <1>1, <2>1 DEF Got, Taken, Out
  <2>3. InFlight'
    BY <2>1, <2>2, Sizes DEF InFlight, Holds
  <2>4. AesBlocksInOrder'
    BY <1>2, <1>3, <2>1, <2>2, Sizes DEF AesBlocksInOrder, InOrder
  <2> QED
    BY <2>3, <2>4
<1>7. Between' /\ Counted'
  BY <1>1, DataAssumption DEF Between, Moving, Counted, AllBlocksWritten
<1> QED
  BY <1>4, <1>5, <1>6, <1>7 DEF DataIInv

\* A read is requested: the next block begins, or the tag follows the block.
LEMMA ReadRequestData ==
  ASSUME DataIInv, ReadRequest
  PROVE  DataIInv'
<1>0. /\ DataTypeOK /\ SeqsOK /\ IdleClean /\ SubStates /\ AesPlace /\ InFlight
      /\ AesBlocksInOrder /\ Between /\ Counted /\ Fields /\ Lengths /\ InCore
  BY FieldTypes DEF DataIInv
<1>1. /\ rd' = [exec |-> TRUE, cnt |-> 0] /\ rd'.exec = TRUE /\ rd'.cnt = 0 /\ ~rd.exec
      /\ (Sub(1) \/ ReadsTag) /\ ~Refused
      /\ gen' = (IF ReadsTag THEN gen ELSE 1 - gen)
      /\ UNCHANGED <<cmd, bypass, encr, wr, aes, core, ib, ob>>
  BY DEF ReadRequest
<1>2. ib = << >> /\ Len(ib) = 0
  BY <1>0, Emptied DEF SeqsOK, ReadRequest, IB!Empty
<1>3. DataTypeOK' /\ SeqsOK'
  <2>1. rd' \in Transfers
    BY <1>1, Sizes DEF Transfers
  <2>2. gen' \in {0, 1}
    BY <1>0, <1>1 DEF Fields
  <2> QED
    BY <1>0, <1>1, <2>1, <2>2, TypeParts DEF DataTypeOK, SeqsOK,
       CmdFlops, EncrFlops, Transfers, AesFlops, AesStates
<1>4. IdleClean' /\ SubStates' /\ AesPlace'
  BY <1>0, <1>1 DEF IdleClean, SubStates, AesPlace, CoreIdle, In, Sub, ReadsTag
<1>5. ASSUME Sub(1) PROVE InFlight' /\ AesBlocksInOrder' /\ Between'
  <2>1. Taken = 0 /\ Taken' = 0 /\ Moving
    BY <1>0, <1>1, <1>2, <1>5 DEF Got, Taken, Sub, SubStates, Moving
  <2>2. Out = 0 /\ Len(core.blocks) = 0 /\ Len(ob) = 0 /\ wr.cnt = 0
    BY <1>0, <2>1, Sizes DEF InFlight, Out, Fields, Lengths, InCore
  <2>3. Out' = 0 /\ Len(ib') = 0 /\ Len(ob') = 0 /\ Len(core'.blocks) = 0
    BY <1>1, <1>2, <2>2 DEF Out
  <2>4. InFlight'
    BY <2>1, <2>3, Sizes DEF InFlight, Holds
  <2>5. AesBlocksInOrder'
    BY <1>0, <1>1, <2>1, <2>2, <2>3, Sizes DEF AesBlocksInOrder, InOrder, Moving
  <2>6. Between'
    BY <1>1, <1>5 DEF Between, Moving, Sub
  <2> QED
    BY <2>4, <2>5, <2>6
<1>6. ASSUME ReadsTag PROVE InFlight' /\ AesBlocksInOrder' /\ Between'
  <2>1. InFlight' /\ AesBlocksInOrder'
    BY <1>1, <1>6 DEF InFlight, AesBlocksInOrder, Moving, ReadsTag, In
  <2>2. Between'
    BY <1>0, <1>1, <1>2, <1>6 DEF Between, Moving, ReadsTag, In, Holds, Word, Out
  <2> QED
    BY <2>1, <2>2
<1>7. Counted'
  BY <1>0, <1>1 DEF Counted, AllBlocksWritten, Refused, In, ReadsTag, Sub
<1> QED
  BY <1>1, <1>3, <1>4, <1>5, <1>6, <1>7 DEF DataIInv

\* A beat that is due finds room: what is in the buffer came before it.
LEMMA RoomForBeat ==
  ASSUME DataIInv, BeatDue
  PROVE  Len(ib) < BlockWords /\ rd.cnt < BlockWords
<1>0. InFlight /\ Between /\ Fields /\ Lengths
  BY FieldTypes DEF DataIInv
<1>1. rd.cnt < ReadLen /\ (Sub(1) \/ ReadsTag)
  BY DEF BeatDue
<1>2. ASSUME Sub(1) PROVE Len(ib) < BlockWords /\ rd.cnt < BlockWords
  BY <1>0, <1>1, <1>2, Sizes DEF InFlight, Moving, Sub, Got, Taken, ReadLen, Fields, Lengths, ReadsTag, In
<1>3. ASSUME ReadsTag PROVE Len(ib) < BlockWords /\ rd.cnt < BlockWords
  BY <1>0, <1>1, <1>3, Sizes DEF Between, Moving, ReadLen, Fields, Lengths, ReadsTag, In
<1> QED
  BY <1>1, <1>2, <1>3

\* A beat arrives and is the next word of the block or of the tag.
LEMMA ReadBeatData ==
  ASSUME DataIInv, ReadBeat
  PROVE  DataIInv'
<1> DEFINE w == Word(IF ReadsTag THEN "TAG" ELSE "IN", rd.cnt + 1)
<1>0. /\ DataTypeOK /\ SeqsOK /\ IdleClean /\ SubStates /\ AesPlace /\ InFlight
      /\ AesBlocksInOrder /\ Between /\ Counted /\ Fields /\ Lengths /\ InCore
  BY FieldTypes DEF DataIInv
<1>1. /\ rd' = [rd EXCEPT !.cnt = @ + 1] /\ rd'.exec = TRUE /\ rd'.cnt = rd.cnt + 1 /\ rd.exec
      /\ rd.cnt < ReadLen /\ (Sub(1) \/ ReadsTag)
      /\ IB!QueueCycle(FALSE, TRUE, FALSE, <<w>>)
      /\ UNCHANGED <<cmd, bypass, encr, wr, aes, core, ob, gen>>
  BY <1>0 DEF ReadBeat, BeatDue, DataTypeOK
<1>2. Len(ib) < BlockWords /\ rd.cnt < BlockWords
  BY RoomForBeat DEF ReadBeat
<1>3. w \in Words
  BY <1>0, <1>2, Sizes DEF DataTypeOK, Words, Word, Kinds, Fields
<1> HIDE DEF w
<1>4. /\ ib' \in Seq(Words) /\ Len(ib') = Len(ib) + 1
      /\ \A i \in 1 .. Len(ib) : ib'[i] = ib[i]
      /\ ib'[Len(ib) + 1] = w
  BY <1>0, <1>1, <1>2, <1>3, IbPush DEF SeqsOK
<1>5. DataTypeOK' /\ SeqsOK'
  <2>1. rd' \in Transfers
    <3>1. rd \in Transfers /\ rd.cnt + 1 \in 0 .. BlockWords
      BY <1>0, <1>2, TypeParts, Sizes DEF Fields
    <3> QED
      BY <1>1, <3>1, Zenon DEF Transfers
  <2>2. Len(ib') \in 0 .. BlockWords
    BY <1>0, <1>2, <1>4, Sizes DEF Lengths
  <2> QED
    BY <1>0, <1>1, <1>4, <2>1, <2>2, TypeParts DEF DataTypeOK, SeqsOK,
       CmdFlops, EncrFlops, Transfers, AesFlops, AesStates
<1>6. IdleClean' /\ SubStates' /\ AesPlace'
  BY <1>0, <1>1 DEF IdleClean, SubStates, AesPlace, CoreIdle, In, Sub, ReadsTag
<1>7. ASSUME Sub(1) PROVE InFlight' /\ AesBlocksInOrder' /\ Between'
  <2>1. Taken' = Taken /\ Out' = Out /\ Moving /\ Moving' /\ Taken \in Int
    <3>1. Moving /\ Moving' /\ Got = rd.cnt /\ Got' = rd.cnt + 1 /\ Out' = Out
      BY <1>1, <1>7 DEF Got, Out, Moving, Sub
    <3>2. rd.cnt \in Nat /\ Len(ib) \in Nat /\ Len(ib') = Len(ib) + 1
      BY <1>0, <1>4 DEF Fields, Lengths
    <3> QED
      BY <3>1, <3>2 DEF Taken
  <2>2. w = Word("IN", Taken + Len(ib) + 1)
    BY <1>0, <1>7 DEF Taken, Got, w, Sub, ReadsTag, In, Fields, Lengths
  <2>3. ASSUME NEW i \in 1 .. Len(ib') PROVE ib'[i] = Word("IN", Taken + i)
    <3>1. CASE i \in 1 .. Len(ib)
      BY <1>0, <1>4, <2>1, <3>1 DEF Holds, InFlight
    <3>2. CASE i = Len(ib) + 1
      BY <1>0, <1>4, <2>1, <2>2, <3>2 DEF Lengths
    <3> QED
      BY <1>0, <1>4, <3>1, <3>2 DEF Lengths
  <2>4. InFlight' /\ AesBlocksInOrder'
    BY <1>0, <1>1, <2>1, <2>3 DEF InFlight, AesBlocksInOrder, InOrder, Holds, Word
  <2>5. Between'
    BY <2>1 DEF Between
  <2> QED
    BY <2>4, <2>5
<1>8. ASSUME ReadsTag PROVE InFlight' /\ AesBlocksInOrder' /\ Between'
  <2>1. InFlight' /\ AesBlocksInOrder'
    BY <1>1, <1>8 DEF InFlight, AesBlocksInOrder, Moving, ReadsTag, In
  <2>2. Len(ib) = rd.cnt /\ Holds(ib, "TAG", 0)
    BY <1>0, <1>8 DEF Between, Moving, ReadsTag, In
  <2>3. Holds(ib, "TAG", 0)'
    <3>1. SUFFICES ASSUME NEW i \in 1 .. Len(ib') PROVE ib'[i] = Word("TAG", i)
      BY <1>0, <1>1, <1>4 DEF Holds, Word
    <3>2. CASE i \in 1 .. Len(ib)
      BY <1>4, <2>2, <3>2 DEF Holds
    <3>3. CASE i = Len(ib) + 1
      BY <1>4, <1>8, <2>2, <3>3 DEF w
    <3> QED
      BY <1>0, <1>4, <3>2, <3>3 DEF Lengths
  <2>4. Between'
    BY <1>0, <1>1, <1>4, <1>8, <2>2, <2>3 DEF Between, Moving, ReadsTag, In, Out, Fields
  <2> QED
    BY <2>1, <2>4
<1>9. Counted'
  BY <1>0, <1>1 DEF Counted, AllBlocksWritten, ReadsTag, Sub, In
<1> QED
  BY <1>1, <1>5, <1>6, <1>7, <1>8, <1>9 DEF DataIInv

\* The read completes: the words still in the buffer are the same.
LEMMA ReadDoneData ==
  ASSUME DataIInv, ReadDone
  PROVE  DataIInv'
<1>0. /\ DataTypeOK /\ SeqsOK /\ IdleClean /\ SubStates /\ AesPlace /\ InFlight
      /\ AesBlocksInOrder /\ Between /\ Counted /\ Fields /\ Lengths /\ InCore
  BY FieldTypes DEF DataIInv
<1>1. /\ rd' = [exec |-> FALSE, cnt |-> 0] /\ rd'.exec = FALSE /\ rd'.cnt = 0 /\ rd.exec
      /\ rd.cnt = ReadLen /\ (Sub(1) \/ ReadsTag) /\ (Sub(1) => UnderWay)
      /\ cmd'.st = cmd.st /\ cmd'.sub = (IF ReadsTag THEN 4 ELSE 2)
      /\ UNCHANGED <<bypass, encr, wr, aes, core, ib, ob, gen>>
  BY <1>0 DEF ReadDone, NoTransfer, Goto, DataTypeOK
<1>2. DataTypeOK' /\ SeqsOK'
  <2>1. rd' \in Transfers
    BY <1>1, Sizes DEF Transfers
  <2>2. cmd' \in CmdFlops
    <3>1. cmd \in CmdFlops /\ 4 \in 1 .. 4 /\ 2 \in 1 .. 4
      BY <1>0, TypeParts
    <3> QED
      BY <3>1, Zenon DEF CmdFlops, ReadDone, Goto
  <2> QED
    BY <1>0, <1>1, <2>1, <2>2, TypeParts DEF DataTypeOK, SeqsOK,
       CmdFlops, EncrFlops, Transfers, AesFlops, AesStates
<1>3. ASSUME Sub(1) PROVE DataIInv'
  <2>1. cmd.sub = 1 /\ cmd.st # "IDLE" /\ cmd'.sub = 2 /\ rd.cnt = BlockWords /\ aes.st # "AES_IDLE"
    BY <1>1, <1>3 DEF Sub, ReadsTag, In, ReadLen, UnderWay
  <2>2. Moving /\ Moving' /\ Taken' = Taken /\ Out' = Out
    BY <1>1, <2>1 DEF Moving, Taken, Got, Out
  <2>3. IdleClean' /\ SubStates' /\ AesPlace'
    BY <1>0, <1>1, <2>1 DEF IdleClean, SubStates, AesPlace, CoreIdle, In, Sub, ReadsTag
  <2>4. InFlight'
    BY <1>0, <1>1, <2>2 DEF InFlight, Holds, Word
  <2>5. AesBlocksInOrder'
    BY <1>0, <1>1, <2>2 DEF AesBlocksInOrder, InOrder, Holds, Word
  <2>6. Between' /\ Counted'
    BY <1>0, <1>1, <2>1, <2>2 DEF Between, Counted, AllBlocksWritten
  <2> QED
    BY <1>2, <2>3, <2>4, <2>5, <2>6 DEF DataIInv
<1>4. ASSUME ReadsTag PROVE DataIInv'
  <2>1. /\ cmd.st = "FETCH" /\ cmd.sub = 3 /\ cmd'.sub = 4 /\ rd.cnt = Ratio
        /\ ~Moving /\ ~Moving'
    BY <1>1, <1>4 DEF ReadsTag, In, ReadLen, Moving
  <2>2. IdleClean' /\ SubStates' /\ AesPlace'
    BY <1>0, <1>1, <2>1 DEF IdleClean, SubStates, AesPlace, CoreIdle, In, Sub, ReadsTag
  <2>3. InFlight' /\ AesBlocksInOrder'
    BY <2>1 DEF InFlight, AesBlocksInOrder
  <2>4. Between' /\ Counted'
    BY <1>0, <1>1, <1>4, <2>1 DEF Between, Counted, AllBlocksWritten, ReadsTag, In, SubStates,
       Holds, Word
  <2> QED
    BY <1>2, <2>2, <2>3, <2>4 DEF DataIInv
<1> QED
  BY <1>1, <1>3, <1>4

\* A write is requested: no word has been written before.
LEMMA WriteRequestData ==
  ASSUME DataIInv, WriteRequest
  PROVE  DataIInv'
<1>0. /\ DataTypeOK /\ SeqsOK /\ IdleClean /\ SubStates /\ AesPlace /\ InFlight
      /\ AesBlocksInOrder /\ Between /\ Counted
  BY DEF DataIInv
<1>1. /\ wr' = [exec |-> TRUE, cnt |-> 0] /\ wr'.exec = TRUE /\ wr'.cnt = wr.cnt
      /\ cmd.st = "ENCR" /\ ~wr.exec
      /\ UNCHANGED <<cmd, bypass, encr, rd, aes, core, ib, ob, gen>>
  BY <1>0 DEF WriteRequest, SubStates
<1>2. DataTypeOK' /\ SeqsOK'
  <2>1. wr' \in Transfers
    BY <1>1, Sizes DEF Transfers
  <2> QED
    BY <1>0, <1>1, <2>1, TypeParts DEF DataTypeOK, SeqsOK,
       CmdFlops, EncrFlops, Transfers, AesFlops, AesStates
<1>3. IdleClean' /\ SubStates' /\ AesPlace'
  BY <1>0, <1>1 DEF IdleClean, SubStates, AesPlace, CoreIdle, In, Sub, ReadsTag
<1>4. (Moving' <=> Moving) /\ Taken' = Taken /\ Out' = Out
  BY <1>1 DEF Moving, Taken, Got, Out
<1>5. InFlight'
  BY <1>0, <1>1, <1>4 DEF InFlight, Holds, Word
<1>6. AesBlocksInOrder'
  BY <1>0, <1>1, <1>4 DEF AesBlocksInOrder, InOrder, Holds, Word
<1>7. Between'
  BY <1>0, <1>1, <1>4 DEF Between, Holds, Word, In, ReadsTag
<1>8. Counted'
  BY <1>0, <1>1 DEF Counted, AllBlocksWritten
<1> QED
  BY <1>2, <1>3, <1>5, <1>6, <1>7, <1>8 DEF DataIInv

\* A word goes from the output buffer to the count of those that left it.
LEMMA WriteBeatData ==
  ASSUME DataIInv, WriteBeat
  PROVE  DataIInv'
<1>0. /\ DataTypeOK /\ SeqsOK /\ IdleClean /\ SubStates /\ AesPlace /\ InFlight
      /\ AesBlocksInOrder /\ Between /\ Counted /\ Fields /\ Lengths /\ InCore
  BY FieldTypes DEF DataIInv
<1>1. /\ wr' = [wr EXCEPT !.cnt = @ + 1] /\ wr'.exec = wr.exec /\ wr'.cnt = wr.cnt + 1
      /\ OB!PopRdy /\ OB!QueueCycle(FALSE, FALSE, TRUE, << >>)
      /\ (Accepts \/ In("FETCH", 1) \/ In("FETCH", 2))
      /\ UNCHANGED <<cmd, bypass, encr, rd, aes, core, ib, gen>>
  BY <1>0 DEF WriteBeat, DataTypeOK
<1>2. /\ ob' \in Seq(Words) /\ Len(ob) >= 1 /\ Len(ob') = Len(ob) - 1
      /\ \A i \in 1 .. Len(ob') : ob'[i] = ob[1 + i]
  BY <1>0, <1>1, ObPop DEF SeqsOK
<1>3. (Moving' <=> Moving) /\ Taken' = Taken
  BY <1>1 DEF Moving, Taken, Got
<1>4. Out' = Out
  BY <1>0, <1>1, <1>2 DEF Out, Fields, Lengths
<1>5. ASSUME NEW kind, Holds(ob, kind, wr.cnt) PROVE Holds(ob, kind, wr.cnt)'
  <2>1. SUFFICES ASSUME NEW i \in 1 .. Len(ob') PROVE ob'[i] = Word(kind, wr.cnt + 1 + i)
    BY <1>1 DEF Holds, Word
  <2>2. Len(ob) \in Nat /\ wr.cnt \in Nat /\ i \in 1 .. Len(ob) - 1
    BY <1>0, <1>2 DEF Fields, Lengths
  <2>3. 1 + i \in 1 .. Len(ob) /\ wr.cnt + (1 + i) = wr.cnt + 1 + i
    BY <2>2
  <2>4. ob[1 + i] = Word(kind, wr.cnt + (1 + i))
    BY <1>5, <2>3 DEF Holds
  <2> QED
    BY <1>2, <2>1, <2>3, <2>4
<1>6. wr.cnt < BlockWords
  <2>1. CASE Accepts
    <3>1. wr.cnt < WriteLen /\ (WriteLen = Ratio \/ WriteLen = BlockWords)
      BY <2>1 DEF Accepts, WriteLen
    <3> QED
      BY <1>0, <3>1, Sizes DEF Fields
  <2>2. CASE In("FETCH", 1) \/ In("FETCH", 2)
    <3>1. Moving
      BY <1>0, <2>2 DEF Between, In, Moving
    <3>2. Out + Lines(Len(core.blocks)) = Taken
      BY <1>0, <3>1 DEF InFlight
    <3>3. Got \in Nat /\ Got <= BlockWords
      BY <1>0, Sizes DEF Got, Fields
    <3>4. /\ Len(ib) \in Nat /\ Len(ob) \in Nat /\ wr.cnt \in Nat
          /\ Lines(Len(core.blocks)) \in Nat /\ BlockWords \in Nat
      BY <1>0, Sizes DEF Fields, Lengths, InCore
    <3> QED
      BY <1>2, <3>2, <3>3, <3>4 DEF Out, Taken
  <2> QED
    BY <1>1, <2>1, <2>2
<1>7. DataTypeOK' /\ SeqsOK'
  <2>1. wr' \in Transfers
    <3>1. wr \in Transfers /\ wr.cnt + 1 \in 0 .. BlockWords
      BY <1>0, <1>6, TypeParts, Sizes DEF Fields
    <3> QED
      BY <1>1, <3>1, Zenon DEF Transfers
  <2>2. Len(ob') \in 0 .. Ratio
    BY <1>0, <1>2, Sizes DEF Lengths
  <2> QED
    BY <1>0, <1>1, <1>2, <2>1, <2>2, TypeParts DEF DataTypeOK, SeqsOK,
       CmdFlops, EncrFlops, Transfers, AesFlops, AesStates
<1>8. IdleClean' /\ SubStates' /\ AesPlace'
  BY <1>0, <1>1 DEF IdleClean, SubStates, AesPlace, CoreIdle, In, Sub, ReadsTag, Accepts
<1>9. InFlight'
  <2>1. SUFFICES ASSUME Moving PROVE InFlight'
    BY <1>3 DEF InFlight
  <2>2. Holds(ib, "IN", Taken)' /\ Taken' >= 0
    BY <1>0, <1>1, <1>3, <2>1 DEF InFlight, Holds, Word
  <2>3. Holds(ob, IF bypass THEN "IN" ELSE "OUT", wr.cnt)'
    BY <1>0, <1>1, <1>5, <2>1 DEF InFlight
  <2>4. Out' + Lines(Len(core'.blocks)) = Taken' /\ (aes'.st = "AES_IDLE" => Taken' = 0)
    BY <1>0, <1>1, <1>3, <1>4, <2>1 DEF InFlight
  <2> QED
    BY <2>2, <2>3, <2>4 DEF InFlight
<1>10. AesBlocksInOrder'
  BY <1>0, <1>1, <1>3, <1>4 DEF AesBlocksInOrder, InOrder, Holds, Word
<1>11. Between'
  <2>1. SUFFICES ASSUME cmd.st # "IDLE", ~Moving PROVE Between'
    BY <1>1, <1>3 DEF Between
  <2>2. In("ENCR", 3)
    <3>1. ~In("FETCH", 1) /\ ~In("FETCH", 2)
      BY <1>0, <2>1 DEF Between, In, Moving
    <3>2. cmd.st = "ENCR" /\ wr.cnt < WriteLen
      BY <1>1, <3>1 DEF Accepts
    <3>3. cmd.sub # 2
      BY <1>0, <1>6, <2>1, <3>2 DEF Between, In, Fields
    <3> QED
      BY <1>0, <2>1, <3>2, <3>3 DEF SubStates, In, Moving, Fields
  <2>3. Holds(ob, "TAG", wr.cnt)'
    BY <1>0, <1>5, <2>1, <2>2 DEF Between
  <2> QED
    BY <1>0, <1>1, <1>4, <2>1, <2>2, <2>3 DEF Between, In, ReadsTag
<1>12. Counted'
  BY <1>0, <1>1 DEF Counted, AllBlocksWritten
<1> QED
  BY <1>7, <1>8, <1>9, <1>10, <1>11, <1>12 DEF DataIInv

\* The place aes_block_cnt stands for.
LEMMA CntLines ==
  ASSUME Fields
  PROVE  /\ Lines(aes.cnt) \in Nat /\ Lines(aes.cnt) + Ratio <= BlockWords
         /\ Lines(aes.cnt + 1) = Lines(aes.cnt) + Ratio
         /\ last_aes_block <=> Lines(aes.cnt) + Ratio = BlockWords
         /\ aes.cnt = 0 => Lines(aes.cnt) = 0
         /\ aes.cnt # 0 => Lines(aes.cnt) >= Ratio
<1>1. aes.cnt \in Nat /\ aes.cnt \in 0 .. AesBlocks - 1
  BY Sizes DEF Fields
<1>2. /\ Lines(aes.cnt) \in Nat /\ Lines(aes.cnt + 1) = Lines(aes.cnt) + Ratio
      /\ Lines(aes.cnt) + Ratio <= BlockWords
  BY <1>1, LineSizes, Zenon
<1>3. CASE last_aes_block
  <2>1. aes.cnt + 1 = AesBlocks /\ aes.cnt # 0
    BY <1>1, <1>3, Sizes DEF last_aes_block
  <2>2. aes.cnt \in 1 .. AesBlocks
    BY <1>1, <2>1
  <2> QED
    BY <1>2, <1>3, <2>1, <2>2, LineSizes, Zenon
<1>4. CASE ~last_aes_block
  <2>1. aes.cnt \in 0 .. AesBlocks - 2 /\ (aes.cnt # 0 => aes.cnt \in 1 .. AesBlocks)
    BY <1>1, <1>4, Sizes DEF last_aes_block
  <2>2. Lines(aes.cnt) + Ratio < BlockWords /\ (aes.cnt # 0 => Lines(aes.cnt) >= Ratio)
    BY <2>1, LineSizes, Zenon
  <2>3. Lines(aes.cnt) + Ratio # BlockWords
    BY <1>2, <2>2, Sizes
  <2>4. aes.cnt = 0 => Lines(aes.cnt) = 0
    BY Sizes, Zenon
  <2> QED
    BY <1>2, <1>4, <2>2, <2>3, <2>4, Zenon
<1> QED
  BY <1>3, <1>4

\* When the last word of a block has been taken nothing of it is left.
LEMMA AllMoved ==
  ASSUME DataIInv, Moving, cmd.sub = 2, wr.cnt = BlockWords
  PROVE  /\ ib = << >> /\ ob = << >> /\ core.blocks = << >> /\ Len(ob) = 0
         /\ ~bypass => aes.st = "AES_TAG_OUT" /\ aes.cnt = 0
         /\ bypass => aes.st = "AES_BYPASS"
<1>0. SeqsOK /\ AesPlace /\ InFlight /\ AesBlocksInOrder /\ Fields /\ Lengths /\ InCore
  BY FieldTypes DEF DataIInv
<1>1. Out + Lines(Len(core.blocks)) = Taken /\ Taken = BlockWords - Len(ib)
  BY <1>0 DEF InFlight, Taken, Got
<1>2. /\ Len(ib) \in Nat /\ Len(ob) \in Nat /\ wr.cnt \in Nat /\ BlockWords \in Nat
      /\ Lines(Len(core.blocks)) \in Nat
  BY <1>0, Sizes DEF Fields, Lengths, InCore
<1>3. Len(ib) = 0 /\ Len(ob) = 0 /\ Lines(Len(core.blocks)) = 0 /\ Out = BlockWords /\ Taken = BlockWords
  BY <1>1, <1>2 DEF Out
<1>4. Len(core.blocks) = 0
  <2>1. Ratio \in Nat /\ Ratio >= 2
    BY Sizes
  <2>2. ~(0 >= Ratio)
    BY <2>1
  <2> QED
    BY <1>0, <1>3, <2>2, Zenon DEF InCore
<1>5. ib = << >> /\ ob = << >> /\ core.blocks = << >>
  BY <1>0, <1>3, <1>4, Emptied DEF SeqsOK
<1>6. ASSUME ~bypass PROVE aes.st = "AES_TAG_OUT" /\ aes.cnt = 0
  <2>1. core.tag /\ (Taken = Lines(aes.cnt) \/ aes.cnt = 0)
    BY <1>0, <1>3, <1>6 DEF AesBlocksInOrder
  <2>2. Lines(aes.cnt) + Ratio <= BlockWords /\ Lines(aes.cnt) \in Nat /\ Ratio \in Nat /\ Ratio >= 2
    BY <1>0, CntLines, Sizes, Zenon
  <2>3. aes.cnt = 0
    BY <1>2, <1>3, <2>1, <2>2
  <2> QED
    BY <1>0, <2>1, <2>3 DEF AesPlace, Moving
<1>7. ASSUME bypass PROVE aes.st = "AES_BYPASS"
  BY <1>0, <1>7 DEF AesPlace, Moving
<1> QED
  BY <1>3, <1>5, <1>6, <1>7

\* FETCH_BLOCK has its block in the RAM.
LEMMA BlockInRamData ==
  ASSUME DataIInv, BlockInRam
  PROVE  DataIInv'
<1>0. /\ DataTypeOK /\ SeqsOK /\ IdleClean /\ SubStates /\ AesPlace
      /\ Between /\ Counted /\ Fields
  BY FieldTypes DEF DataIInv
<1>1. /\ wr' = [exec |-> FALSE, cnt |-> 0] /\ wr'.exec = FALSE /\ wr'.cnt = 0
      /\ cmd.st = "FETCH" /\ cmd.sub = 2 /\ wr.cnt = BlockWords
      /\ cmd'.st = cmd.st /\ cmd'.sub = (IF bypass THEN 4 ELSE 3)
      /\ UNCHANGED <<bypass, encr, rd, aes, core, ib, ob, gen>>
  BY <1>0 DEF BlockInRam, In, NoTransfer, Goto, DataTypeOK
<1>2. Moving
  BY <1>0, <1>1 DEF Between, Moving
<1>3. /\ ib = << >> /\ ob = << >> /\ core.blocks = << >>
      /\ ~bypass => aes.st = "AES_TAG_OUT" /\ aes.cnt = 0
      /\ bypass => aes.st = "AES_BYPASS"
  BY <1>1, <1>2, AllMoved
<1>4. DataTypeOK' /\ SeqsOK'
  <2>1. wr' \in Transfers
    BY <1>1, Sizes DEF Transfers
  <2>2. cmd' \in CmdFlops
    <3>1. cmd \in CmdFlops /\ 4 \in 1 .. 4 /\ 3 \in 1 .. 4
      BY <1>0, TypeParts
    <3> QED
      BY <3>1, Zenon DEF CmdFlops, BlockInRam, Goto
  <2> QED
    BY <1>0, <1>1, <2>1, <2>2, TypeParts DEF DataTypeOK, SeqsOK,
       CmdFlops, EncrFlops, Transfers, AesFlops, AesStates
<1>5. IdleClean' /\ SubStates' /\ AesPlace'
  BY <1>0, <1>1 DEF IdleClean, SubStates, AesPlace, CoreIdle, In, Sub, ReadsTag
<1>6. ~Moving' /\ InFlight' /\ AesBlocksInOrder'
  BY <1>1 DEF InFlight, AesBlocksInOrder, Moving
<1>7. Between' /\ Counted'
  <2>1. Len(ib') = 0 /\ rd'.cnt = 0
    BY <1>0, <1>1, <1>3 DEF SubStates, Sub, ReadsTag, In
  <2>2. Holds(ib, "TAG", 0)'
    BY <2>1 DEF Holds
  <2> QED
    BY <1>0, <1>1, <1>3, <2>1, <2>2 DEF Between, Counted, AllBlocksWritten, ReadsTag, In
<1> QED
  BY <1>4, <1>5, <1>6, <1>7 DEF DataIInv

\* A command ends and leaves nothing behind.
LEMMA EndData ==
  ASSUME DataIInv, NEW how \in {"OK", "ERR"}, End(how), UNCHANGED <<bypass, rd, wr, gen>>,
         ib' = << >>, ob' = << >>, core'.run = FALSE, core'.tag = FALSE, core'.blocks = << >>,
         DOMAIN core' = {"run", "blocks", "tag"}, aes' = [aes EXCEPT !.st = "AES_IDLE"],
         how = "OK" => encr.num = encr.written
  PROVE  DataIInv'
<1>0. DataTypeOK /\ Fields
  BY FieldTypes DEF DataIInv
<1>1. cmd' = [st |-> "IDLE", sub |-> 1] /\ cmd'.st = "IDLE" /\ encr' = [encr EXCEPT !.res = how]
  BY DEF End
<1>2. << >> \in Seq(Words) /\ << >> \in Seq(AesBlock) /\ Len(<< >>) = 0
  BY EmptySeq
<1>3. DataTypeOK' /\ SeqsOK'
  <2>1. cmd' \in CmdFlops
    BY <1>1 DEF CmdFlops
  <2>2. encr' \in EncrFlops
    <3>1. encr \in EncrFlops /\ how \in {"NONE", "OK", "ERR"}
      BY <1>0, TypeParts
    <3> QED
      BY <1>1, <3>1, Zenon DEF EncrFlops
  <2>3. aes' \in AesFlops
    <3>1. aes \in AesFlops /\ "AES_IDLE" \in AesStates
      BY <1>0, TypeParts DEF AesStates
    <3> QED
      BY <3>1, Zenon DEF AesFlops
  <2>4. Len(ib') \in 0 .. BlockWords /\ Len(ob') \in 0 .. Ratio /\ Len(core'.blocks) \in 0 .. 2
    BY <1>2, Sizes
  <2> QED
    BY <1>0, <1>2, <2>1, <2>2, <2>3, <2>4, TypeParts DEF DataTypeOK, SeqsOK,
       CmdFlops, EncrFlops, Transfers, AesFlops, AesStates
<1>4. IdleClean'
  BY <1>0 DEF IdleClean, CoreIdle, DataTypeOK
<1>5. SubStates' /\ AesPlace' /\ InFlight' /\ AesBlocksInOrder' /\ Between'
  BY <1>1 DEF SubStates, AesPlace, InFlight, AesBlocksInOrder, Between, Moving, In, Sub, ReadsTag
<1>6. Counted'
  <2>1. encr'.num = encr.num /\ encr'.written = encr.written /\ encr'.res = how
    BY <1>0, <1>1 DEF DataTypeOK
  <2> QED
    BY <1>1, <2>1 DEF Counted, AllBlocksWritten
<1> QED
  BY <1>3, <1>4, <1>5, <1>6 DEF DataIInv

\* FETCH_BLOCK ends with the compare, which takes the tag out.
LEMMA CompareTagData ==
  ASSUME DataIInv, CompareTag
  PROVE  DataIInv'
<1>0. SeqsOK /\ AesPlace /\ Between /\ Counted /\ Fields /\ Lengths
  BY FieldTypes DEF DataIInv
<1>1. cmd.st = "FETCH" /\ cmd.sub = 4 /\ ~bypass /\ ~Moving
  BY DEF CompareTag, In, Moving
<1>2. aes.st = "AES_TAG_OUT" /\ ob = << >> /\ core.blocks = << >> /\ Len(ib) = Ratio
  BY <1>0, <1>1 DEF Between, In, AesPlace
<1>3. /\ IB!QueueCycle(FALSE, FALSE, TRUE, << >>) /\ End("OK")
      /\ core' = [core EXCEPT !.run = FALSE, !.tag = FALSE]
      /\ aes' = [aes EXCEPT !.st = "AES_IDLE"] /\ UNCHANGED <<bypass, rd, wr, ob, gen>>
  BY <1>2 DEF CompareTag
<1>4. IB!PopRdy
  BY <1>2, Sizes DEF IB!PopRdy
<1>5. ib' \in Seq(Words) /\ Len(ib') = 0
  BY <1>0, <1>2, <1>3, <1>4, IbPop, Sizes DEF SeqsOK
<1>6. ib' = << >>
  BY <1>5, Emptied
<1>7. /\ core'.run = FALSE /\ core'.tag = FALSE /\ core'.blocks = << >>
      /\ DOMAIN core' = {"run", "blocks", "tag"}
  BY <1>0, <1>2, <1>3 DEF SeqsOK
<1>8. encr.num = encr.written
  BY <1>0, <1>1 DEF Counted
<1> QED
  BY <1>2, <1>3, <1>6, <1>7, <1>8, EndData

\* FETCH_BLOCK ends without a compare: the bypass has moved everything.
LEMMA SkipTagData ==
  ASSUME DataIInv, SkipTag
  PROVE  DataIInv'
<1>0. DataTypeOK /\ SeqsOK /\ AesPlace /\ Between /\ Counted /\ Fields /\ Lengths
  BY FieldTypes DEF DataIInv
<1>1. cmd.st = "FETCH" /\ cmd.sub = 4 /\ bypass /\ ~Moving
  BY DEF SkipTag, In, Moving
<1>2. aes.st = "AES_BYPASS" /\ ob = << >> /\ Len(ib) = 0 /\ CoreIdle
  BY <1>0, <1>1 DEF Between, In, AesPlace
<1>3. /\ End("OK") /\ UNCHANGED <<bypass, rd, wr, core, ib, ob, gen>>
      /\ aes' = [aes EXCEPT !.st = "AES_IDLE"]
  BY <1>2 DEF SkipTag, AesAfterEnd
<1>4. ib' = << >> /\ ob' = << >>
  BY <1>0, <1>2, <1>3, Emptied DEF SeqsOK
<1>5. /\ core'.run = FALSE /\ core'.tag = FALSE /\ core'.blocks = << >>
      /\ DOMAIN core' = {"run", "blocks", "tag"}
  BY <1>0, <1>2, <1>3 DEF SeqsOK, CoreIdle, Fields
<1>6. encr.num = encr.written
  BY <1>0, <1>1 DEF Counted
<1> QED
  BY <1>3, <1>4, <1>5, <1>6, EndData

\* A command fails: ib_ob_clr and gp_aes_clr.
LEMMA FailData ==
  ASSUME DataIInv, Fail
  PROVE  DataIInv'
<1>1. /\ End("ERR") /\ UNCHANGED <<bypass, rd, wr, gen>> /\ ib' = << >> /\ ob' = << >>
      /\ core'.run = FALSE /\ core'.tag = FALSE /\ core'.blocks = << >>
      /\ DOMAIN core' = {"run", "blocks", "tag"} /\ aes' = [aes EXCEPT !.st = "AES_IDLE"]
  BY DEF Fail, Clear
<1> QED
  BY <1>1, EndData

\* A write completes: that of the block, then that of its tag, and the command
\* ends or goes on with the next block.
LEMMA WriteDoneData ==
  ASSUME DataIInv, WriteDone
  PROVE  DataIInv'
<1>0. /\ DataTypeOK /\ SeqsOK /\ IdleClean /\ SubStates /\ AesPlace
      /\ Between /\ Counted /\ Fields /\ Lengths
  BY FieldTypes DEF DataIInv
<1>1. /\ wr' = [exec |-> FALSE, cnt |-> 0] /\ wr'.exec = FALSE /\ wr'.cnt = 0
      /\ cmd.st = "ENCR" /\ cmd.sub \in {2, 3} /\ wr.cnt = WriteLen
      /\ UNCHANGED <<bypass, rd, core, ib, ob, gen>>
  BY DEF WriteDone, NoTransfer
<1>2. wr' \in Transfers
  BY <1>1, Sizes DEF Transfers
<1>3. ~rd.exec /\ rd.cnt = 0 /\ encr.num # 0 /\ encr.cnt = encr.written /\ encr.cnt < encr.num
  BY <1>0, <1>1 DEF SubStates, Counted, Sub, ReadsTag, In
<1>4. ASSUME NeedsTag PROVE DataIInv'
  <2>1. /\ cmd.sub = 2 /\ ~bypass /\ cmd'.st = "ENCR" /\ cmd'.sub = 3 /\ wr.cnt = BlockWords
        /\ UNCHANGED <<encr, aes>>
    BY <1>0, <1>1, <1>4 DEF WriteDone, NeedsTag, Goto, WriteLen, DataTypeOK
  <2>2. DataTypeOK' /\ SeqsOK'
    <3>1. cmd' \in CmdFlops
      <4>1. cmd \in CmdFlops /\ 3 \in 1 .. 4
        BY <1>0, TypeParts
      <4> QED
        BY <1>4, <4>1, Zenon DEF CmdFlops, WriteDone, Goto
    <3> QED
      BY <1>0, <1>1, <1>2, <2>1, <3>1, TypeParts DEF DataTypeOK, SeqsOK,
         CmdFlops, EncrFlops, Transfers, AesFlops, AesStates
  <2>3. IdleClean' /\ SubStates' /\ AesPlace'
    BY <1>0, <1>1, <2>1 DEF IdleClean, SubStates, AesPlace, CoreIdle, In, Sub, ReadsTag
  <2>4. ~Moving' /\ InFlight' /\ AesBlocksInOrder'
    BY <2>1 DEF InFlight, AesBlocksInOrder, Moving
  <2>5. ASSUME Moving PROVE Between'
    <3>1. /\ ib = << >> /\ ob = << >> /\ core.blocks = << >> /\ Len(ob) = 0
          /\ aes.st = "AES_TAG_OUT" /\ aes.cnt = 0
      BY <2>1, <2>5, AllMoved
    <3>2. Out' = 0 /\ Holds(ob, "TAG", wr.cnt)'
      BY <1>1, <3>1 DEF Out, Holds
    <3> QED
      BY <1>0, <1>1, <2>1, <3>1, <3>2 DEF Between, In, ReadsTag
  <2>6. ASSUME ~Moving PROVE Between'
    <3>1. Len(ob) = Ratio /\ Holds(ob, "TAG", 0) /\ aes.st = "AES_IDLE"
      BY <1>0, <1>1, <2>1, <2>6 DEF Between, In, Moving
    <3>2. Out' = Ratio /\ Holds(ob, "TAG", wr.cnt)'
      BY <1>1, <3>1, Sizes DEF Out, Holds, Word
    <3> QED
      BY <1>0, <1>1, <2>1, <2>6, <3>1, <3>2 DEF Between, In, ReadsTag
  <2>7. Counted'
    BY <1>0, <1>1, <1>3, <2>1 DEF Counted, AllBlocksWritten
  <2> QED
    BY <2>2, <2>3, <2>4, <2>5, <2>6, <2>7 DEF DataIInv
<1>5. ASSUME ~NeedsTag PROVE DataIInv'
  <2>1. /\ ib = << >> /\ ob = << >> /\ CoreIdle /\ (~bypass => aes.st = "AES_IDLE" /\ aes.cnt = 0)
        /\ bypass => aes.st = "AES_BYPASS"
    <3>1. CASE cmd.sub = 3
      <4>1. ~bypass /\ wr.cnt = Ratio /\ ~Moving
        BY <1>0, <1>1, <3>1 DEF SubStates, WriteLen, Moving
      <4>2. Out \in Nat /\ Out = Ratio + Len(ob) /\ Out # 0 /\ Len(ob) \in Nat
        BY <1>0, <4>1, Sizes DEF Out, Lengths
      <4>3. aes.st = "AES_IDLE" /\ Out = Ratio
        BY <1>0, <1>1, <3>1, <4>1, <4>2 DEF Between, In, AesPlace
      <4>4. Len(ob) = 0
        BY <4>2, <4>3, Sizes
      <4>5. ob = << >>
        BY <1>0, <4>4, Emptied DEF SeqsOK
      <4> QED
        BY <1>0, <1>1, <4>1, <4>3, <4>5 DEF Between, AesPlace, CoreIdle
    <3>2. CASE cmd.sub = 2
      <4>1. bypass /\ wr.cnt = BlockWords
        BY <1>1, <1>5, <3>2 DEF NeedsTag, WriteLen
      <4>2. Moving
        BY <1>0, <1>1, <4>1 DEF Between
      <4>3. ib = << >> /\ ob = << >> /\ aes.st = "AES_BYPASS"
        BY <3>2, <4>1, <4>2, AllMoved
      <4> QED
        BY <1>0, <1>1, <4>1, <4>3 DEF AesPlace
    <3> QED
      BY <1>1, <3>1, <3>2
  <2> DEFINE e == [encr EXCEPT !.cnt = IF LastEncrBlock THEN 0 ELSE (@ + 1) % CntMod,
                               !.written = @ + 1]
  <2>2. /\ encr.num \in Nat /\ encr.num < CntMod /\ encr.num > 0 /\ encr.cnt \in Nat
        /\ CntMod \in Nat /\ CntMod > 0 /\ encr.written = encr.cnt /\ encr.cnt < encr.num
    <3>1. encr.num \in Nums \cup {0} /\ encr.cnt \in 0 .. CntMod - 1
      BY <1>0, TypeParts, Zenon DEF EncrFlops
    <3>2. CntMod \in Nat /\ CntMod > 0
      BY DataAssumption
    <3>3. encr.num \in 0 .. CntMod - 1
      <4>1. encr.num \in Nums /\ Nums \subseteq 0 .. CntMod - 1
        BY <1>3, <3>1, DataAssumption, Zenon
      <4> QED
        BY <4>1, Zenon
    <3> QED
      BY <1>3, <3>1, <3>2, <3>3
  <2>3. (encr.num - 1) % CntMod = encr.num - 1 /\ (encr.cnt + 1) % CntMod = encr.cnt + 1
    BY <2>2
  <2>4. /\ encr.cnt + 1 \in 0 .. CntMod - 1 /\ 0 \in 0 .. CntMod - 1
        /\ encr.written + 1 \in 0 .. CntMod
    BY <2>2
  <2>5. encr \in EncrFlops
    BY <1>0, TypeParts
  <2>6. e \in EncrFlops
    BY <2>3, <2>4, <2>5, Zenon DEF EncrFlops
  <2>7. /\ e.num = encr.num /\ e.written = encr.cnt + 1 /\ e.res = encr.res
        /\ ~LastEncrBlock => e.cnt = encr.cnt + 1
    BY <2>2, <2>3, <2>5 DEF EncrFlops
  <2>8. LastEncrBlock <=> encr.cnt + 1 = encr.num
    BY <2>2, <2>3 DEF LastEncrBlock
  <2>9. ASSUME LastEncrBlock PROVE DataIInv'
    <3>1. /\ cmd' = [st |-> "IDLE", sub |-> 1] /\ cmd'.st = "IDLE"
          /\ encr' = [e EXCEPT !.res = "OK"] /\ AesAfterEnd
      BY <1>5, <2>9 DEF WriteDone
    <3>2. aes' = [aes EXCEPT !.st = "AES_IDLE"]
      BY <2>1, <3>1 DEF AesAfterEnd
    <3> HIDE DEF e
    <3>3. encr' \in EncrFlops
      BY <2>6, <3>1, Zenon DEF EncrFlops
    <3>4. encr'.num = encr'.written
      BY <2>6, <2>7, <2>8, <2>9, <3>1 DEF EncrFlops
    <3>5. cmd' \in CmdFlops
      BY <3>1 DEF CmdFlops
    <3>6. aes' \in AesFlops /\ aes'.st = "AES_IDLE"
      <4>1. aes \in AesFlops /\ "AES_IDLE" \in AesStates
        BY <1>0, TypeParts DEF AesStates
      <4> QED
        BY <3>2, <4>1, Zenon DEF AesFlops
    <3>7. DataTypeOK' /\ SeqsOK'
      BY <1>0, <1>1, <1>2, <3>3, <3>5, <3>6, TypeParts DEF DataTypeOK, SeqsOK,
         CmdFlops, EncrFlops, Transfers, AesFlops, AesStates
    <3>8. IdleClean' /\ Counted'
      BY <1>1, <2>1, <3>1, <3>4, <3>6 DEF IdleClean, CoreIdle, Counted, AllBlocksWritten
    <3>9. SubStates' /\ AesPlace' /\ InFlight' /\ AesBlocksInOrder' /\ Between'
      BY <3>1 DEF SubStates, AesPlace, InFlight, AesBlocksInOrder, Between, Moving, In, Sub, ReadsTag
    <3> QED
      BY <3>7, <3>8, <3>9 DEF DataIInv
  <2>10. ASSUME ~LastEncrBlock PROVE DataIInv'
    <3>1. cmd' = [cmd EXCEPT !.sub = 1] /\ encr' = e /\ UNCHANGED aes
      BY <1>5, <2>10 DEF WriteDone, Goto
    <3>2. cmd'.st = "ENCR" /\ cmd'.sub = 1
      BY <1>0, <1>1, <3>1 DEF DataTypeOK
    <3> HIDE DEF e
    <3>3. cmd' \in CmdFlops
      <4>1. cmd \in CmdFlops /\ 1 \in 1 .. 4
        BY <1>0, TypeParts
      <4> QED
        BY <3>1, <4>1, Zenon DEF CmdFlops
    <3>4. DataTypeOK' /\ SeqsOK'
      BY <1>0, <1>1, <1>2, <2>6, <3>1, <3>3, TypeParts DEF DataTypeOK, SeqsOK,
         CmdFlops, EncrFlops, Transfers, AesFlops, AesStates
    <3>5. IdleClean' /\ SubStates' /\ AesPlace' /\ Between'
      BY <1>0, <1>1, <1>3, <2>1, <3>1, <3>2 DEF IdleClean, SubStates, AesPlace, CoreIdle, In, Sub,
         ReadsTag, Between, Moving
    <3>6. Len(ib') = 0 /\ Len(ob') = 0 /\ Len(core'.blocks) = 0
      BY <1>1, <2>1 DEF CoreIdle
    <3>7. Taken' = 0 /\ Out' = 0
      BY <1>1, <1>3, <3>2, <3>6 DEF Got, Taken, Out
    <3>8. InFlight'
      BY <3>6, <3>7, Sizes DEF InFlight, Holds
    <3>9. AesBlocksInOrder'
      BY <1>1, <2>1, <3>1, <3>6, <3>7, Sizes DEF AesBlocksInOrder, InOrder, CoreIdle
    <3>10. Counted'
      BY <1>0, <1>1, <2>2, <2>7, <2>8, <2>10, <3>1, <3>2 DEF Counted, AllBlocksWritten
    <3> QED
      BY <3>4, <3>5, <3>8, <3>9, <3>10 DEF DataIInv
  <2> QED
    BY <2>9, <2>10
<1> QED
  BY <1>4, <1>5

\* AES_IDLE is left in sub-state 1 only.
LEMMA AesStartData ==
  ASSUME DataIInv, AesStart
  PROVE  DataIInv'
<1>0. /\ DataTypeOK /\ SeqsOK /\ IdleClean /\ SubStates /\ AesPlace /\ InFlight
      /\ AesBlocksInOrder /\ Between /\ Counted /\ Fields
  BY FieldTypes DEF DataIInv
<1>1. /\ aes.st = "AES_IDLE" /\ cmd.st # "IDLE" /\ (bypass \/ cmd.sub = 1)
      /\ aes' = [aes EXCEPT !.st = IF bypass THEN "AES_BYPASS" ELSE "AES_IN"]
      /\ UNCHANGED <<cmd, bypass, encr, rd, wr, core, ib, ob, gen>>
  BY DEF AesStart
<1>2. /\ aes'.st = (IF bypass THEN "AES_BYPASS" ELSE "AES_IN")
      /\ aes'.cnt = aes.cnt /\ aes'.first = aes.first /\ aes'.last = aes.last
  BY <1>0, <1>1 DEF DataTypeOK
<1>3. cmd.sub = 1
  <2>1. ASSUME ~Moving, bypass PROVE FALSE
    BY <1>0, <1>1, <2>1 DEF Between
  <2> QED
    BY <1>1, <2>1 DEF Moving
<1>4. Moving /\ Moving' /\ Taken' = Taken /\ Out' = Out
  BY <1>1, <1>3 DEF Moving, Got, Taken, Out
<1>5. DataTypeOK' /\ SeqsOK'
  <2>1. aes' \in AesFlops
    <3>1. aes \in AesFlops /\ "AES_IN" \in AesStates /\ "AES_BYPASS" \in AesStates
      BY <1>0, TypeParts DEF AesStates
    <3> QED
      BY <1>1, <3>1, Zenon DEF AesFlops
  <2> QED
    BY <1>0, <1>1, <2>1, TypeParts DEF DataTypeOK, SeqsOK,
       CmdFlops, EncrFlops, Transfers, AesFlops, AesStates
<1>6. IdleClean' /\ SubStates' /\ AesPlace'
  BY <1>0, <1>1, <1>2 DEF IdleClean, SubStates, AesPlace, CoreIdle, In, Sub, ReadsTag
<1>7. InFlight'
  BY <1>0, <1>1, <1>2, <1>4 DEF InFlight, Holds, Word
<1>8. AesBlocksInOrder'
  BY <1>0, <1>1, <1>2, <1>4 DEF AesBlocksInOrder, InOrder, Holds, Word
<1>9. Between' /\ Counted'
  BY <1>0, <1>1, <1>4 DEF Between, Counted, AllBlocksWritten
<1> QED
  BY <1>5, <1>6, <1>7, <1>8, <1>9 DEF DataIInv

\* The idle core is configured before the first line.
LEMMA ConfigureData ==
  ASSUME DataIInv, Configure
  PROVE  DataIInv'
<1>0. /\ DataTypeOK /\ SeqsOK /\ IdleClean /\ SubStates /\ AesPlace /\ InFlight
      /\ AesBlocksInOrder /\ Between /\ Counted /\ Fields
  BY FieldTypes DEF DataIInv
<1>1. /\ cmd.st # "IDLE" /\ cmd.sub = 1 /\ ~bypass /\ ~core.run
      /\ core' = [core EXCEPT !.run = TRUE] /\ aes' = [aes EXCEPT !.cnt = 0]
      /\ UNCHANGED <<cmd, bypass, encr, rd, wr, ib, ob, gen>>
  BY DEF Configure, Sub
<1>2. /\ aes'.st = aes.st /\ aes'.cnt = 0 /\ aes'.first = aes.first /\ aes'.last = aes.last
      /\ core'.run = TRUE /\ core'.blocks = core.blocks /\ core'.tag = core.tag
      /\ DOMAIN core' = {"run", "blocks", "tag"}
  BY <1>0, <1>1 DEF DataTypeOK, SeqsOK
<1>3. Moving /\ Moving' /\ Taken' = Taken /\ Out' = Out
  BY <1>1 DEF Moving, Got, Taken, Out
<1>4. Taken = 0
  BY <1>0, <1>1, <1>3 DEF AesBlocksInOrder
<1>5. DataTypeOK' /\ SeqsOK'
  <2>1. aes' \in AesFlops
    <3>1. aes \in AesFlops /\ 0 \in 0 .. AesBlocks - 1
      BY <1>0, TypeParts, Sizes
    <3> QED
      BY <1>1, <3>1, Zenon DEF AesFlops
  <2> QED
    BY <1>0, <1>1, <1>2, <2>1, TypeParts DEF DataTypeOK, SeqsOK,
       CmdFlops, EncrFlops, Transfers, AesFlops, AesStates
<1>6. IdleClean' /\ SubStates' /\ AesPlace'
  BY <1>0, <1>1, <1>2 DEF IdleClean, SubStates, AesPlace, CoreIdle, In, Sub, ReadsTag
<1>7. InFlight'
  BY <1>0, <1>1, <1>2, <1>3 DEF InFlight, Holds, Word
<1>8. AesBlocksInOrder'
  BY <1>0, <1>1, <1>2, <1>3, <1>4, Sizes DEF AesBlocksInOrder, InOrder, Holds, Word
<1>9. Between' /\ Counted'
  BY <1>0, <1>1, <1>3 DEF Between, Counted, AllBlocksWritten
<1> QED
  BY <1>5, <1>6, <1>7, <1>8, <1>9 DEF DataIInv

\* AES_IN goes to wait for the last output.
LEMMA AesInLastData ==
  ASSUME DataIInv, AesInLast
  PROVE  DataIInv'
<1>0. /\ DataTypeOK /\ SeqsOK /\ IdleClean /\ SubStates /\ AesPlace /\ InFlight
      /\ AesBlocksInOrder /\ Between /\ Counted /\ Fields
  BY FieldTypes DEF DataIInv
<1>1. /\ aes.st = "AES_IN" /\ aes' = [aes EXCEPT !.st = "AES_OUT"]
      /\ UNCHANGED <<cmd, bypass, encr, rd, wr, core, ib, ob, gen>>
  BY DEF AesInLast
<1>2. aes'.st = "AES_OUT" /\ aes'.cnt = aes.cnt /\ aes'.first = aes.first /\ aes'.last = aes.last
  BY <1>0, <1>1 DEF DataTypeOK
<1>3. Moving /\ Moving' /\ Taken' = Taken /\ Out' = Out /\ ~bypass /\ cmd.st # "IDLE"
  BY <1>0, <1>1, <1>2 DEF Moving, Got, Taken, Out, IdleClean, Between, AesPlace
<1>4. DataTypeOK' /\ SeqsOK'
  <2>1. aes' \in AesFlops
    <3>1. aes \in AesFlops /\ "AES_OUT" \in AesStates
      BY <1>0, TypeParts DEF AesStates
    <3> QED
      BY <1>1, <3>1, Zenon DEF AesFlops
  <2> QED
    BY <1>0, <1>1, <2>1, TypeParts DEF DataTypeOK, SeqsOK,
       CmdFlops, EncrFlops, Transfers, AesFlops, AesStates
<1>5. IdleClean' /\ SubStates' /\ AesPlace'
  BY <1>0, <1>1, <1>2, <1>3 DEF IdleClean, SubStates, AesPlace, CoreIdle, In, Sub, ReadsTag
<1>6. InFlight'
  BY <1>0, <1>1, <1>2, <1>3 DEF InFlight, Holds, Word
<1>7. AesBlocksInOrder'
  BY <1>0, <1>1, <1>2, <1>3 DEF AesBlocksInOrder, InOrder, Holds, Word
<1>8. Between' /\ Counted'
  BY <1>0, <1>1, <1>3 DEF Between, Counted, AllBlocksWritten
<1> QED
  BY <1>4, <1>5, <1>6, <1>7, <1>8 DEF DataIInv

\* AES_TAG_OUT puts the tag behind the last word of the block.
LEMMA AesTagOutData ==
  ASSUME DataIInv, AesTagOut
  PROVE  DataIInv'
<1>0. /\ DataTypeOK /\ SeqsOK /\ IdleClean /\ SubStates /\ AesPlace /\ InFlight
      /\ AesBlocksInOrder /\ Between /\ Counted /\ Fields /\ Lengths
  BY FieldTypes DEF DataIInv
<1>1. /\ aes.st = "AES_TAG_OUT" /\ cmd.st = "ENCR" /\ core.tag
      /\ OB!QueueCycle(FALSE, TRUE, FALSE, Tag)
      /\ core' = [core EXCEPT !.run = FALSE, !.tag = FALSE]
      /\ aes' = [aes EXCEPT !.st = "AES_IDLE"]
      /\ UNCHANGED <<cmd, bypass, encr, rd, wr, ib, gen>>
  BY DEF AesTagOut
<1>2. /\ aes'.st = "AES_IDLE" /\ aes'.cnt = aes.cnt /\ aes'.first = aes.first
      /\ core'.run = FALSE /\ core'.blocks = core.blocks /\ core'.tag = FALSE
      /\ DOMAIN core' = {"run", "blocks", "tag"}
  BY <1>0, <1>1 DEF DataTypeOK, SeqsOK
<1>3. ob = << >> /\ Len(ob) = 0
  BY <1>0, Emptied DEF SeqsOK, AesTagOut, OB!Empty
<1>4. Tag \in Seq(Words) /\ Len(Tag) = Ratio /\ \A i \in 1 .. Ratio : Tag[i] = Word("TAG", i)
  <2>1. \A i \in 1 .. Ratio : Word("TAG", i) \in Words
    BY <1>0, Sizes DEF Words, Word, Kinds, Fields
  <2> QED
    BY <2>1, Sizes DEF Tag
<1>5. ob' = Tag
  BY <1>1, <1>3, <1>4, ObPush
<1>6. ob' \in Seq(Words) /\ Len(ob') = Ratio /\ Holds(ob, "TAG", 0)'
  BY <1>1, <1>4, <1>5 DEF Holds, Word
<1>7. /\ core.blocks = << >> /\ aes.cnt = 0 /\ ib = << >> /\ ~bypass /\ (cmd.sub = 2 \/ cmd.sub = 3)
      /\ cmd.sub = 2 => wr.cnt = BlockWords
      /\ cmd.sub = 3 => wr.cnt = 0
  <2>1. ~bypass /\ (cmd.sub = 2 \/ cmd.sub = 3)
    BY <1>0, <1>1 DEF AesPlace, SubStates, Fields
  <2>2. ASSUME cmd.sub = 2
        PROVE  wr.cnt = BlockWords /\ core.blocks = << >> /\ aes.cnt = 0 /\ ib = << >>
    <3>1. Moving
      BY <1>1, <2>2 DEF Moving
    <3>2. Out = BlockWords
      BY <1>0, <1>1, <2>1, <3>1 DEF AesBlocksInOrder
    <3>3. wr.cnt = BlockWords
      BY <1>0, <1>3, <3>2 DEF Out, Fields
    <3> QED
      BY <2>1, <2>2, <3>1, <3>3, AllMoved
  <2>3. ASSUME cmd.sub = 3
        PROVE  wr.cnt = 0 /\ core.blocks = << >> /\ aes.cnt = 0 /\ ib = << >>
    <3>1. ~Moving
      BY <2>3 DEF Moving
    <3>2. Out = 0 /\ core.blocks = << >> /\ aes.cnt = 0 /\ ib = << >>
      BY <1>0, <1>1, <2>1, <2>3, <3>1 DEF Between, In
    <3> QED
      BY <1>0, <1>3, <3>2 DEF Out, Fields
  <2> QED
    BY <2>1, <2>2, <2>3
<1>8. DataTypeOK' /\ SeqsOK'
  <2>1. aes' \in AesFlops
    <3>1. aes \in AesFlops /\ "AES_IDLE" \in AesStates
      BY <1>0, TypeParts DEF AesStates
    <3> QED
      BY <1>1, <3>1, Zenon DEF AesFlops
  <2>2. Len(ob') \in 0 .. Ratio
    BY <1>6, Sizes
  <2> QED
    BY <1>0, <1>1, <1>2, <1>6, <2>1, <2>2, TypeParts DEF DataTypeOK, SeqsOK,
       CmdFlops, EncrFlops, Transfers, AesFlops, AesStates
<1>9. IdleClean' /\ SubStates' /\ AesPlace'
  BY <1>0, <1>1, <1>2, <1>7 DEF IdleClean, SubStates, AesPlace, CoreIdle, In, Sub, ReadsTag
<1>10. ~Moving' /\ InFlight' /\ AesBlocksInOrder'
  BY <1>1, <1>2, <1>7 DEF InFlight, AesBlocksInOrder, Moving
<1>11. Between'
  <2>1. cmd.sub = 3 => Out' = Ratio /\ Holds(ob, "TAG", wr.cnt)'
    BY <1>1, <1>6, <1>7, Sizes DEF Out, Holds, Word
  <2> QED
    BY <1>1, <1>2, <1>6, <1>7, <2>1 DEF Between, In, ReadsTag
<1>12. Counted'
  BY <1>0, <1>1 DEF Counted, AllBlocksWritten
<1> QED
  BY <1>8, <1>9, <1>10, <1>11, <1>12 DEF DataIInv

\* The line at the head of the input buffer while a block moves: the next words
\* of the block.
LEMMA LineTaken ==
  ASSUME DataIInv, Moving, IB!PopRdy
  PROVE  /\ Taken \in Nat /\ Taken + Ratio <= BlockWords
         /\ IB!PopData \in Seq(Words) /\ Len(IB!PopData) = Ratio /\ Holds(IB!PopData, "IN", Taken)
<1>0. SeqsOK /\ InFlight /\ Fields /\ Lengths
  BY FieldTypes DEF DataIInv
<1>1. Taken >= 0 /\ Holds(ib, "IN", Taken)
  BY <1>0 DEF InFlight
<1>2. /\ IB!PopData \in Seq(Words) /\ Len(IB!PopData) = Ratio
      /\ \A i \in 1 .. Ratio : IB!PopData[i] = ib[i]
  BY <1>0, IbLine DEF SeqsOK
<1>3. Len(ib) >= Ratio /\ Len(ib) \in Nat /\ Ratio \in Nat
  BY <1>0, Sizes DEF IB!PopRdy, Lengths
<1>4. Got \in Nat /\ Got <= BlockWords /\ BlockWords \in Nat
  BY <1>0, Sizes DEF Got, Fields
<1>5. Taken \in Nat /\ Taken + Ratio <= BlockWords
  BY <1>1, <1>3, <1>4 DEF Taken
<1>6. \A i \in 1 .. Ratio : i \in 1 .. Len(ib)
  BY <1>3
<1>7. \A i \in 1 .. Ratio : IB!PopData[i] = Word("IN", Taken + i)
  BY <1>1, <1>2, <1>6, Zenon DEF Holds
<1> QED
  BY <1>2, <1>5, <1>7 DEF Holds

\* The ledger after that line has left the buffer.
LEMMA LineGone ==
  ASSUME DataIInv, Moving, IB!PopRdy, IB!QueueCycle(FALSE, FALSE, TRUE, << >>),
         UNCHANGED <<cmd, rd, gen>>
  PROVE  /\ Taken' = Taken + Ratio /\ Holds(ib, "IN", Taken)' /\ ib' \in Seq(Words)
         /\ Len(ib') \in 0 .. BlockWords
<1>0. SeqsOK /\ InFlight /\ Fields /\ Lengths
  BY FieldTypes DEF DataIInv
<1>1. Holds(ib, "IN", Taken) /\ Taken \in Nat
  BY <1>0, LineTaken DEF InFlight
<1>2. /\ ib' \in Seq(Words) /\ Len(ib) >= Ratio /\ Len(ib') = Len(ib) - Ratio
      /\ \A i \in 1 .. Len(ib') : ib'[i] = ib[Ratio + i]
  BY <1>0, IbPop DEF SeqsOK
<1>3. /\ Len(ib) \in Nat /\ Len(ib) <= BlockWords /\ Ratio \in Nat /\ BlockWords \in Nat
      /\ Len(ib') = Len(ib) - Ratio /\ Len(ib) >= Ratio
  BY <1>0, <1>2, Sizes DEF Lengths
<1>4. Got' = Got /\ Got \in Nat
  BY <1>0, Sizes DEF Got, Fields
<1>5. Taken' = Taken + Ratio
  BY <1>3, <1>4 DEF Taken
<1>6. Len(ib') \in 0 .. BlockWords
  BY <1>3
<1>7. ASSUME NEW i \in 1 .. Len(ib') PROVE ib'[i] = Word("IN", Taken + Ratio + i)
  <2>1. Ratio + i \in 1 .. Len(ib) /\ Taken + (Ratio + i) = Taken + Ratio + i
    BY <1>1, <1>3
  <2>2. ib[Ratio + i] = Word("IN", Taken + (Ratio + i))
    BY <1>1, <2>1 DEF Holds
  <2> QED
    BY <1>2, <2>1, <2>2
<1>8. Holds(ib, "IN", Taken)'
  BY <1>5, <1>7 DEF Holds, Word
<1> QED
  BY <1>2, <1>5, <1>6, <1>8

\* AES_BYPASS moves a line: nothing is in between.
LEMMA AesBypassData ==
  ASSUME DataIInv, AesBypass
  PROVE  DataIInv'
<1>0. /\ DataTypeOK /\ SeqsOK /\ IdleClean /\ SubStates /\ AesPlace /\ InFlight
      /\ AesBlocksInOrder /\ Between /\ Counted /\ Fields /\ Lengths
  BY FieldTypes DEF DataIInv
<1>1. /\ aes.st = "AES_BYPASS" /\ IB!PopRdy /\ OB!QueueCycle(FALSE, TRUE, FALSE, IB!PopData)
      /\ IB!QueueCycle(FALSE, FALSE, TRUE, << >>)
      /\ UNCHANGED <<cmd, bypass, encr, rd, wr, aes, core, gen>>
  BY DEF AesBypass
<1>2. ob = << >> /\ Len(ob) = 0
  BY <1>0, Emptied DEF SeqsOK, AesBypass, OB!Empty
<1>3. cmd.st # "IDLE" /\ bypass /\ CoreIdle
  BY <1>0, <1>1 DEF IdleClean, AesPlace
<1>4. Moving
  <2>1. ASSUME ~Moving PROVE FALSE
    <3>1. cmd.st = "FETCH" /\ cmd.sub = 4
      BY <1>0, <1>1, <1>3, <2>1 DEF Between, SubStates, Moving, Fields
    <3>2. Len(ib) = 0 /\ Len(ib) >= Ratio
      BY <1>0, <1>1, <1>3, <2>1, <3>1 DEF Between, In, IB!PopRdy
    <3> QED
      BY <3>2, Sizes
  <2> QED
    BY <2>1
<1>5. /\ Taken \in Nat /\ IB!PopData \in Seq(Words) /\ Len(IB!PopData) = Ratio
      /\ Holds(IB!PopData, "IN", Taken)
  BY <1>1, <1>4, LineTaken
<1>6. /\ Taken' = Taken + Ratio /\ Holds(ib, "IN", Taken)' /\ ib' \in Seq(Words)
      /\ Len(ib') \in 0 .. BlockWords
  BY <1>1, <1>4, LineGone
<1>7. ob' = IB!PopData
  BY <1>1, <1>2, <1>5, ObPush
<1>8. Len(core.blocks) = 0 /\ Lines(Len(core.blocks)) = 0
  <2>1. Len(core.blocks) = 0
    BY <1>3 DEF CoreIdle
  <2> QED
    BY <2>1, Sizes, Zenon
<1>9. wr.cnt = Taken /\ Out' = Taken'
  <2>1. Out + 0 = Taken
    BY <1>0, <1>4, <1>8 DEF InFlight
  <2>2. Out = wr.cnt + 0 /\ wr.cnt \in Nat
    BY <1>0, <1>2 DEF Out, Fields
  <2>3. Out' = wr.cnt + Ratio
    BY <1>1, <1>5, <1>7 DEF Out
  <2> QED
    BY <1>5, <1>6, <2>1, <2>2, <2>3, Sizes
<1>10. DataTypeOK' /\ SeqsOK'
  <2>1. Len(ob') \in 0 .. Ratio /\ ob' \in Seq(Words)
    BY <1>5, <1>7, Sizes
  <2> QED
    BY <1>0, <1>1, <1>6, <2>1, TypeParts DEF DataTypeOK, SeqsOK,
       CmdFlops, EncrFlops, Transfers, AesFlops, AesStates
<1>11. IdleClean' /\ SubStates' /\ AesPlace'
  BY <1>0, <1>1, <1>3 DEF IdleClean, SubStates, AesPlace, CoreIdle, In, Sub, ReadsTag
<1>12. Holds(ob, "IN", wr.cnt)'
  BY <1>1, <1>5, <1>7, <1>9 DEF Holds, Word
<1>13. Moving' /\ Taken' \in Nat
  BY <1>1, <1>4, <1>5, <1>6, Sizes DEF Moving
<1>14. InFlight'
  <2>1. Out' + Lines(Len(core'.blocks)) = Taken'
    BY <1>1, <1>8, <1>9, <1>13
  <2> QED
    BY <1>1, <1>3, <1>6, <1>12, <1>13, <2>1 DEF InFlight
<1>15. AesBlocksInOrder' /\ Between'
  BY <1>1, <1>3, <1>13 DEF AesBlocksInOrder, Between
<1>16. Counted'
  BY <1>0, <1>1 DEF Counted, AllBlocksWritten
<1> QED
  BY <1>10, <1>11, <1>14, <1>15, <1>16 DEF DataIInv

\* The AES blocks in the core when one more goes in.
LEMMA OneMoreIn ==
  ASSUME NEW bs \in Seq(AesBlock), NEW o \in Nat, NEW b \in AesBlock, InOrder(bs, o),
         Len(b.line) = Ratio, Holds(b.line, "IN", o + Lines(Len(bs))),
         b.last <=> o + Lines(Len(bs) + 1) = BlockWords,
         NEW r, r = bs \o <<b>>
  PROVE  r \in Seq(AesBlock) /\ Len(r) = Len(bs) + 1 /\ InOrder(r, o)
<1>1. PICK d : d = <<b>>
  OBVIOUS
<1>2. d \in Seq(AesBlock) /\ Len(d) = 1 /\ d[1] = b
  BY <1>1
<1>3. r = bs \o d /\ Len(bs) \in Nat
  BY <1>1, LenProperties
<1>4. /\ r \in Seq(AesBlock) /\ Len(r) = Len(bs) + Len(d)
      /\ \A i \in 1 .. Len(bs) + Len(d) : r[i] = IF i <= Len(bs) THEN bs[i] ELSE d[i - Len(bs)]
  BY <1>2, <1>3, ConcatProperties
<1>5. /\ Len(r) = Len(bs) + 1 /\ r[Len(bs) + 1] = b
      /\ \A i \in 1 .. Len(bs) : r[i] = bs[i]
  BY <1>2, <1>3, <1>4
<1>6. ASSUME NEW j \in 1 .. Len(r)
      PROVE  /\ Len(r[j].line) = Ratio /\ Holds(r[j].line, "IN", o + Lines(j - 1))
             /\ r[j].last <=> o + Lines(j) = BlockWords
  <2>1. CASE j \in 1 .. Len(bs)
    BY <1>5, <2>1, Zenon DEF InOrder
  <2>2. CASE j = Len(bs) + 1
    <3>1. j - 1 = Len(bs)
      BY <1>3, <2>2
    <3> QED
      BY <1>5, <2>2, <3>1, Zenon
  <2> QED
    BY <1>3, <1>5, <2>1, <2>2
<1> QED
  BY <1>4, <1>5, <1>6 DEF InOrder

\* The AES blocks in the core when the first comes out.
LEMMA FirstOut ==
  ASSUME NEW bs \in Seq(AesBlock), NEW o \in Nat, InOrder(bs, o), bs # << >>
  PROVE  /\ Len(bs) >= 1 /\ Head(bs) = bs[1] /\ Head(bs) \in AesBlock
         /\ Tail(bs) \in Seq(AesBlock) /\ Len(Tail(bs)) = Len(bs) - 1
         /\ InOrder(Tail(bs), o + Ratio)
         /\ Len(bs[1].line) = Ratio /\ Holds(bs[1].line, "IN", o)
         /\ bs[1].last <=> o + Ratio = BlockWords
<1>1. /\ Head(bs) \in AesBlock /\ Tail(bs) \in Seq(AesBlock) /\ Len(Tail(bs)) = Len(bs) - 1
      /\ Head(bs) = bs[1] /\ Len(bs) \in Nat /\ Len(bs) >= 1
  BY HeadTailProperties, LenProperties, EmptySeq
<1>2. \A i \in 1 .. Len(bs) - 1 : Tail(bs)[i] = bs[1 + i]
  BY <1>1
<1>3. ASSUME NEW j \in 1 .. Len(Tail(bs))
      PROVE  /\ Len(Tail(bs)[j].line) = Ratio
             /\ Holds(Tail(bs)[j].line, "IN", o + Ratio + Lines(j - 1))
             /\ Tail(bs)[j].last <=> o + Ratio + Lines(j) = BlockWords
  <2>1. j \in 1 .. Len(bs) - 1 /\ 1 + j \in 1 .. Len(bs) /\ j \in Nat /\ j - 1 \in Nat
    BY <1>1
  <2>2. (1 + j) - 1 = j /\ (j - 1) + 1 = j /\ 1 + j = j + 1
    BY <2>1
  <2>3. /\ Lines(j) = Lines(j - 1) + Ratio /\ Lines(1 + j) = Lines(j) + Ratio
        /\ Lines(j) \in Nat /\ Lines(j - 1) \in Nat
    BY <2>1, <2>2, LineSizes, Zenon
  <2>4. o + Ratio + Lines(j - 1) = o + Lines(j) /\ o + Ratio + Lines(j) = o + Lines(1 + j)
    BY <2>3, Sizes
  <2>5. /\ Len(bs[1 + j].line) = Ratio /\ Holds(bs[1 + j].line, "IN", o + Lines(j))
        /\ bs[1 + j].last <=> o + Lines(1 + j) = BlockWords
    BY <2>1, <2>2, Zenon DEF InOrder
  <2> QED
    BY <1>2, <2>1, <2>4, <2>5, Zenon
<1>4. /\ Len(bs[1].line) = Ratio /\ Holds(bs[1].line, "IN", o)
      /\ bs[1].last <=> o + Ratio = BlockWords
  <2>1. PICK j \in 1 .. Len(bs) : j = 1
    BY <1>1
  <2>2. j - 1 = 0 /\ o + 0 = o
    BY <2>1
  <2>3. Lines(j) = Ratio /\ Lines(j - 1) = 0
    BY <2>1, <2>2, Sizes, Zenon
  <2>4. /\ Len(bs[j].line) = Ratio /\ Holds(bs[j].line, "IN", o + Lines(j - 1))
        /\ bs[j].last <=> o + Lines(j) = BlockWords
    BY DEF InOrder
  <2> QED
    BY <2>1, <2>2, <2>3, <2>4, Zenon
<1> QED
  BY <1>1, <1>3, <1>4 DEF InOrder

\* The AES block that goes in, its place and its flag.
LEMMA BlockIn ==
  ASSUME DataIInv, Moving, ~bypass, DinRdy, IB!PopRdy
  PROVE  /\ Out \in Nat /\ Taken = Lines(aes.cnt) /\ Taken + Ratio <= BlockWords
         /\ Block \in AesBlock /\ Len(Block.line) = Ratio
         /\ Out + Lines(Len(core.blocks)) = Taken /\ Holds(Block.line, "IN", Taken)
         /\ Block.last <=> Taken + Ratio = BlockWords
         /\ Lines(Len(core.blocks) + 1) = Lines(Len(core.blocks)) + Ratio
         /\ Len(core.blocks) \in Nat /\ Len(core.blocks) < 2
<1>0. InFlight /\ AesBlocksInOrder /\ Fields /\ Lengths /\ InCore
  BY FieldTypes DEF DataIInv
<1>1. /\ Taken \in Nat /\ Taken + Ratio <= BlockWords
      /\ IB!PopData \in Seq(Words) /\ Len(IB!PopData) = Ratio /\ Holds(IB!PopData, "IN", Taken)
  BY LineTaken
<1>2. Taken = Lines(aes.cnt)
  <2>1. Taken # BlockWords
    BY <1>1, Sizes
  <2> QED
    BY <1>0, <2>1 DEF AesBlocksInOrder
<1>3. Block.line = IB!PopData /\ Block.last = last_aes_block /\ Block \in AesBlock
  <2>1. last_aes_block \in BOOLEAN
    BY DEF last_aes_block
  <2> QED
    BY <1>1, <2>1, Zenon DEF Block, AesBlock
<1>4. Block.last <=> Taken + Ratio = BlockWords
  BY <1>0, <1>2, <1>3, CntLines, Zenon
<1>5. Out \in Nat
  BY <1>0 DEF Out, Fields, Lengths
<1>6. Len(core.blocks) \in Nat /\ Len(core.blocks) < 2
  BY <1>0 DEF Lengths, DinRdy
<1>7. Lines(Len(core.blocks) + 1) = Lines(Len(core.blocks)) + Ratio
  BY <1>6, LineSizes, Zenon
<1> QED
  BY <1>0, <1>1, <1>2, <1>3, <1>4, <1>5, <1>6, <1>7 DEF InFlight

\* The flops of Driven: aes_block_cnt wraps after the last AES block.
LEMMA DrivenFlops ==
  ASSUME DataIInv
  PROVE  /\ Driven(aes) \in AesFlops
         /\ Driven(aes).cnt = IF last_aes_block THEN 0 ELSE aes.cnt + 1
<1>1. aes \in AesFlops /\ Fields
  BY TypeParts, FieldTypes DEF DataIInv
<1>2. aes.cnt \in Nat /\ aes.cnt <= AesBlocks - 1
  BY <1>1 DEF Fields
<1>3. (aes.cnt + 1) % AesBlocks = IF last_aes_block THEN 0 ELSE aes.cnt + 1
  <2>1. CASE last_aes_block
    <3>1. aes.cnt + 1 = AesBlocks
      BY <1>2, <2>1, Sizes DEF last_aes_block
    <3>2. AesBlocks % AesBlocks = 0
      BY Sizes
    <3> QED
      BY <2>1, <3>1, <3>2
  <2>2. CASE ~last_aes_block
    BY <1>2, <2>2, Sizes DEF last_aes_block
  <2> QED
    BY <2>1, <2>2
<1>4. (aes.cnt + 1) % AesBlocks \in 0 .. AesBlocks - 1
  BY <1>2, Sizes
<1>5. (aes.first \/ first_aes_block) \in BOOLEAN /\ (aes.last \/ last_aes_block) \in BOOLEAN
  BY DEF first_aes_block, last_aes_block
<1>6. Driven(aes) \in AesFlops
  BY <1>1, <1>4, <1>5, Zenon DEF Driven, AesFlops
<1>7. Driven(aes).cnt = (aes.cnt + 1) % AesBlocks
  BY <1>1 DEF Driven, AesFlops
<1> QED
  BY <1>3, <1>6, <1>7

\* The count after the block went in.
LEMMA CountIn ==
  ASSUME DataIInv, Moving, ~bypass, DinRdy, IB!PopRdy
  PROVE  LET c == Driven(aes).cnt IN
         Taken + Ratio = Lines(c) \/ (c = 0 /\ Taken + Ratio = BlockWords)
<1>0. Fields
  BY FieldTypes
<1>1. Taken = Lines(aes.cnt) /\ (last_aes_block <=> Taken + Ratio = BlockWords)
      /\ Lines(aes.cnt + 1) = Taken + Ratio
  BY <1>0, BlockIn, CntLines, Zenon
<1>2. Driven(aes).cnt = IF last_aes_block THEN 0 ELSE aes.cnt + 1
  BY DrivenFlops
<1>3. CASE last_aes_block
  BY <1>1, <1>2, <1>3, Zenon
<1>4. CASE ~last_aes_block
  BY <1>1, <1>2, <1>4, Zenon
<1> QED
  BY <1>3, <1>4

\* In AES_IN and AES_OUT a block is on its way, and not past the core.
LEMMA AesBusy ==
  ASSUME DataIInv, aes.st \in {"AES_IN", "AES_OUT"}
  PROVE  cmd.st # "IDLE" /\ Moving /\ ~bypass /\ ~core.tag
BY DEF DataIInv, IdleClean, AesPlace, Between

\* The line that comes out of the core, and what is left in it.
LEMMA BlockOut ==
  ASSUME DataIInv, Moving, ~bypass, DoutVld, UNCHANGED <<wr, gen>>,
         OB!QueueCycle(FALSE, TRUE, FALSE, Encrypted(Head(core.blocks).line))
  PROVE  /\ Out \in Nat /\ Out' = Out + Ratio /\ Out + Ratio <= Taken
         /\ ob' \in Seq(Words) /\ Len(ob') = Ratio /\ Holds(ob, "OUT", wr.cnt)'
         /\ Tail(core.blocks) \in Seq(AesBlock) /\ InOrder(Tail(core.blocks), Out + Ratio)
         /\ Len(Tail(core.blocks)) = Len(core.blocks) - 1 /\ Len(core.blocks) >= 1
         /\ Lines(Len(core.blocks)) = Lines(Len(core.blocks) - 1) + Ratio
         /\ Lines(Len(core.blocks) - 1) \in Nat
         /\ Head(core.blocks).last <=> Out + Ratio = BlockWords
<1>0. SeqsOK /\ InFlight /\ AesBlocksInOrder /\ Fields /\ Lengths /\ InCore
  BY FieldTypes DEF DataIInv
<1>1. ob = << >> /\ Len(ob) = 0 /\ core.blocks # << >>
  BY <1>0, Emptied DEF SeqsOK, DoutVld, OB!Empty
<1>2. Out = wr.cnt /\ Out \in Nat
  BY <1>0, <1>1 DEF Out, Fields
<1> DEFINE bs == core.blocks
<1>3. bs \in Seq(AesBlock) /\ InOrder(bs, Out) /\ bs # << >>
  BY <1>0, <1>1 DEF SeqsOK, AesBlocksInOrder
<1>4. Out + Lines(Len(bs)) = Taken
  BY <1>0 DEF InFlight
<1> HIDE DEF bs
<1>5. /\ Len(bs) >= 1 /\ Head(bs) = bs[1] /\ Head(bs) \in AesBlock
      /\ Tail(bs) \in Seq(AesBlock) /\ Len(Tail(bs)) = Len(bs) - 1
      /\ InOrder(Tail(bs), Out + Ratio)
      /\ Len(bs[1].line) = Ratio /\ Holds(bs[1].line, "IN", Out)
      /\ bs[1].last <=> Out + Ratio = BlockWords
  BY <1>2, <1>3, FirstOut
<1>6. Lines(Len(bs)) = Lines(Len(bs) - 1) + Ratio /\ Lines(Len(bs) - 1) \in Nat
  <2>1. Len(bs) \in Nat
    BY <1>3, LenProperties
  <2>2. Len(bs) - 1 \in Nat /\ (Len(bs) - 1) + 1 = Len(bs)
    BY <1>5, <2>1
  <2> QED
    BY <2>2, LineSizes, Zenon
<1>7. Out + Ratio <= Taken
  BY <1>2, <1>4, <1>6, Sizes
<1>8. Taken \in Int /\ Taken <= BlockWords
  <2>1. Got \in Nat /\ Got <= BlockWords /\ BlockWords \in Nat /\ Len(ib) \in Nat
    BY <1>0, Sizes DEF Got, Fields, Lengths
  <2> QED
    BY <2>1 DEF Taken
<1> DEFINE line == Head(bs).line
           d    == Encrypted(line)
<1>9. \A i \in 1 .. Ratio : d[i] = Word("OUT", Out + i) /\ d[i] \in Words
  <2>1. SUFFICES ASSUME NEW i \in 1 .. Ratio
                 PROVE  d[i] = Word("OUT", Out + i) /\ d[i] \in Words
    OBVIOUS
  <2>2. line[i] = Word("IN", Out + i)
    BY <1>5, <2>1 DEF Holds
  <2>3. d[i] = [line[i] EXCEPT !.kind = "OUT"]
    BY <2>1 DEF Encrypted
  <2>4. d[i] = Word("OUT", Out + i)
    BY <2>2, <2>3 DEF Word
  <2>5. Out + i \in 1 .. BlockWords
    BY <1>2, <1>7, <1>8, Sizes
  <2>6. Word("OUT", Out + i) \in Words
    BY <1>0, <2>5 DEF Word, Words, Kinds, Fields
  <2> QED
    BY <2>4, <2>6
<1>10. d \in Seq(Words) /\ Len(d) = Ratio
  <2>1. d = [i \in 1 .. Ratio |-> [line[i] EXCEPT !.kind = "OUT"]]
    BY DEF Encrypted
  <2> HIDE DEF d
  <2>2. d \in [1 .. Ratio -> Words]
    BY <1>9, <2>1, Zenon
  <2> QED
    BY <2>2, Sizes
<1>11. OB!QueueCycle(FALSE, TRUE, FALSE, d)
  BY DEF bs
<1> HIDE DEF d
<1>12. ob' = d
  BY <1>1, <1>10, <1>11, ObPush
<1>13. Out' = Out + Ratio
  BY <1>2, <1>10, <1>12 DEF Out
<1>14. Holds(ob, "OUT", wr.cnt)'
  BY <1>2, <1>9, <1>10, <1>12 DEF Holds, Word
<1> QED
  BY <1>2, <1>5, <1>6, <1>7, <1>10, <1>12, <1>13, <1>14 DEF bs

\* What a step of AES_IN or AES_OUT has to show.
LEMMA AesStep ==
  ASSUME DataIInv, cmd.st # "IDLE", Moving, ~bypass, UNCHANGED <<cmd, bypass, encr, rd, wr, gen>>,
         aes' \in AesFlops, aes'.st \in {"AES_IN", "AES_OUT", "AES_TAG_OUT"},
         aes'.st # "AES_OUT" => ~aes'.first, cmd.sub = 1 => aes'.st # "AES_TAG_OUT",
         core'.run \in BOOLEAN, core'.tag \in BOOLEAN, core'.run,
         DOMAIN core' = {"run", "blocks", "tag"},
         core'.tag <=> aes'.st = "AES_TAG_OUT", core'.tag <=> Out' = BlockWords,
         core'.blocks \in Seq(AesBlock), Len(core'.blocks) \in 0 .. 2, InOrder(core.blocks, Out)',
         ib' \in Seq(Words), Len(ib') \in 0 .. BlockWords, Taken' >= 0, Holds(ib, "IN", Taken)',
         ob' \in Seq(Words), Len(ob') \in 0 .. Ratio, Holds(ob, "OUT", wr.cnt)',
         Out' + Lines(Len(core'.blocks)) = Taken',
         Taken' = Lines(aes'.cnt) \/ (aes'.cnt = 0 /\ Taken' = BlockWords)
  PROVE  DataIInv'
<1>0. DataTypeOK /\ SubStates /\ AesPlace /\ Counted
  BY DEF DataIInv
<1>1. DataTypeOK' /\ SeqsOK'
  BY <1>0, TypeParts DEF DataTypeOK, SeqsOK,
     CmdFlops, EncrFlops, Transfers, AesFlops, AesStates
<1>2. IdleClean' /\ SubStates' /\ AesPlace'
  BY <1>0 DEF IdleClean, SubStates, AesPlace, In, Sub, ReadsTag
<1>3. Moving'
  BY DEF Moving
<1>4. InFlight'
  BY DEF InFlight
<1>5. AesBlocksInOrder'
  BY DEF AesBlocksInOrder
<1>6. Between' /\ Counted'
  BY <1>0, <1>3 DEF Between, Counted, AllBlocksWritten
<1> QED
  BY <1>1, <1>2, <1>4, <1>5, <1>6 DEF DataIInv

\* A line is driven into the core and none is taken out of it.
LEMMA DriveStep ==
  ASSUME DataIInv, Moving, ~bypass, cmd.st # "IDLE", ~core.tag, DinRdy, IB!PopRdy,
         IB!QueueCycle(FALSE, FALSE, TRUE, << >>), UNCHANGED <<cmd, bypass, encr, rd, wr, ob, gen>>,
         aes' \in AesFlops, aes'.st = "AES_OUT", aes'.cnt = Driven(aes).cnt,
         core'.run = core.run, core'.tag \in BOOLEAN, ~core'.tag,
         DOMAIN core' = {"run", "blocks", "tag"}, core'.blocks = core.blocks \o <<Block>>
  PROVE  DataIInv'
<1>0. SeqsOK /\ InFlight /\ AesBlocksInOrder /\ Fields /\ Lengths /\ InCore
  BY FieldTypes DEF DataIInv
<1>1. /\ Out \in Nat /\ Taken + Ratio <= BlockWords
      /\ Block \in AesBlock /\ Len(Block.line) = Ratio
      /\ Out + Lines(Len(core.blocks)) = Taken /\ Holds(Block.line, "IN", Taken)
      /\ Block.last <=> Taken + Ratio = BlockWords
      /\ Lines(Len(core.blocks) + 1) = Lines(Len(core.blocks)) + Ratio
      /\ Len(core.blocks) \in Nat /\ Len(core.blocks) < 2
  BY BlockIn
<1>2. /\ Taken' = Taken + Ratio /\ Holds(ib, "IN", Taken)' /\ ib' \in Seq(Words)
      /\ Len(ib') \in 0 .. BlockWords
  BY LineGone
<1>3. Taken' = Lines(aes'.cnt) \/ (aes'.cnt = 0 /\ Taken' = BlockWords)
  BY <1>2, CountIn, Zenon
<1>4. /\ core'.blocks \in Seq(AesBlock) /\ Len(core'.blocks) = Len(core.blocks) + 1
      /\ InOrder(core'.blocks, Out)
  <2> DEFINE bs == core.blocks
             r  == core'.blocks
  <2>1. bs \in Seq(AesBlock) /\ InOrder(bs, Out) /\ r = bs \o <<Block>>
    BY <1>0 DEF SeqsOK, AesBlocksInOrder
  <2>2. Holds(Block.line, "IN", Out + Lines(Len(bs)))
    BY <1>1, Zenon
  <2>3. Out + Lines(Len(core.blocks) + 1) = Taken + Ratio
    BY <1>0, <1>1, Sizes DEF InCore
  <2>4. Block.last <=> Out + Lines(Len(bs) + 1) = BlockWords
    BY <1>1, <2>3, Zenon
  <2> HIDE DEF bs, r
  <2>5. r \in Seq(AesBlock) /\ Len(r) = Len(bs) + 1 /\ InOrder(r, Out)
    BY <1>1, <2>1, <2>2, <2>4, OneMoreIn
  <2> QED
    BY <2>5 DEF bs, r
<1>5. Out' = Out /\ InOrder(core.blocks, Out)'
  BY <1>4 DEF Out, InOrder, Holds, Word
<1>6. Len(core'.blocks) \in 0 .. 2
  BY <1>1, <1>4
<1>7. Out' + Lines(Len(core'.blocks)) = Taken'
  <2>1. Lines(Len(core'.blocks)) = Lines(Len(core.blocks)) + Ratio
    BY <1>1, <1>4
  <2> QED
    BY <1>0, <1>1, <1>2, <1>5, <2>1, Sizes DEF InCore
<1>8. Out' # BlockWords /\ Taken' >= 0
  BY <1>0, <1>1, <1>2, <1>5, Sizes DEF InCore
<1>9. ob' \in Seq(Words) /\ Len(ob') \in 0 .. Ratio /\ Holds(ob, "OUT", wr.cnt)'
  <2>1. Len(ob) \in 0 .. Ratio
    BY <1>0, Sizes DEF Lengths
  <2> QED
    BY <1>0, <2>1 DEF SeqsOK, InFlight, Holds, Word
<1>10. core'.run \in BOOLEAN /\ core'.run
  BY <1>0 DEF Fields, DinRdy
<1> QED
  BY <1>2, <1>3, <1>4, <1>5, <1>6, <1>7, <1>8, <1>9, <1>10, AesStep

\* The first line of a block finds the output buffer empty: none is dropped.
LEMMA NoneDropped == ASSUME DataIInv PROVE LinesAreDriven
<1> SUFFICES ASSUME aes.st = "AES_IN", DinRdy, IB!PopRdy, first_aes_block PROVE Len(ob) = 0
  BY DEF LinesAreDriven, OB!Empty
<1>0. AesPlace /\ Fields /\ Lengths /\ InCore
  BY FieldTypes DEF DataIInv
<1>1. cmd.st # "IDLE" /\ Moving /\ ~bypass
  BY AesBusy
<1>2. aes.cnt = 0
  BY <1>0, <1>1 DEF AesPlace, first_aes_block
<1>3. Taken = Lines(aes.cnt) /\ Out + Lines(Len(core.blocks)) = Taken
  BY <1>1, BlockIn
<1>4. Taken = 0
  BY <1>2, <1>3, Sizes, Zenon
<1>5. Lines(Len(core.blocks)) \in Nat /\ Len(ob) \in Nat /\ wr.cnt \in Nat
  BY <1>0 DEF InCore, Lengths, Fields
<1> QED
  BY <1>3, <1>4, <1>5 DEF Out

\* AES_IN drives a line.
LEMMA AesInData ==
  ASSUME DataIInv, AesIn
  PROVE  DataIInv'
<1>0. SeqsOK /\ AesPlace /\ InFlight /\ Fields /\ Lengths /\ InCore
  BY FieldTypes DEF DataIInv
<1>1. /\ aes.st = "AES_IN" /\ DinRdy /\ IB!PopRdy /\ IB!QueueCycle(FALSE, FALSE, TRUE, << >>)
      /\ UNCHANGED <<cmd, bypass, encr, rd, wr, ob, gen>>
  BY DEF AesIn
<1>2. cmd.st # "IDLE" /\ Moving /\ ~bypass /\ ~core.tag
  BY <1>1, AesBusy
<1>3. ~first_aes_block \/ OB!Empty
  BY <1>1, NoneDropped DEF LinesAreDriven
<1>4. /\ core' = [core EXCEPT !.blocks = Append(@, Block)]
      /\ aes' = [Driven(aes) EXCEPT !.st = "AES_OUT"]
  BY <1>3 DEF AesIn
<1>5. aes' \in AesFlops /\ aes'.st = "AES_OUT" /\ aes'.cnt = Driven(aes).cnt
  <2>1. Driven(aes) \in AesFlops /\ "AES_OUT" \in AesStates
    BY DrivenFlops DEF AesStates
  <2> QED
    BY <1>4, <2>1, Zenon DEF AesFlops
<1>6. /\ core'.run = core.run /\ core'.tag = core.tag /\ DOMAIN core' = {"run", "blocks", "tag"}
      /\ core'.blocks = Append(core.blocks, Block) /\ core'.tag \in BOOLEAN
  BY <1>0, <1>4 DEF SeqsOK, Fields
<1>7. core'.blocks = core.blocks \o <<Block>>
  <2>1. Block \in AesBlock
    BY <1>1, <1>2, BlockIn
  <2> QED
    BY <1>0, <1>6, <2>1, AppendIsConcat DEF SeqsOK
<1> QED
  BY <1>1, <1>2, <1>5, <1>6, <1>7, DriveStep

\* AES_OUT drives a line and takes none.
LEMMA AesOutInData ==
  ASSUME DataIInv, AesOut(TRUE, FALSE)
  PROVE  DataIInv'
<1>0. SeqsOK /\ Fields
  BY FieldTypes DEF DataIInv
<1>1. /\ aes.st = "AES_OUT" /\ DinRdy /\ IB!PopRdy /\ IB!QueueCycle(FALSE, FALSE, TRUE, << >>)
      /\ OB!QueueCycle(FALSE, FALSE, FALSE, << >>)
      /\ UNCHANGED <<cmd, bypass, encr, rd, wr, gen>>
  BY DEF AesOut
<1>2. cmd.st # "IDLE" /\ Moving /\ ~bypass /\ ~core.tag /\ ob' = ob
  BY <1>0, <1>1, AesBusy, ObStay DEF SeqsOK
<1>3. /\ core' = [core EXCEPT !.blocks = @ \o <<Block>>,
                              !.tag = @ \/ (FALSE /\ Head(core.blocks).last)]
      /\ \E l \in BOOLEAN : aes' = [Driven(aes) EXCEPT !.st = "AES_OUT", !.last = l]
  <2>1. aes \in AesFlops
    BY TypeParts DEF DataIInv
  <2> DEFINE a == [aes EXCEPT !.st = aes.st, !.first = aes.first, !.last = aes.last]
  <2>2. aes' = [Driven(aes) EXCEPT !.st = a.st, !.last = @ /\ (a.last \/ last_aes_block)]
    BY DEF AesOut
  <2>3. a.st = "AES_OUT"
    BY <1>1, <2>1 DEF AesFlops
  <2> QED
    BY <2>2, <2>3 DEF AesOut
<1>4. PICK l \in BOOLEAN : aes' = [Driven(aes) EXCEPT !.st = "AES_OUT", !.last = l]
  BY <1>3
<1>5. aes' \in AesFlops /\ aes'.st = "AES_OUT" /\ aes'.cnt = Driven(aes).cnt
  <2>1. Driven(aes) \in AesFlops /\ "AES_OUT" \in AesStates
    BY DrivenFlops DEF AesStates
  <2> QED
    BY <1>4, <2>1, Zenon DEF AesFlops
<1>6. /\ core'.run = core.run /\ ~core'.tag /\ DOMAIN core' = {"run", "blocks", "tag"}
      /\ core'.blocks = core.blocks \o <<Block>>
  BY <1>0, <1>2, <1>3 DEF SeqsOK
<1>7. core'.tag \in BOOLEAN
  BY <1>0, <1>3 DEF SeqsOK
<1> QED
  BY <1>1, <1>2, <1>5, <1>6, <1>7, DriveStep

\* AES_OUT takes a line and drives none.
LEMMA AesOutOutData ==
  ASSUME DataIInv, AesOut(FALSE, TRUE)
  PROVE  DataIInv'
<1>0. SeqsOK /\ InFlight /\ AesBlocksInOrder /\ Fields /\ Lengths /\ InCore
  BY FieldTypes DEF DataIInv
<1> DEFINE lastOut == Head(core.blocks).last
<1>1. /\ aes.st = "AES_OUT" /\ DoutVld /\ IB!QueueCycle(FALSE, FALSE, FALSE, << >>)
      /\ OB!QueueCycle(FALSE, TRUE, FALSE, Encrypted(Head(core.blocks).line))
      /\ UNCHANGED <<cmd, bypass, encr, rd, wr, gen>>
      /\ core' = [core EXCEPT !.blocks = Tail(@) \o << >>, !.tag = @ \/ lastOut]
      /\ aes' = [aes EXCEPT !.st = IF lastOut THEN "AES_TAG_OUT" ELSE "AES_IN", !.first = FALSE,
                            !.last = IF lastOut THEN FALSE ELSE @]
  BY DEF AesOut
<1>2. cmd.st # "IDLE" /\ Moving /\ ~bypass /\ ~core.tag /\ ib' = ib
  BY <1>0, <1>1, AesBusy, IbStay DEF SeqsOK
<1>3. /\ Out \in Nat /\ Out' = Out + Ratio /\ Out + Ratio <= Taken
      /\ ob' \in Seq(Words) /\ Len(ob') = Ratio /\ Holds(ob, "OUT", wr.cnt)'
      /\ Tail(core.blocks) \in Seq(AesBlock) /\ InOrder(Tail(core.blocks), Out + Ratio)
      /\ Len(Tail(core.blocks)) = Len(core.blocks) - 1 /\ Len(core.blocks) >= 1
      /\ Lines(Len(core.blocks)) = Lines(Len(core.blocks) - 1) + Ratio
      /\ Lines(Len(core.blocks) - 1) \in Nat
      /\ lastOut <=> Out + Ratio = BlockWords
  BY <1>1, <1>2, BlockOut
<1>4. lastOut => cmd.sub # 1
  BY <1>1 DEF DoutVld
<1> HIDE DEF lastOut
<1>5. Out + Lines(Len(core.blocks)) = Taken /\ Taken >= 0 /\ Taken' = Taken /\ Taken \in Int
      /\ Holds(ib, "IN", Taken)'
  <2>1. Out + Lines(Len(core.blocks)) = Taken /\ Taken >= 0 /\ Holds(ib, "IN", Taken)
    BY <1>0, <1>2 DEF InFlight
  <2>2. Taken' = Taken
    BY <1>1, <1>2 DEF Taken, Got
  <2>3. Taken \in Int
    BY <1>0, <1>3, <2>1 DEF InCore
  <2> QED
    BY <1>1, <1>2, <2>1, <2>2, <2>3 DEF Holds, Word
<1>6. core.run
  <2>1. Taken # 0
    BY <1>3, <1>5, Sizes
  <2> QED
    BY <1>0, <1>2, <2>1 DEF AesBlocksInOrder
<1>7. /\ core'.run = core.run /\ DOMAIN core' = {"run", "blocks", "tag"}
      /\ core'.tag = (core.tag \/ lastOut) /\ core'.blocks = Tail(core.blocks)
  BY <1>0, <1>1, <1>3, ConcatEmptySeq DEF SeqsOK
<1>8. core'.run \in BOOLEAN /\ core'.tag \in BOOLEAN /\ (core'.tag <=> lastOut) /\ core'.run
  BY <1>0, <1>2, <1>6, <1>7 DEF Fields
<1>9. /\ aes' \in AesFlops /\ aes'.cnt = aes.cnt /\ aes'.first = FALSE
      /\ aes'.st = (IF lastOut THEN "AES_TAG_OUT" ELSE "AES_IN")
  <2>1. aes \in AesFlops /\ "AES_TAG_OUT" \in AesStates /\ "AES_IN" \in AesStates
    BY TypeParts DEF DataIInv, AesStates
  <2>2. aes.last \in BOOLEAN
    BY <1>0 DEF Fields
  <2>3. CASE lastOut
    BY <1>1, <2>1, <2>2, <2>3, Zenon DEF AesFlops
  <2>4. CASE ~lastOut
    BY <1>1, <2>1, <2>2, <2>4, Zenon DEF AesFlops
  <2> QED
    BY <2>3, <2>4
<1>10. Taken' = Lines(aes'.cnt) \/ (aes'.cnt = 0 /\ Taken' = BlockWords)
  BY <1>0, <1>2, <1>5, <1>9 DEF AesBlocksInOrder
<1>11. InOrder(core.blocks, Out)'
  BY <1>1, <1>3, <1>7 DEF InOrder, Holds, Word
<1>12. core'.blocks \in Seq(AesBlock) /\ Len(core'.blocks) \in 0 .. 2
  <2>1. Len(core'.blocks) = Len(core.blocks) - 1 /\ Len(core.blocks) \in Nat /\ Len(core.blocks) <= 2
    BY <1>0, <1>3, <1>7 DEF Lengths
  <2>2. PICK n \in Nat : n = Len(core.blocks)
    BY <2>1
  <2>3. n >= 1 /\ n <= 2
    BY <1>3, <2>1, <2>2, Zenon
  <2>4. n - 1 \in 0 .. 2
    BY <2>3
  <2> QED
    BY <1>3, <1>7, <2>1, <2>2, <2>4, Zenon
<1>13. Out' + Lines(Len(core'.blocks)) = Taken'
  <2>1. Lines(Len(core'.blocks)) = Lines(Len(core.blocks) - 1)
    BY <1>3, <1>7
  <2> QED
    BY <1>3, <1>5, <2>1, Sizes
<1>14. ib' \in Seq(Words) /\ Len(ib') \in 0 .. BlockWords /\ Len(ob') \in 0 .. Ratio
  BY <1>0, <1>2, <1>3, Sizes DEF SeqsOK, Lengths
<1>15. /\ aes'.st \in {"AES_IN", "AES_OUT", "AES_TAG_OUT"} /\ (aes'.st # "AES_OUT" => ~aes'.first)
       /\ (cmd.sub = 1 => aes'.st # "AES_TAG_OUT") /\ (core'.tag <=> aes'.st = "AES_TAG_OUT")
       /\ (core'.tag <=> Out' = BlockWords)
  BY <1>3, <1>4, <1>8, <1>9
<1> QED
  BY <1>1, <1>2, <1>3, <1>5, <1>7, <1>8, <1>9, <1>10, <1>11, <1>12, <1>13, <1>14, <1>15, AesStep

\* AES_OUT takes a line and drives another.
LEMMA AesOutBothData ==
  ASSUME DataIInv, AesOut(TRUE, TRUE)
  PROVE  DataIInv'
<1>0. SeqsOK /\ AesBlocksInOrder /\ Fields /\ Lengths /\ InCore
  BY FieldTypes DEF DataIInv
<1> DEFINE lastOut == Head(core.blocks).last
           bs == Tail(core.blocks)
           a  == [aes EXCEPT !.st = IF lastOut THEN "AES_TAG_OUT" ELSE @, !.first = FALSE,
                             !.last = IF lastOut THEN FALSE ELSE @]
<1>1. /\ aes.st = "AES_OUT" /\ DinRdy /\ IB!PopRdy /\ DoutVld
      /\ IB!QueueCycle(FALSE, FALSE, TRUE, << >>)
      /\ OB!QueueCycle(FALSE, TRUE, FALSE, Encrypted(Head(core.blocks).line))
      /\ UNCHANGED <<cmd, bypass, encr, rd, wr, gen>>
      /\ core' = [core EXCEPT !.blocks = Tail(@) \o <<Block>>, !.tag = @ \/ lastOut]
      /\ aes' = [Driven(aes) EXCEPT !.st = a.st, !.last = @ /\ (a.last \/ last_aes_block)]
  BY DEF AesOut
<1>2. cmd.st # "IDLE" /\ Moving /\ ~bypass /\ ~core.tag
  BY <1>1, AesBusy
<1>3. /\ Out \in Nat /\ Out' = Out + Ratio /\ Out + Ratio <= Taken
      /\ ob' \in Seq(Words) /\ Len(ob') = Ratio /\ Holds(ob, "OUT", wr.cnt)'
      /\ bs \in Seq(AesBlock) /\ InOrder(bs, Out + Ratio)
      /\ Len(bs) = Len(core.blocks) - 1 /\ Len(core.blocks) >= 1
      /\ Lines(Len(core.blocks)) = Lines(Len(core.blocks) - 1) + Ratio
      /\ Lines(Len(core.blocks) - 1) \in Nat
      /\ lastOut <=> Out + Ratio = BlockWords
  BY <1>1, <1>2, BlockOut
<1>4. /\ Taken + Ratio <= BlockWords /\ Block \in AesBlock /\ Len(Block.line) = Ratio
      /\ Out + Lines(Len(core.blocks)) = Taken /\ Holds(Block.line, "IN", Taken)
      /\ Block.last <=> Taken + Ratio = BlockWords
      /\ Len(core.blocks) \in Nat /\ Len(core.blocks) < 2
  BY <1>1, <1>2, BlockIn
<1>5. /\ Taken' = Taken + Ratio /\ Holds(ib, "IN", Taken)' /\ ib' \in Seq(Words)
      /\ Len(ib') \in 0 .. BlockWords
  BY <1>1, <1>2, LineGone
<1>6. Taken \in Nat
  BY <1>3, <1>4, Sizes
\* The last block is not the one that comes out while there is one to go in.
<1>7. ~lastOut /\ Out + Ratio # BlockWords
  BY <1>3, <1>4, <1>6, Sizes
<1> HIDE DEF lastOut
<1>8. \E l \in BOOLEAN : aes' = [Driven(aes) EXCEPT !.st = "AES_OUT", !.last = l]
  <2>1. aes \in AesFlops
    BY TypeParts DEF DataIInv
  <2>2. a.st = "AES_OUT"
    BY <1>1, <1>7, <2>1 DEF AesFlops
  <2> QED
    BY <1>1, <2>2
<1>9. PICK l \in BOOLEAN : aes' = [Driven(aes) EXCEPT !.st = "AES_OUT", !.last = l]
  BY <1>8
<1>10. aes' \in AesFlops /\ aes'.st = "AES_OUT" /\ aes'.cnt = Driven(aes).cnt
  <2>1. Driven(aes) \in AesFlops /\ "AES_OUT" \in AesStates
    BY DrivenFlops DEF AesStates
  <2> QED
    BY <1>9, <2>1, Zenon DEF AesFlops
<1>11. Taken' = Lines(aes'.cnt) \/ (aes'.cnt = 0 /\ Taken' = BlockWords)
  BY <1>1, <1>2, <1>5, <1>10, CountIn, Zenon
<1>12. /\ core'.run = core.run /\ DOMAIN core' = {"run", "blocks", "tag"}
       /\ core'.tag = (core.tag \/ lastOut) /\ core'.blocks = bs \o <<Block>>
  BY <1>0, <1>1 DEF SeqsOK
<1>13. core'.run \in BOOLEAN /\ core'.tag \in BOOLEAN /\ ~core'.tag /\ core'.run
  BY <1>0, <1>1, <1>2, <1>7, <1>12 DEF Fields, DinRdy
<1>14. /\ Out + Ratio + Lines(Len(bs)) = Taken /\ Out + Ratio + Lines(Len(bs) + 1) = Taken + Ratio
       /\ Lines(Len(bs) + 1) = Lines(Len(bs)) + Ratio /\ Lines(Len(bs)) \in Nat
  <2>1. Lines(Len(bs)) = Lines(Len(core.blocks) - 1) /\ Lines(Len(bs)) \in Nat
    BY <1>3, Zenon
  <2>2. Len(bs) \in Nat
    BY <1>3, LenProperties
  <2>3. Lines(Len(bs) + 1) = Lines(Len(bs)) + Ratio
    BY <2>2, LineSizes, Zenon
  <2> HIDE DEF bs
  <2> QED
    BY <1>3, <1>4, <2>1, <2>3, Sizes
<1> HIDE DEF bs
<1>15. /\ core'.blocks \in Seq(AesBlock) /\ Len(core'.blocks) = Len(bs) + 1
       /\ InOrder(core'.blocks, Out + Ratio)
  <2> DEFINE r == core'.blocks
             o == Out + Ratio
  <2>1. o \in Nat /\ r = bs \o <<Block>> /\ bs \in Seq(AesBlock) /\ InOrder(bs, o)
    BY <1>3, <1>12, Sizes
  <2>2. Holds(Block.line, "IN", o + Lines(Len(bs)))
    BY <1>4, <1>14, Zenon
  <2>3. Block.last <=> o + Lines(Len(bs) + 1) = BlockWords
    BY <1>4, <1>14, Zenon
  <2> HIDE DEF r, o
  <2>4. r \in Seq(AesBlock) /\ Len(r) = Len(bs) + 1 /\ InOrder(r, o)
    BY <1>4, <2>1, <2>2, <2>3, OneMoreIn
  <2> QED
    BY <2>4 DEF r, o
<1>16. InOrder(core.blocks, Out)'
  <2>1. gen' = gen /\ Out' = Out + Ratio
    BY <1>1, <1>3
  <2>2. InOrder(core'.blocks, Out')
    BY <1>15, <2>1, Zenon
  <2> QED
    BY <2>1, <2>2 DEF InOrder, Holds, Word
<1>17. Len(core'.blocks) \in 0 .. 2
  <2>1. PICK n \in Nat : n = Len(core.blocks)
    BY <1>4
  <2>2. n >= 1 /\ n < 2
    BY <1>3, <1>4, <2>1, Zenon
  <2>3. n - 1 + 1 \in 0 .. 2
    BY <2>2
  <2> QED
    BY <1>3, <1>15, <2>1, <2>3, Zenon
<1>18. Out' + Lines(Len(core'.blocks)) = Taken' /\ Taken' >= 0 /\ Out' # BlockWords
  <2>1. Lines(Len(core'.blocks)) = Lines(Len(bs) + 1)
    BY <1>15, Zenon
  <2> QED
    BY <1>3, <1>5, <1>6, <1>7, <1>14, <2>1, Sizes
<1>19. Len(ob') \in 0 .. Ratio
  BY <1>3, Sizes
<1> QED
  BY <1>1, <1>2, <1>3, <1>5, <1>10, <1>11, <1>12, <1>13, <1>15, <1>16, <1>17, <1>18, <1>19, AesStep

\* AES_OUT, whatever it does.
LEMMA AesOutData ==
  ASSUME DataIInv, NEW in \in BOOLEAN, NEW out \in BOOLEAN, AesOut(in, out)
  PROVE  DataIInv'
<1>1. in \/ out
  BY DEF AesOut
<1>2. CASE in = TRUE /\ out = TRUE
  BY <1>2, AesOutBothData
<1>3. CASE in = TRUE /\ out = FALSE
  BY <1>3, AesOutInData
<1>4. CASE in = FALSE /\ out = TRUE
  BY <1>4, AesOutOutData
<1> QED
  BY <1>1, <1>2, <1>3, <1>4

\* No flop of the data path changes.
LEMMA StutterData ==
  ASSUME DataIInv, UNCHANGED dataVars
  PROVE  DataIInv'
<1>0. /\ DataTypeOK /\ SeqsOK /\ IdleClean /\ SubStates /\ AesPlace /\ InFlight
      /\ AesBlocksInOrder /\ Between /\ Counted
  BY DEF DataIInv
<1>1. UNCHANGED <<cmd, bypass, encr, rd, wr, aes, core, ib, ob, gen>>
  BY DEF dataVars
<1>2. (Moving' <=> Moving) /\ Taken' = Taken /\ Out' = Out
  BY <1>1 DEF Moving, Taken, Got, Out
<1>3. DataTypeOK' /\ SeqsOK' /\ IdleClean' /\ SubStates' /\ AesPlace'
  BY <1>0, <1>1 DEF DataTypeOK, SeqsOK, IdleClean, SubStates, AesPlace, CoreIdle, In, Sub, ReadsTag
<1>4. InFlight'
  BY <1>0, <1>1, <1>2 DEF InFlight, Holds, Word
<1>5. AesBlocksInOrder'
  BY <1>0, <1>1, <1>2 DEF AesBlocksInOrder, InOrder, Holds, Word
<1>6. Between' /\ Counted'
  BY <1>0, <1>1, <1>2 DEF Between, Holds, Word, In, ReadsTag, Counted, AllBlocksWritten
<1> QED
  BY <1>3, <1>4, <1>5, <1>6 DEF DataIInv

\* Every step keeps the invariant.
LEMMA NextData ==
  ASSUME DataIInv, [DataNext]_dataVars
  PROVE  DataIInv'
<1>1. CASE UNCHANGED dataVars
  BY <1>1, StutterData
<1>2. ASSUME NEW n \in Nums, StartCmd("ENCR", n) PROVE DataIInv'
  BY <1>2, StartData
<1>3. CASE StartCmd("FETCH", 0)
  BY <1>3, StartData
<1>4. CASE Progress
  <2>1. ASSUME NEW in \in BOOLEAN, NEW out \in BOOLEAN, AesOut(in, out) PROVE DataIInv'
    BY <2>1, AesOutData
  <2> QED
    BY <1>4, <2>1, ReadRequestData, ReadBeatData, ReadDoneData, WriteRequestData, WriteBeatData,
       WriteDoneData, BlockInRamData, CompareTagData, SkipTagData, AesStartData, ConfigureData,
       AesInData, AesInLastData, AesTagOutData, AesBypassData, FailData, Zenon DEF Progress
<1>5. CASE Fail
  BY <1>5, FailData
<1> QED
  BY <1>1, <1>2, <1>3, <1>4, <1>5 DEF DataNext

-----------------------------------------------------------------------------
(* The theorems.                                                            *)

\* The ledger of the words holds in every state, for all sizes: what the data FSM
\* has taken is what is in the core, in the output buffer or written, and each
\* place holds the words of this block that are due there.
THEOREM DataInvariant == DataSpec => []DataIInv
<1>1. DataInit => DataIInv
  BY InitData
<1>2. DataIInv /\ [DataNext]_dataVars => DataIInv'
  BY NextData
<1> QED
  BY <1>1, <1>2, PTL DEF DataSpec

\* Every flop of the data path keeps its type: no beat count passes the length of
\* its transfer, and encr_block_cnt and aes_block_cnt stay in their widths.
THEOREM DataTypesHold == DataSpec => []DataTypeOK
<1>1. DataIInv => DataTypeOK
  BY DEF DataIInv
<1> QED
  BY <1>1, DataInvariant, PTL

\* Every beat of a block and of a tag finds room in the input buffer, of which
\* neither push_rdy nor overflow_err is connected: the buffer never holds more
\* than the beats of the read that fills it.
THEOREM EveryBeatFits == DataSpec => []NoBeatIsLost
<1>1. DataIInv => NoBeatIsLost
  <2>1. SUFFICES ASSUME DataIInv, BeatDue PROVE IB!PushRdy
    BY DEF NoBeatIsLost
  <2>2. Len(ib) < BlockWords
    BY <2>1, RoomForBeat
  <2>3. Len(ib) \in Nat /\ BlockWords \in Nat
    BY <2>1, FieldTypes, Sizes DEF Lengths
  <2> QED
    BY <2>2, <2>3 DEF IB!PushRdy
<1> QED
  BY <1>1, DataInvariant, PTL

\* The output buffer holds the next words of the block, encrypted and in order,
\* and the tag after the last of them: the DMA and the RAM, which count words and
\* know nothing of lines, put each where it belongs.
THEOREM OutputStaysInOrder == DataSpec => []OutputInOrder
<1>1. ASSUME DataIInv PROVE OutputInOrder
  <2>0. SeqsOK /\ IdleClean /\ SubStates /\ InFlight /\ Between /\ Fields /\ Lengths /\ InCore
    BY <1>1, FieldTypes DEF DataIInv
  <2> DEFINE kind == IF bypass THEN "IN" ELSE "OUT"
  <2>1. SUFFICES ASSUME NEW i \in 1 .. Len(ob)
                 PROVE  IF In("ENCR", 3) THEN ob[i] = Word("TAG", wr.cnt + i)
                        ELSE \/ wr.cnt + i <= BlockWords /\ ob[i] = Word(kind, wr.cnt + i)
                             \/ In("ENCR", 2) /\ wr.cnt = BlockWords /\ ob[i] = Word("TAG", i)
    BY DEF OutputInOrder
  <2>2. cmd.st # "IDLE" /\ ob # << >>
    BY <2>0, <2>1 DEF IdleClean
  <2>3. CASE Moving
    <3>1. Holds(ob, kind, wr.cnt) /\ Out + Lines(Len(core.blocks)) = Taken
      BY <2>0, <2>3 DEF InFlight
    <3>2. /\ Got \in Nat /\ Got <= BlockWords /\ BlockWords \in Nat /\ Len(ib) \in Nat
          /\ Len(ob) \in Nat /\ wr.cnt \in Nat /\ Lines(Len(core.blocks)) \in Nat
      BY <2>0, Sizes DEF Got, Fields, Lengths, InCore
    <3>3. wr.cnt + i <= BlockWords
      BY <3>1, <3>2 DEF Out, Taken
    <3>4. ~In("ENCR", 3)
      BY <2>3 DEF Moving, In
    <3> QED
      BY <3>1, <3>3, <3>4 DEF Holds
  <2>4. CASE ~Moving
    <3>1. cmd.st = "ENCR" /\ (cmd.sub = 2 \/ cmd.sub = 3)
      BY <2>0, <2>2, <2>4 DEF Between, SubStates, Moving, Fields
    <3>2. CASE cmd.sub = 3
      BY <2>0, <2>4, <3>1, <3>2 DEF Between, In, Holds
    <3>3. CASE cmd.sub = 2
      <4>1. wr.cnt = BlockWords /\ Holds(ob, "TAG", 0)
        BY <2>0, <2>4, <3>1, <3>3 DEF Between, In
      <4>2. ob[i] = Word("TAG", i)
        BY <4>1 DEF Holds
      <4> QED
        BY <3>1, <3>3, <4>1, <4>2 DEF In
    <3> QED
      BY <3>1, <3>2, <3>3
  <2> QED
    BY <2>3, <2>4
<1> QED
  BY <1>1, DataInvariant, PTL

\* When FETCH_BLOCK compares, the input buffer holds the tag read for this block,
\* whole, and the data FSM is in AES_TAG_OUT, where the compare takes it out.
THEOREM TagComparesItsBlock == DataSpec => []TagIsOfTheBlock
<1>1. ASSUME DataIInv PROVE TagIsOfTheBlock
  <2>0. SeqsOK /\ AesPlace /\ Between
    BY <1>1 DEF DataIInv
  <2>1. SUFFICES ASSUME In("FETCH", 4), ~bypass PROVE ib = Tag /\ aes.st = "AES_TAG_OUT"
    BY DEF TagIsOfTheBlock
  <2>2. cmd.st = "FETCH" /\ cmd.sub = 4 /\ ~Moving
    BY <2>1 DEF In, Moving
  <2>3. Len(ib) = Ratio /\ Holds(ib, "TAG", 0) /\ aes.st = "AES_TAG_OUT" /\ ib \in Seq(Words)
    BY <2>0, <2>1, <2>2 DEF Between, AesPlace, SeqsOK
  <2>4. \A i \in 1 .. Ratio : ib[i] = Word("TAG", i)
    BY <2>3 DEF Holds
  <2>5. ib = [i \in 1 .. Ratio |-> ib[i]]
    BY <2>3
  <2> QED
    BY <2>3, <2>4, <2>5 DEF Tag
<1> QED
  BY <1>1, DataInvariant, PTL

\* Every command, failed ones too, leaves empty buffers, AES_IDLE and an idle core
\* to the next: nothing else resets them between commands.
THEOREM CommandsStartClean == DataSpec => []CleanStart
<1>1. DataIInv => CleanStart
  BY DEF DataIInv, IdleClean, CoreIdle, CleanStart
<1> QED
  BY <1>1, DataInvariant, PTL

\* ENCR_BLOCK that ends well has written num_of_blocks blocks, for every number
\* the register holds: encr_block_cnt neither stops early nor wraps.
THEOREM EveryBlockWritten == DataSpec => []AllBlocksWritten
<1>1. DataIInv => AllBlocksWritten
  BY DEF DataIInv, Counted
<1> QED
  BY <1>1, DataInvariant, PTL

\* AES_IN pops a line whenever the core is ready, but drives it only if it is not
\* the first of its block or the output buffer is empty: the second always holds
\* for a first line, so no line is popped without being driven.
THEOREM NoLineIsDropped == DataSpec => []LinesAreDriven
<1>1. DataIInv => LinesAreDriven
  BY NoneDropped
<1> QED
  BY <1>1, DataInvariant, PTL
=============================================================================
