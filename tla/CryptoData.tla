----------------------------- MODULE CryptoData -----------------------------
(***************************************************************************)
(* The data path of the crypto wrapper (sinc_cmu_crypto_wrap_ctrl.sv):     *)
(* ENCR_BLOCK and FETCH_BLOCK with the words they move, the AES data FSM   *)
(* (aes_ctrl_state) and the two buffers, which are the queues the FIFOs    *)
(* are proved to be (CmuFifo).                                             *)
(*                                                                         *)
(* Neither buffer can hold anyone back: push_rdy and overflow_err are not  *)
(* connected, and the DMA takes every beat the bus delivers.  An action is *)
(* one handshake; those that can meet in a cycle touch different registers *)
(* except where an action says so.                                         *)
(***************************************************************************)
EXTENDS Integers, Sequences

CONSTANTS
  Ratio,     \* words of an AES block and of a tag: 4
  AesBlocks, \* NUM_AES_BLOCKS: AES blocks of a cache block
  Nums,      \* values of num_of_blocks
  CntMod     \* 2^12, the width of encr_block_cnt

ASSUME DataAssumption ==
  /\ Ratio \in Nat /\ Ratio >= 2 /\ AesBlocks \in Nat /\ AesBlocks >= 2
  /\ CntMod \in Nat \ {0} /\ Nums \subseteq 0 .. CntMod - 1

VARIABLES
  cmd,      \* state: ENCR_BLOCK, FETCH_BLOCK or SINC_IDLE; sub_state
  bypass,   \* disable_encr_auth_check_i, a strap
  encr,     \* num_of_blocks, encr_block_cnt, blocks written, how the command ended
  rd,       \* dma_r_exec, rdata_bt_cnt (r_comp: all beats are there)
  wr,       \* dma_w_exec, wdata_bt_cnt (w_comp)
  aes,      \* aes_ctrl_state, aes_block_cnt, first_aes_block_flag, last_aes_out_block
  core,     \* the AES core: running, AES blocks inside, tag ready
  ib, ob,   \* input and output buffer
  gen       \* tells the words of a cache block from those of the one before

dataVars == <<cmd, bypass, encr, rd, wr, aes, core, ib, ob, gen>>

BlockWords == AesBlocks * Ratio

Kinds == {"IN", "OUT", "TAG"}
Words == [kind : Kinds, gen : {0, 1}, k : 1 .. BlockWords]
Word(kind, k) == [kind |-> kind, gen |-> gen, k |-> k]

IB == INSTANCE FifoQueue WITH q <- ib, Data <- Words, Room <- BlockWords, PushSize <- 1, PopSize <- Ratio
OB == INSTANCE FifoQueue WITH q <- ob, Data <- Words, Room <- Ratio, PushSize <- Ratio, PopSize <- 1

In(st, s) == cmd.st = st /\ cmd.sub = s
Sub(s)    == cmd.sub = s /\ cmd.st # "IDLE"

Goto(s)    == cmd' = [cmd EXCEPT !.sub = s]
End(how)   == cmd' = [st |-> "IDLE", sub |-> 1] /\ encr' = [encr EXCEPT !.res = how]

-----------------------------------------------------------------------------
(* The main FSM and the transfers it starts.                                *)

NoTransfer == [exec |-> FALSE, cnt |-> 0]

\* SINC_IDLE, with rst_ctrl_signals, and the command it takes up.
StartCmd(c, n) ==
  /\ cmd.st = "IDLE" /\ cmd' = [st |-> c, sub |-> 1]
  /\ encr' = [num |-> n, cnt |-> 0, written |-> 0, res |-> "NONE"]
  /\ rd' = NoTransfer /\ wr' = NoTransfer
  /\ aes' = [aes EXCEPT !.cnt = 0, !.first = FALSE]
  /\ UNCHANGED <<bypass, core, ib, ob, gen>>

\* Mutant: no blocks is a number like any other.
Refused_Mut == FALSE

Refused == cmd.st = "ENCR" /\ encr.num = 0

\* What the read is for: the block, or in FETCH_BLOCK the tag.
ReadsTag == In("FETCH", 3)

\* Mutant: cache_block_len is the number of the last beat plus two.
ReadLen_Long == IF ReadsTag THEN Ratio ELSE BlockWords + 1

\* Mutant: the tag is read one word short.
ReadLen_Short == IF ReadsTag THEN Ratio - 1 ELSE BlockWords

ReadLen  == IF ReadsTag THEN Ratio ELSE BlockWords

\* Sub-state 1 repeats the read request until it is left: a block read once is
\* not read again because its completion leaves the sub-state.
ReadRequest ==
  /\ (Sub(1) \/ ReadsTag) /\ IB!Empty /\ ~rd.exec /\ ~Refused
  /\ rd' = [exec |-> TRUE, cnt |-> 0]
  /\ gen' = IF ReadsTag THEN gen ELSE 1 - gen
  /\ UNCHANGED <<cmd, bypass, encr, wr, aes, core, ib, ob>>

\* dma_c_wrap_r_vld, in the sub-states that push: the word goes into the input buffer, if there is room.
BeatDue == rd.exec /\ rd.cnt < ReadLen /\ (Sub(1) \/ ReadsTag)

ReadBeat ==
  /\ BeatDue
  /\ rd' = [rd EXCEPT !.cnt = @ + 1]
  /\ IB!QueueCycle(FALSE, TRUE, FALSE, <<Word(IF ReadsTag THEN "TAG" ELSE "IN", rd.cnt + 1)>>)
  /\ UNCHANGED <<cmd, bypass, encr, wr, aes, core, ob, gen>>

\* What sub-state 1 does in its first cycles: the data FSM leaves AES_IDLE, the
\* idle core is configured, and the write follows the read by a cycle.
UnderWay == aes.st # "AES_IDLE" /\ (bypass \/ core.run) /\ (cmd.st = "ENCR" => wr.exec)

\* r_comp & dma_c_wrap_cr_comp.  A read takes longer than those first cycles.
ReadDone ==
  /\ (Sub(1) \/ ReadsTag) /\ rd.exec /\ rd.cnt = ReadLen /\ rd' = NoTransfer
  /\ Sub(1) => UnderWay
  /\ Goto(IF ReadsTag THEN 4 ELSE 2)
  /\ UNCHANGED <<bypass, encr, wr, aes, core, ib, ob, gen>>

\* The write of a block is asked for while its read runs, that of the tag in
\* sub-state 3.
WriteRequest ==
  /\ cmd.st = "ENCR" /\ ~wr.exec /\ ((cmd.sub = 1 /\ rd.exec) \/ cmd.sub = 3)
  /\ wr' = [exec |-> TRUE, cnt |-> 0]
  /\ UNCHANGED <<cmd, bypass, encr, rd, aes, core, ib, ob, gen>>

WriteLen == IF cmd.st = "ENCR" /\ cmd.sub = 3 THEN Ratio ELSE BlockWords

\* Mutant: the DMA takes words after the last of the transfer.
Accepts_Mut == cmd.st = "ENCR" /\ wr.exec

\* dma_c_wrap_w_accept: the DMA leaves DMA_W_DATA with the last beat.
Accepts == cmd.st = "ENCR" /\ wr.exec /\ wr.cnt < WriteLen

\* A word leaves the output buffer for the DMA, or in FETCH_BLOCK for the RAM.
WriteBeat ==
  /\ OB!PopRdy /\ (Accepts \/ In("FETCH", 1) \/ In("FETCH", 2))
  /\ OB!QueueCycle(FALSE, FALSE, TRUE, << >>)
  /\ wr' = [wr EXCEPT !.cnt = @ + 1]
  /\ UNCHANGED <<cmd, bypass, encr, rd, aes, core, ib, gen>>

NeedsTag == cmd.sub = 2 /\ ~bypass

LastEncrBlock == encr.cnt = (encr.num - 1) % CntMod

\* The AES data FSM at the end of a command: only the bypass looks at it.
AesAfterEnd == aes' = [aes EXCEPT !.st = IF @ = "AES_BYPASS" THEN "AES_IDLE" ELSE @]

\* w_comp & dma_c_wrap_cw_comp: the block, then its tag; then the next block.
WriteDone ==
  /\ cmd.st = "ENCR" /\ cmd.sub \in {2, 3} /\ wr.exec /\ wr.cnt = WriteLen
  /\ wr' = NoTransfer
  /\ IF NeedsTag
     THEN Goto(3) /\ UNCHANGED <<encr, aes>>
     ELSE LET e == [encr EXCEPT !.cnt = IF LastEncrBlock THEN 0 ELSE (@ + 1) % CntMod,
                                !.written = @ + 1] IN
          IF LastEncrBlock
          THEN /\ cmd' = [st |-> "IDLE", sub |-> 1]
               /\ encr' = [e EXCEPT !.res = "OK"] /\ AesAfterEnd
          ELSE Goto(1) /\ encr' = e /\ UNCHANGED aes
  /\ UNCHANGED <<bypass, rd, core, ib, ob, gen>>

\* FETCH_BLOCK: w_comp, the block is in the RAM.
BlockInRam ==
  /\ In("FETCH", 2) /\ wr.cnt = BlockWords
  /\ wr' = NoTransfer /\ Goto(IF bypass THEN 4 ELSE 3)
  /\ UNCHANGED <<bypass, encr, rd, aes, core, ib, ob, gen>>

\* Mutant: ib_ob_clr reaches the output buffer only.
Clear_Mut ==
  /\ ob' = << >> /\ UNCHANGED ib
  /\ core' = [run |-> FALSE, blocks |-> << >>, tag |-> FALSE]

\* ib_ob_clr and gp_aes_clr.
Clear ==
  /\ ib' = << >> /\ ob' = << >>
  /\ core' = [run |-> FALSE, blocks |-> << >>, tag |-> FALSE]

Tag == [i \in 1 .. Ratio |-> Word("TAG", i)]

\* FETCH_BLOCK: the tag compares and the command ends.
CompareTag ==
  /\ In("FETCH", 4) /\ ~bypass /\ core.tag /\ IB!PopData = Tag /\ End("OK")
  /\ IF aes.st = "AES_TAG_OUT"
     THEN /\ IB!QueueCycle(FALSE, FALSE, TRUE, << >>)
          /\ core' = [core EXCEPT !.run = FALSE, !.tag = FALSE]
          /\ aes' = [aes EXCEPT !.st = "AES_IDLE"]
     ELSE UNCHANGED <<ib, core, aes>>
  /\ UNCHANGED <<bypass, rd, wr, ob, gen>>

\* FETCH_BLOCK without authentication.
SkipTag ==
  /\ In("FETCH", 4) /\ bypass /\ End("OK") /\ AesAfterEnd
  /\ UNCHANGED <<bypass, rd, wr, core, ib, ob, gen>>

\* c_wrap_cmd_err or severe_err in any cycle of a command: a bus error, an AES
\* error, an erase, a hardware fault, a tag that does not compare, or a command
\* that is refused.  The flop
\* last_aes_out_block keeps its value.
Fail ==
  /\ cmd.st # "IDLE" /\ End("ERR") /\ Clear
  /\ aes' = [aes EXCEPT !.st = "AES_IDLE"]
  /\ UNCHANGED <<bypass, rd, wr, gen>>

-----------------------------------------------------------------------------
(* The AES data FSM.                                                        *)

\* AES_IDLE.
AesStart ==
  /\ aes.st = "AES_IDLE" /\ cmd.st # "IDLE" /\ ~Refused
  /\ \/ bypass /\ aes' = [aes EXCEPT !.st = "AES_BYPASS"]
     \/ ~bypass /\ cmd.sub = 1 /\ aes' = [aes EXCEPT !.st = "AES_IN"]
  /\ UNCHANGED <<cmd, bypass, encr, rd, wr, core, ib, ob, gen>>

\* cfg_vld_i & cfg_rdy_o: sub-state 1 configures an idle core.
Configure ==
  /\ Sub(1) /\ ~bypass /\ ~core.run /\ ~Refused
  /\ core' = [core EXCEPT !.run = TRUE] /\ aes' = [aes EXCEPT !.cnt = 0]
  /\ UNCHANGED <<cmd, bypass, encr, rd, wr, ib, ob, gen>>

first_aes_block == aes.cnt = 0 \/ aes.first
last_aes_block  == aes.cnt = AesBlocks - 1

\* din_rdy_o: the core takes the next block while it still has the last one.
DinRdy == core.run /\ Len(core.blocks) < 2 /\ ~core.tag

\* Mutant: the flag of the last block is lost.
Driven_Mut(a) ==
  [a EXCEPT !.cnt = (@ + 1) % AesBlocks, !.first = @ \/ first_aes_block]

\* The flops after an AES block has been driven into the core.
Driven(a) ==
  [a EXCEPT !.cnt = (@ + 1) % AesBlocks, !.first = @ \/ first_aes_block,
            !.last = @ \/ last_aes_block]

Block == [line |-> IB!PopData, last |-> last_aes_block]

\* AES_IN: the line is popped whenever the core is ready, but driven only if it
\* is not the first or the output buffer is empty.
AesIn ==
  /\ aes.st = "AES_IN" /\ DinRdy /\ IB!PopRdy
  /\ IB!QueueCycle(FALSE, FALSE, TRUE, << >>)
  /\ IF ~first_aes_block \/ OB!Empty
     THEN /\ core' = [core EXCEPT !.blocks = Append(@, Block)]
          /\ aes' = [Driven(aes) EXCEPT !.st = "AES_OUT"]
     ELSE aes' = [aes EXCEPT !.st = "AES_OUT"] /\ UNCHANGED core
  /\ UNCHANGED <<cmd, bypass, encr, rd, wr, ob, gen>>

\* AES_IN without a line: the last block has been driven, its output is due.
AesInLast ==
  /\ aes.st = "AES_IN" /\ aes.last /\ ~(DinRdy /\ IB!PopRdy)
  /\ aes' = [aes EXCEPT !.st = "AES_OUT"]
  /\ UNCHANGED <<cmd, bypass, encr, rd, wr, core, ib, ob, gen>>

\* ctx_dout_vld_o & ctx_dout_rdy_i.  The response to a read comes a few cycles
\* after its last beat, before the core has worked on that beat.
DoutVld ==
  /\ core.blocks # << >> /\ OB!Empty
  /\ Head(core.blocks).last => cmd.sub # 1

Encrypted(line) == [i \in 1 .. Ratio |-> [line[i] EXCEPT !.kind = "OUT"]]

\* AES_OUT: an output is taken, an input is driven, or both in the same cycle.
AesOut(in, out) ==
  /\ aes.st = "AES_OUT" /\ (in \/ out)
  /\ in => DinRdy /\ IB!PopRdy
  /\ out => DoutVld
  /\ IB!QueueCycle(FALSE, FALSE, in, << >>)
  /\ OB!QueueCycle(FALSE, out, FALSE, IF out THEN Encrypted(Head(core.blocks).line) ELSE << >>)
  /\ core' = [core EXCEPT
       !.blocks = (IF out THEN Tail(@) ELSE @) \o (IF in THEN <<Block>> ELSE << >>),
       !.tag = @ \/ (out /\ Head(core.blocks).last)]
  /\ LET lastOut == out /\ Head(core.blocks).last
         a == [aes EXCEPT
                 !.st = IF lastOut THEN "AES_TAG_OUT" ELSE IF out /\ ~in THEN "AES_IN" ELSE @,
                 !.first = IF out THEN FALSE ELSE @, !.last = IF lastOut THEN FALSE ELSE @] IN
     aes' = IF in THEN [Driven(aes) EXCEPT !.st = a.st, !.last = @ /\ (a.last \/ last_aes_block)] ELSE a
  /\ UNCHANGED <<cmd, bypass, encr, rd, wr, gen>>

\* AES_TAG_OUT of ENCR_BLOCK: the tag follows the data through the output buffer.
AesTagOut ==
  /\ aes.st = "AES_TAG_OUT" /\ cmd.st = "ENCR" /\ OB!Empty /\ core.tag
  /\ OB!QueueCycle(FALSE, TRUE, FALSE, Tag)
  /\ core' = [core EXCEPT !.run = FALSE, !.tag = FALSE]
  /\ aes' = [aes EXCEPT !.st = "AES_IDLE"]
  /\ UNCHANGED <<cmd, bypass, encr, rd, wr, ib, gen>>

\* AES_BYPASS: a line moves from one buffer to the other.
AesBypass ==
  /\ aes.st = "AES_BYPASS" /\ IB!PopRdy /\ OB!Empty
  /\ OB!QueueCycle(FALSE, TRUE, FALSE, IB!PopData)
  /\ IB!QueueCycle(FALSE, FALSE, TRUE, << >>)
  /\ UNCHANGED <<cmd, bypass, encr, rd, wr, aes, core, gen>>

-----------------------------------------------------------------------------
DataInit ==
  /\ cmd = [st |-> "IDLE", sub |-> 1] /\ bypass \in BOOLEAN
  /\ encr = [num |-> 0, cnt |-> 0, written |-> 0, res |-> "NONE"]
  /\ rd = NoTransfer /\ wr = NoTransfer
  /\ aes = [st |-> "AES_IDLE", cnt |-> 0, first |-> FALSE, last |-> FALSE]
  /\ core = [run |-> FALSE, blocks |-> << >>, tag |-> FALSE]
  /\ ib = << >> /\ ob = << >> /\ gen = 0

\* The steps of a command; Fail is not one anybody can count on.
Progress ==
  \/ ReadRequest \/ ReadBeat \/ ReadDone \/ WriteRequest \/ WriteBeat \/ WriteDone
  \/ BlockInRam \/ CompareTag \/ SkipTag
  \/ AesStart \/ Configure \/ AesIn \/ AesInLast
  \/ (\E in, out \in BOOLEAN : AesOut(in, out)) \/ AesTagOut \/ AesBypass
  \/ (Refused /\ Fail)

DataNext ==
  \/ \E n \in Nums : StartCmd("ENCR", n)
  \/ StartCmd("FETCH", 0)
  \/ Progress
  \/ Fail

\* Bus, RAM and AES core go on: some step of a command that can be taken is.
DataSpec == DataInit /\ [][DataNext]_dataVars /\ WF_dataVars(Progress)

-----------------------------------------------------------------------------
\* Every flop has its type.  A beat count that has reached the length of its
\* transfer stands for r_comp or w_comp: no beat comes after the last.
DataTypeOK ==
  /\ cmd \in [st : {"IDLE", "ENCR", "FETCH"}, sub : 1 .. 4] /\ bypass \in BOOLEAN
  /\ encr \in [num : Nums \cup {0}, cnt : 0 .. CntMod - 1, written : 0 .. CntMod,
               res : {"NONE", "OK", "ERR"}]
  /\ rd \in [exec : BOOLEAN, cnt : 0 .. BlockWords]
  /\ wr \in [exec : BOOLEAN, cnt : 0 .. BlockWords]
  /\ aes \in [st : {"AES_IDLE", "AES_IN", "AES_OUT", "AES_TAG_OUT", "AES_BYPASS"},
              cnt : 0 .. AesBlocks - 1, first : BOOLEAN, last : BOOLEAN]
  /\ core.run \in BOOLEAN /\ core.tag \in BOOLEAN /\ Len(core.blocks) \in 0 .. 2
  /\ Len(ib) \in 0 .. BlockWords /\ Len(ob) \in 0 .. Ratio /\ gen \in {0, 1}

\* Every beat of a read finds room in the input buffer, whose push_rdy and
\* overflow_err are not connected.
NoBeatIsLost == BeatDue => IB!PushRdy

\* What waits in the output buffer are the next words of this very block, in
\* order and encrypted unless the strap says otherwise; after the last of them,
\* and not before, it is the tag.
OutputInOrder ==
  \A i \in 1 .. Len(ob) :
    LET kind == IF bypass THEN "IN" ELSE "OUT" IN
    IF In("ENCR", 3) THEN ob[i] = Word("TAG", wr.cnt + i)
    ELSE \/ wr.cnt + i <= BlockWords /\ ob[i] = Word(kind, wr.cnt + i)
         \/ In("ENCR", 2) /\ wr.cnt = BlockWords /\ ob[i] = Word("TAG", i)

\* The tag a fetched block is compared with was read for this block, and the
\* compare finds the data FSM where it takes it out of the buffer.
TagIsOfTheBlock ==
  In("FETCH", 4) /\ ~bypass => ib = Tag /\ aes.st = "AES_TAG_OUT"

\* A command starts from empty buffers, an idle data FSM and an idle core,
\* however the command before it ended.
CleanStart == cmd.st = "IDLE" => ib = << >> /\ ob = << >> /\ aes.st = "AES_IDLE" /\ ~core.run

\* ENCR_BLOCK succeeds when it has written num_of_blocks blocks, no more and no
\* fewer, up to the largest number; none at all is refused before the counter
\* can wrap.  (FETCH_BLOCK has nothing to write and num is 0.)
AllBlocksWritten == encr.res = "OK" => encr.written = encr.num

\* A command comes to an end, with a stale last_aes_out_block too.
CommandsFinish == (cmd.st # "IDLE") ~> (cmd.st = "IDLE")
=============================================================================
