------------------------------- MODULE CmuFifo -------------------------------
(***************************************************************************)
(* The width-converting FIFO of the crypto wrapper (sinc_cmu_fifo.sv).     *)
(* One side moves single words (the narrower of PUSH_DATAW and POP_DATAW), *)
(* the other whole lines.  The input buffer takes words and gives lines    *)
(* (PushWide = FALSE), the output buffer takes lines and gives words.      *)
(*                                                                         *)
(* Both pointers count words and carry a wrap bit; the wider side moves    *)
(* its pointer by a line, so that it always stands at the head of one.     *)
(***************************************************************************)
EXTENDS Integers, Sequences

CONSTANTS
  Data,       \* the words
  Zero,       \* a cleared word
  Depth,      \* DEPTH: lines
  Ratio,      \* PUSH_POP_RATIO: words of a line
  PushWide    \* PUSH_DATAW > POP_DATAW

ASSUME FifoAssumption ==
  /\ Depth \in Nat /\ Depth >= 1 /\ Ratio \in Nat /\ Ratio >= 2
  /\ PushWide \in BOOLEAN /\ Zero \in Data

\* "If FIFO is a power of 2 depth, just add one": the pointers wrap by themselves.
ASSUME PowersOfTwo ==
  (\E n \in 0 .. Depth : 2 ^ n = Depth) /\ (\E n \in 0 .. Ratio : 2 ^ n = Ratio)

VARIABLES
  pushPtr,    \* push_ptr_q: wrap bit and word
  popPtr,     \* pop_ptr_q
  memory      \* memory: the words, line by line

fifoVars == <<pushPtr, popPtr, memory>>

Room     == Depth * Ratio
PushSize == IF PushWide THEN Ratio ELSE 1
PopSize  == IF PushWide THEN 1 ELSE Ratio

-----------------------------------------------------------------------------
Line(p) == p.ptr \div Ratio

wrap_match == pushPtr.wrap = popPtr.wrap
ptr_match  == pushPtr.ptr = popPtr.ptr
line_match == Line(pushPtr) = Line(popPtr)

empty == wrap_match /\ ptr_match
full  == ~wrap_match /\ ptr_match

\* Only a part of a line is there; only a part of a line is free.
almost_empty == wrap_match /\ line_match /\ ~ptr_match
almost_full  == ~wrap_match /\ line_match /\ ~ptr_match

\* Mutant: a partly filled line can be popped.
pop_rdy_Mut == ~empty

push_rdy == ~(full \/ almost_full)
pop_rdy  == ~(empty \/ almost_empty)

entries_in_use ==
  (IF wrap_match THEN 0 ELSE Room) + pushPtr.ptr - popPtr.ptr

\* The word under the pop pointer, or the whole line.
pop_data == [i \in 1 .. PopSize |-> memory[popPtr.ptr + i - 1]]

-----------------------------------------------------------------------------
\* Mutant: the wrap bit is not carried into.
Advance_Mut(p, n) == [p EXCEPT !.ptr = (@ + n) % Room]

\* push_ptr_din, pop_ptr_din: an addition that carries into the wrap bit.
Advance(p, n) ==
  IF p.ptr + n < Room THEN [p EXCEPT !.ptr = @ + n]
  ELSE [wrap |-> ~p.wrap, ptr |-> p.ptr + n - Room]

Start == [wrap |-> FALSE, ptr |-> 0]

\* A cycle with these inputs: clear wins over push and pop, and a push or a pop
\* that is not ready is ignored.
FifoCycle(clear, push_en, pop_en, push_data) ==
  IF clear
  THEN /\ pushPtr' = Start /\ popPtr' = Start
       /\ memory' = [j \in 0 .. Room - 1 |-> Zero]
  ELSE /\ popPtr' = IF pop_en /\ pop_rdy THEN Advance(popPtr, PopSize) ELSE popPtr
       /\ IF push_en /\ push_rdy
          THEN /\ pushPtr' = Advance(pushPtr, PushSize)
               /\ memory' = [j \in 0 .. Room - 1 |->
                               IF j \in pushPtr.ptr .. pushPtr.ptr + PushSize - 1
                               THEN push_data[j - pushPtr.ptr + 1] ELSE memory[j]]
          ELSE UNCHANGED <<pushPtr, memory>>

FifoInit ==
  /\ pushPtr = Start /\ popPtr = Start
  /\ memory = [j \in 0 .. Room - 1 |-> Zero]

FifoNext ==
  \E clear, push_en, pop_en \in BOOLEAN, push_data \in [1 .. PushSize -> Data] :
    FifoCycle(clear, push_en, pop_en, push_data)

FifoSpec == FifoInit /\ [][FifoNext]_fifoVars

-----------------------------------------------------------------------------
(* The queue the FIFO stands for: the words from the pop pointer on, around *)
(* the end of the memory.                                                   *)

Slot(x) == IF x < Room THEN x ELSE x - Room
Content == [i \in 1 .. entries_in_use |-> memory[Slot(popPtr.ptr + i - 1)]]

Queue == INSTANCE FifoQueue WITH q <- Content

\* Every flop has its type.
FifoTypeOK ==
  /\ pushPtr \in [wrap : BOOLEAN, ptr : 0 .. Room - 1]
  /\ popPtr \in [wrap : BOOLEAN, ptr : 0 .. Room - 1]
  /\ memory \in [0 .. Room - 1 -> Data]

\* The ready flags, which are computed from three comparisons of the pointers
\* and know nothing of the number of words, say exactly whether a whole push
\* fits and whether a whole pop is there; a pop takes the oldest words.
FlagsAgree ==
  /\ push_rdy <=> Queue!PushRdy
  /\ pop_rdy <=> Queue!PopRdy
  /\ empty <=> Queue!Empty
  /\ pop_rdy => pop_data = Queue!PopData

\* The FIFO is the queue: no word is lost, doubled, overwritten or overtaken,
\* however pushes and pops of different width meet at the end of the memory.
ImplementsQueue == Queue!QueueSpec
=============================================================================
