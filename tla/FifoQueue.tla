------------------------------ MODULE FifoQueue ------------------------------
(***************************************************************************)
(* What a buffer of the crypto wrapper promises: a queue of words that     *)
(* takes PushSize words at a time when they all fit, gives PopSize words at *)
(* a time when they are all there, and ignores a push or a pop otherwise.  *)
(***************************************************************************)
EXTENDS Integers, Sequences

CONSTANTS
  Data,       \* the words
  Room,       \* words the buffer holds
  PushSize,   \* words of a push
  PopSize     \* words of a pop

VARIABLE q    \* the words in the buffer, the oldest first

\* push_rdy, pop_rdy, empty.
PushRdy == Len(q) + PushSize <= Room
PopRdy  == Len(q) >= PopSize
Empty   == Len(q) = 0

\* pop_data: what a pop takes.
PopData == SubSeq(q, 1, PopSize)

\* q after p words have left and the words d have come.
After(p, d) == SubSeq(q, p + 1, Len(q)) \o d

\* One cycle: clear wins; a push and a pop may meet.
QueueCycle(clear, pushEn, popEn, d) ==
  q' = IF clear THEN << >>
       ELSE After(IF popEn /\ PopRdy THEN PopSize ELSE 0,
                  IF pushEn /\ PushRdy THEN d ELSE << >>)

QueueInit == q = << >>

QueueNext ==
  \E clear, pushEn, popEn \in BOOLEAN, d \in [1 .. PushSize -> Data] :
    QueueCycle(clear, pushEn, popEn, d)

QueueSpec == QueueInit /\ [][QueueNext]_q
=============================================================================
