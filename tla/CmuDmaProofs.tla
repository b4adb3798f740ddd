---------------------------- MODULE CmuDmaProofs ----------------------------
(***************************************************************************)
(* The DMA and the command engines of the AXI manager, for transfers of    *)
(* every length, on both channels and whenever the crypto wrapper stops    *)
(* them: a request is heard, and the two beat counts agree.                *)
(*                                                                         *)
(* The DMA is blind to the manager, so the argument is about what the two  *)
(* know of each other.  comp_q says whether a response is owed (Owed).  It *)
(* is the manager's state but for one case: a stop that meets the response *)
(* of the transfer it stops makes the manager respond a second time        *)
(* (Settled).  The DMA is idle by then, and the one thing that keeps it    *)
(* from taking a request is that the crypto wrapper has not yet had time   *)
(* to ask (Restart).                                                       *)
(***************************************************************************)
EXTENDS CmuDma, TLAPS

\* While a response is owed, the DMA waits for it and the manager owes it.
Owed(c) ==
  ~dma[c].comp => dma[c].st # "IDLE" /\ mgr[c].st # "IDLE"

\* Once it has arrived, the manager is at rest or on its way to a second
\* response, which it gives without waiting for the bus.
Settled(c) ==
  dma[c].comp =>
    /\ dma[c].st \in {"IDLE", "FLUSH"} /\ dma[c].beat = 0 /\ ~dma[c].stop
    /\ mgr[c].st \in {"IDLE", "SERR", "SRES"} /\ mgr[c].path # "PROC"
    /\ mgr[c].st = "SERR" => mgr[c].path = "DONE" /\ gap <= 1
    /\ mgr[c].st = "SRES" => ask[c].st = "NONE"

\* The crypto wrapper asks for nothing right after a stop.
Restart(c) == gap < MinGap => ask[c].st = "NONE"

\* A stop is requested of the manager once, in the cycle after the stop; from
\* then on the manager fails the transfer.
StopOnce(c) ==
  /\ StopReq(c) => gap = 0
  /\ dma[c].stop => dma[c].st = "FLUSH" /\ mgr[c].st \in {"SERR", "SRES"}

\* The data path works for the command the manager processes.
Path(c) ==
  /\ mgr[c].path = "PROC" => mgr[c].st \in {"PROC", "PERR", "SERR"}
  /\ mgr[c].st = "PRES" => mgr[c].path = "DONE"
  /\ mgr[c].st = "PERR" => mgr[c].resp = "ERR"
  /\ mgr[c].st \in {"PROC", "PRES"} /\ mgr[c].path = "DONE" /\ mgr[c].resp = "OK"
       => mgr[c].left = 0

\* Until a stop, the DMA and the manager agree on the beats to come.
Beats(c) ==
  ~dma[c].comp /\ ~dma[c].stop =>
    \/ mgr[c].left = 0 /\ dma[c].beat = 0
    \/ mgr[c].left > 0 /\ dma[c].beat = dma[c].len - mgr[c].left

\* The crypto wrapper waits while the DMA works for it, and has counted what
\* the DMA has.
Counts(c) ==
  /\ ask[c].st = "EXEC" <=> dma[c].st \in {"DATA", "RESP"}
  /\ ask[c].st = "ASK" => ask[c].len \in Lens /\ ask[c].cnt = 0 /\ ~ask[c].full
  /\ dma[c].st = "DATA" =>
       /\ mgr[c].left > 0 /\ ask[c].len = dma[c].len
       /\ ask[c].cnt = dma[c].beat /\ ~ask[c].full
  /\ dma[c].st = "RESP" =>
       mgr[c].left = 0 /\ ask[c].cnt = ask[c].len /\ ask[c].full

Channel(c) ==
  Owed(c) /\ Settled(c) /\ Restart(c) /\ StopOnce(c) /\ Path(c) /\ Beats(c) /\ Counts(c)

DmaIInv == DmaTypeOK /\ \A c \in Channels : Channel(c)

-----------------------------------------------------------------------------
\* What a cycle samples.
InputOK(in) ==
  /\ in.stop \in BOOLEAN /\ in.wvld \in BOOLEAN
  /\ in.begin \subseteq {c \in Channels : CanBegin(c)}
  /\ in.begin # {} => in.len \in Lens

LEMMA NextIsACycle ==
  ASSUME DmaNext
  PROVE  \E in : InputOK(in) /\ Cycle(in)
<1>1. PICK b \in SUBSET {c \in Channels : CanBegin(c)},
           s \in IF MustStop THEN {TRUE} ELSE BOOLEAN,
           v \in IF dma["W"].st = "DATA" THEN BOOLEAN ELSE {FALSE},
           r \in BusEvents("R"), w \in BusEvents("W") :
             \E n \in IF b = {} THEN {0} ELSE Lens :
               Cycle([begin |-> b, len |-> n, stop |-> s, wvld |-> v,
                      bus |-> [c \in Channels |-> IF c = "R" THEN r ELSE w]])
  BY Zenon DEF DmaNext
<1>2. PICK n \in IF b = {} THEN {0} ELSE Lens :
        Cycle([begin |-> b, len |-> n, stop |-> s, wvld |-> v,
               bus |-> [c \in Channels |-> IF c = "R" THEN r ELSE w]])
  BY <1>1, Zenon
<1> DEFINE in == [begin |-> b, len |-> n, stop |-> s, wvld |-> v,
                  bus |-> [c \in Channels |-> IF c = "R" THEN r ELSE w]]
<1>3. s \in BOOLEAN /\ v \in BOOLEAN
  BY Zenon
<1>4. InputOK(in)
  BY <1>3 DEF InputOK
<1>5. QED
  BY <1>2, <1>4, Zenon

\* A transfer has at least one beat, and its length fits the counters.
LEMMA Length ==
  ASSUME NEW n \in Lens
  PROVE  n \in Nat /\ n >= 1 /\ n < LenMod /\ n \in 0 .. LenMod - 1
<1>1. n \in 1 .. LenMod - 1 /\ LenMod \in Nat
  BY DmaAssumption, Zenon
<1>2. QED
  BY <1>1

\* The fields of a channel, before and after a cycle.
LEMMA Fields ==
  ASSUME DmaTypeOK, NEW in, Cycle(in), NEW c \in Channels
  PROVE  /\ dma'[c] = NextDma(c, in) /\ mgr'[c] = NextMgr(c, in) /\ ask'[c] = NextAsk(c, in)
         /\ dma[c].st \in {"IDLE", "DATA", "RESP", "FLUSH"}
         /\ dma[c].len \in 0 .. LenMod - 1 /\ dma[c].beat \in 0 .. LenMod - 1
         /\ dma[c].comp \in BOOLEAN /\ dma[c].stop \in BOOLEAN
         /\ mgr[c].st \in {"IDLE", "PROC", "PERR", "PRES", "SERR", "SRES"}
         /\ mgr[c].path \in {"IDLE", "PROC", "DONE"} /\ mgr[c].left \in 0 .. LenMod - 1
         /\ mgr[c].resp \in {"OK", "ERR"}
         /\ ask[c] \in [st : {"NONE", "ASK", "EXEC"}, len : 0 .. LenMod - 1,
                        cnt : 0 .. LenMod - 1, full : BOOLEAN]
BY DEF DmaTypeOK, Cycle

\* A beat moves only before the transfer has failed or has been stopped.
LEMMA BeatsMoveEarly ==
  ASSUME DmaIInv, NEW in, Cycle(in), NEW c \in Channels, Beat(c, in)
  PROVE  /\ ~dma[c].comp /\ ~dma[c].stop /\ mgr[c].left > 0
         /\ ~Response(c) /\ dma[c].st \in {"DATA", "FLUSH"}
BY Fields DEF DmaIInv, Channel, Settled, StopOnce, Path, Beat, Ready, Flushing, Response, MgrFailing, NextMgrSt, StopReq

\* The state of the DMA after a cycle.
LEMMA DmaMoves ==
  ASSUME DmaTypeOK, NEW in, InputOK(in), Cycle(in), NEW c \in Channels
  PROVE  /\ dma'[c].comp <=> ~Taken(c) /\ (dma[c].comp \/ Response(c))
         /\ dma'[c].stop <=> ~(Flushing(c) /\ Response(c)) /\ (dma[c].stop \/ StopReq(c))
         /\ dma'[c].beat = NextBeat(c, in)
         /\ dma'[c].len = IF ReportDone(c) \/ ReportErr(c) THEN 0
                          ELSE IF Asking(c) THEN ask[c].len ELSE dma[c].len
         /\ in.stop => dma'[c].st = "FLUSH"
         /\ ~in.stop =>
              /\ dma[c].st = "IDLE" => dma'[c].st = IF Taken(c) THEN "DATA" ELSE "IDLE"
              /\ dma[c].st = "DATA" =>
                   dma'[c].st = IF Response(c) THEN IF RespErr(c) THEN "IDLE" ELSE "DATA"
                                ELSE IF LastBeat(c, in) THEN "RESP" ELSE "DATA"
              /\ dma[c].st = "RESP" => dma'[c].st = IF Response(c) THEN "IDLE" ELSE "RESP"
              /\ dma[c].st = "FLUSH" => dma'[c].st = AfterFlush(c)
<1>1. /\ dma'[c].comp = (IF Taken(c) THEN FALSE ELSE dma[c].comp \/ Response(c))
      /\ dma'[c].stop = (IF Flushing(c) /\ Response(c) THEN FALSE
                         ELSE dma[c].stop \/ StopReq(c))
      /\ dma'[c].beat = NextBeat(c, in)
      /\ dma'[c].len = IF ReportDone(c) \/ ReportErr(c) THEN 0
                       ELSE IF Asking(c) THEN ask[c].len ELSE dma[c].len
      /\ dma'[c].st = NextDmaSt(c, in)
  <2>1. dma'[c] = NextDma(c, in)
    BY Fields
  <2>2. QED
    BY <2>1 DEF NextDma
<1>2. dma[c].comp \in BOOLEAN /\ dma[c].stop \in BOOLEAN
  BY Fields
<1>3. /\ dma'[c].comp <=> ~Taken(c) /\ (dma[c].comp \/ Response(c))
      /\ dma'[c].stop <=> ~(Flushing(c) /\ Response(c)) /\ (dma[c].stop \/ StopReq(c))
  BY <1>1, <1>2, Zenon
<1>4. in.stop => NextDmaSt(c, in) = "FLUSH"
  BY DEF NextDmaSt
<1>5. ~in.stop =>
        /\ dma[c].st = "IDLE" => NextDmaSt(c, in) = IF Taken(c) THEN "DATA" ELSE "IDLE"
        /\ dma[c].st = "DATA" =>
             NextDmaSt(c, in) = IF Response(c) THEN IF RespErr(c) THEN "IDLE" ELSE "DATA"
                                ELSE IF LastBeat(c, in) THEN "RESP" ELSE "DATA"
        /\ dma[c].st = "RESP" => NextDmaSt(c, in) = IF Response(c) THEN "IDLE" ELSE "RESP"
        /\ dma[c].st = "FLUSH" => NextDmaSt(c, in) = AfterFlush(c)
  BY DEF NextDmaSt
<1>6. QED
  BY <1>1, <1>3, <1>4, <1>5

\* The state of the manager after a cycle.
LEMMA MgrMoves ==
  ASSUME DmaTypeOK, NEW in, Cycle(in), NEW c \in Channels
  PROVE  /\ mgr[c].st = "IDLE" /\ ~StopReq(c) => mgr'[c].st \in {"IDLE", "PROC", "SERR"}
         /\ mgr[c].st = "IDLE" /\ ~StopReq(c) => (mgr'[c].st # "IDLE" <=> Taken(c))
         /\ mgr[c].st \in {"PROC", "PERR", "PRES"} /\ StopReq(c) => mgr'[c].st = "SERR"
         /\ mgr[c].st \in {"PROC", "PERR"} /\ ~StopReq(c)
              => mgr'[c].st \in {"PROC", "PERR", "PRES"}
         /\ mgr[c].st = "PERR" => mgr'[c].st # "PROC"
         /\ mgr[c].st = "PROC" /\ mgr'[c].st = "PERR" => mgr[c].resp = "ERR"
         /\ mgr[c].st = "PROC" /\ mgr'[c].st = "PRES" => mgr[c].resp = "OK"
         /\ mgr[c].st \in {"PROC", "PERR"} /\ mgr'[c].st = "PRES" => mgr[c].path = "DONE"
         /\ mgr[c].st = "PRES" /\ ~StopReq(c) => mgr'[c].st = "IDLE"
         /\ mgr[c].st = "SERR" => mgr'[c].st \in {"SERR", "SRES"}
         /\ mgr[c].st = "SERR" /\ mgr'[c].st = "SRES" => mgr[c].path # "PROC"
         /\ mgr[c].st = "SERR" /\ mgr[c].path = "DONE" /\ ~StopReq(c) => mgr'[c].st = "SRES"
         /\ mgr[c].st = "SRES" => mgr'[c].st = "IDLE"
<1>1. mgr'[c].st = NextMgrSt(c, in)
  <2>1. mgr'[c] = NextMgr(c, in)
    BY Fields
  <2>2. QED
    BY <2>1 DEF NextMgr
<1>2. /\ mgr[c].st \in {"IDLE", "PROC", "PERR", "PRES", "SERR", "SRES"}
      /\ mgr[c].path \in {"IDLE", "PROC", "DONE"} /\ mgr[c].resp \in {"OK", "ERR"}
  BY Fields
<1>3. QED
  BY <1>1, <1>2 DEF NextMgrSt

\* Its data path, its count and its response.
LEMMA PathMoves ==
  ASSUME DmaTypeOK, NEW in, Cycle(in), NEW c \in Channels
  PROVE  /\ mgr[c].path = "IDLE" => mgr'[c].path = IF mgr[c].st = "PROC" THEN "PROC" ELSE "IDLE"
         /\ mgr[c].path = "PROC" => mgr'[c].path \in {"PROC", "DONE"}
         /\ mgr[c].path = "PROC" /\ mgr'[c].path = "DONE" => mgr[c].left = 0 \/ MgrFailing(c)
         /\ mgr[c].path = "DONE" => mgr'[c].path = IF mgr[c].st = "IDLE" THEN "IDLE" ELSE "DONE"
         /\ mgr'[c].left = IF mgr[c].st = "IDLE" /\ Taken(c) THEN ask[c].len
                           ELSE IF Beat(c, in) THEN mgr[c].left - 1 ELSE mgr[c].left
         /\ mgr'[c].resp \in {"OK", "ERR"}
         /\ mgr[c].st # "IDLE" /\ mgr[c].resp = "ERR" => mgr'[c].resp = "ERR"
<1>1. /\ mgr'[c].path = NextPath(c, in)
      /\ mgr'[c].left = IF mgr[c].st = "IDLE" /\ Taken(c) THEN ask[c].len
                        ELSE IF Beat(c, in) THEN mgr[c].left - 1 ELSE mgr[c].left
      /\ mgr'[c].resp = IF mgr[c].st = "IDLE" THEN "OK"
                        ELSE IF BusErr(c, in) THEN "ERR" ELSE mgr[c].resp
  <2>1. mgr'[c] = NextMgr(c, in)
    BY Fields
  <2>2. QED
    BY <2>1 DEF NextMgr
<1>2. mgr[c].path \in {"IDLE", "PROC", "DONE"} /\ mgr[c].resp \in {"OK", "ERR"}
  BY Fields
<1>3. QED
  BY <1>1, <1>2 DEF NextPath

\* What the crypto wrapper wants after a cycle.
LEMMA AskMoves ==
  ASSUME DmaTypeOK, NEW in, InputOK(in), Cycle(in), NEW c \in Channels
  PROVE  LET done == ask[c].st = "EXEC" /\ (ReportDone(c) \/ ReportErr(c)) IN
         /\ in.stop \/ done => ask'[c] = Idle
         /\ ~in.stop /\ ask[c].st = "NONE" /\ c \notin in.begin => ask'[c] = Idle
         /\ ~in.stop /\ ask[c].st = "NONE" /\ c \in in.begin =>
              /\ ask'[c].st = "ASK" /\ ask'[c].len \in Lens /\ ask'[c].len \in 0 .. LenMod - 1
              /\ ask'[c].cnt = 0 /\ ask'[c].full = FALSE /\ gap = MinGap
         /\ ~in.stop /\ ~done /\ ask[c].st # "NONE" =>
              /\ ask'[c].st = (IF Taken(c) THEN "EXEC" ELSE ask[c].st)
              /\ ask'[c].len = ask[c].len
              /\ ask'[c].cnt = (IF SeesBeat(c, in) THEN ask[c].cnt + 1 ELSE ask[c].cnt)
              /\ ask'[c].full <=> (ask[c].full \/ (SeesBeat(c, in) /\ ask[c].cnt = ask[c].len - 1))
<1> DEFINE done == ask[c].st = "EXEC" /\ (ReportDone(c) \/ ReportErr(c))
<1>1. /\ ask'[c] = NextAsk(c, in)
      /\ ask[c] \in [st : {"NONE", "ASK", "EXEC"}, len : 0 .. LenMod - 1,
                     cnt : 0 .. LenMod - 1, full : BOOLEAN]
  BY Fields
<1>2. in.stop \/ done => ask'[c] = Idle
  BY <1>1 DEF NextAsk
<1>3. ASSUME ~in.stop, ask[c].st = "NONE"
      PROVE  ask'[c] = IF c \in in.begin THEN [Idle EXCEPT !.st = "ASK", !.len = in.len] ELSE Idle
  BY <1>1, <1>3 DEF NextAsk
<1>4. ASSUME ~in.stop, ask[c].st = "NONE", c \in in.begin
      PROVE  /\ ask'[c].st = "ASK" /\ ask'[c].len \in Lens /\ ask'[c].len \in 0 .. LenMod - 1
             /\ ask'[c].cnt = 0 /\ ask'[c].full = FALSE /\ gap = MinGap
  <2>1. in.len \in Lens /\ gap = MinGap
    BY <1>4 DEF InputOK, CanBegin
  <2>2. in.len \in 0 .. LenMod - 1
    BY <2>1, Length
  <2>3. QED
    BY <1>3, <1>4, <2>1, <2>2 DEF Idle
<1>5. ASSUME ~in.stop, ~done, ask[c].st # "NONE"
      PROVE  ask'[c] = [ask[c] EXCEPT
               !.st = IF Taken(c) THEN "EXEC" ELSE @,
               !.cnt = IF SeesBeat(c, in) THEN @ + 1 ELSE @,
               !.full = @ \/ (SeesBeat(c, in) /\ ask[c].cnt = ask[c].len - 1)]
  BY <1>1, <1>5, Zenon DEF NextAsk
<1>6. ASSUME ~in.stop, ~done, ask[c].st # "NONE"
      PROVE  /\ ask'[c].st = (IF Taken(c) THEN "EXEC" ELSE ask[c].st)
             /\ ask'[c].len = ask[c].len
             /\ ask'[c].cnt = (IF SeesBeat(c, in) THEN ask[c].cnt + 1 ELSE ask[c].cnt)
             /\ ask'[c].full = (ask[c].full \/ (SeesBeat(c, in) /\ ask[c].cnt = ask[c].len - 1))
  BY <1>1, <1>5, <1>6
<1>7. ASSUME ~in.stop, ~done, ask[c].st # "NONE"
      PROVE  ask'[c].full <=> (ask[c].full \/ (SeesBeat(c, in) /\ ask[c].cnt = ask[c].len - 1))
  BY <1>6, <1>7
<1>8. QED
  BY <1>2, <1>3, <1>4, <1>6, <1>7

LEMMA AsksNothing ==
  ASSUME DmaTypeOK, NEW in, InputOK(in), Cycle(in), NEW c \in Channels,
         in.stop \/ (ask[c].st = "NONE" /\ c \notin in.begin)
  PROVE  ask'[c].st = "NONE"
<1>1. ask'[c] = Idle
  BY AskMoves
<1>2. QED
  BY <1>1 DEF Idle

-----------------------------------------------------------------------------
\* A request is taken by a manager at rest, when no response is owed.
LEMMA HeardAtRest ==
  ASSUME DmaIInv, NEW c \in Channels
  PROVE  /\ Taken(c) => dma[c].comp /\ mgr[c].st = "IDLE"
         /\ mgr[c].st = "IDLE" => ~StopReq(c)
<1>1. Owed(c) /\ Settled(c) /\ Restart(c) /\ gap \in 0 .. MinGap
  BY DEF DmaIInv, Channel, DmaTypeOK
<1>2. MinGap \in Nat /\ MinGap >= 2
  BY DmaAssumption, Zenon
<1>3. Taken(c) => dma[c].comp /\ gap >= MinGap
  BY <1>1, <1>2 DEF Taken, Asking, Owed, Restart
<1>4. Taken(c) => mgr[c].st = "IDLE"
  BY <1>1, <1>2, <1>3 DEF Settled, Taken, Asking
<1>5. QED
  BY <1>1, <1>3, <1>4 DEF StopReq, Flushing, Owed

\* A response that comes before the last beat reports a failure; one that comes
\* after it, or that ends a flush, leaves no beat counted.
LEMMA ResponseEnds ==
  ASSUME DmaIInv, NEW in, Cycle(in), NEW c \in Channels, Response(c)
  PROVE  /\ ~Beat(c, in) /\ NextBeat(c, in) = 0
         /\ dma[c].st = "DATA" => RespErr(c)
<1>1. /\ Settled(c) /\ StopOnce(c) /\ Path(c) /\ Beats(c) /\ Counts(c)
      /\ DmaTypeOK
  BY DEF DmaIInv, Channel
<1>2. ~Beat(c, in)
  BY BeatsMoveEarly
<1>3. ~RespErr(c) => mgr[c].st = "PRES" /\ mgr[c].left = 0 /\ ~dma[c].comp /\ ~dma[c].stop
  <2>1. mgr[c].resp \in {"OK", "ERR"}
    BY <1>1, Fields
  <2>2. QED
    BY <1>1, <2>1 DEF RespErr, Response, Path, Settled, StopOnce
<1>4. ~RespErr(c) => dma[c].beat = 0
  <2>1. mgr[c].left = 0 => ~(mgr[c].left > 0)
    OBVIOUS
  <2>2. QED
    BY <1>1, <1>3, <2>1 DEF Beats
<1>5. NextBeat(c, in) = 0
  BY <1>2, <1>4 DEF NextBeat, LastBeat
<1>6. dma[c].st = "DATA" => RespErr(c)
  BY <1>1, <1>3 DEF Counts
<1>7. QED
  BY <1>2, <1>5, <1>6

\* The DMA sees the last beat when the manager has one left.
LEMMA LastIsLast ==
  ASSUME DmaIInv, NEW in, Cycle(in), NEW c \in Channels, Beat(c, in)
  PROVE  /\ dma[c].beat = dma[c].len - mgr[c].left
         /\ LastBeat(c, in) <=> mgr[c].left = 1
         /\ NextBeat(c, in) = IF mgr[c].left = 1 THEN 0 ELSE dma[c].beat + 1
<1>1. Beats(c) /\ DmaTypeOK
  BY DEF DmaIInv, Channel
<1>2. /\ dma[c].len \in 0 .. LenMod - 1 /\ dma[c].beat \in 0 .. LenMod - 1
      /\ mgr[c].left \in 0 .. LenMod - 1
  BY <1>1, Fields
<1>3. LenMod \in Nat
  BY DmaAssumption, Zenon
<1>4. mgr[c].left > 0 /\ ~dma[c].comp /\ ~dma[c].stop /\ ~Response(c)
  BY BeatsMoveEarly
<1>5. dma[c].beat = dma[c].len - mgr[c].left
  BY <1>1, <1>2, <1>4 DEF Beats
<1>6. dma[c].len - 1 \in 0 .. LenMod - 1
  BY <1>2, <1>3, <1>4, <1>5
<1>7. (dma[c].len - 1) % LenMod = dma[c].len - 1
  BY <1>3, <1>6
<1>8. LastBeat(c, in) <=> mgr[c].left = 1
  BY <1>2, <1>5, <1>7 DEF LastBeat
<1>9. mgr[c].left # 1 => (dma[c].beat + 1) % LenMod = dma[c].beat + 1
  <2>1. mgr[c].left # 1 => dma[c].beat + 1 \in 0 .. LenMod - 1
    BY <1>2, <1>3, <1>4, <1>5
  <2>2. QED
    BY <1>3, <2>1
<1>10. ~RespErr(c)
  BY <1>4 DEF RespErr
<1>11. QED
  BY <1>5, <1>8, <1>9, <1>10 DEF NextBeat

-----------------------------------------------------------------------------
(* A cycle keeps the invariant: the states of the DMA and of the manager,   *)
(* then the data path, then the counts.                                     *)

LEMMA StatesStep ==
  ASSUME DmaIInv, NEW in, InputOK(in), Cycle(in), NEW c \in Channels
  PROVE  Owed(c)' /\ Settled(c)' /\ Restart(c)' /\ StopOnce(c)'
<1>1. /\ DmaTypeOK /\ Owed(c) /\ Settled(c) /\ Restart(c) /\ StopOnce(c) /\ Path(c)
      /\ Counts(c)
  BY DEF DmaIInv, Channel
<1>2. /\ dma[c].st \in {"IDLE", "DATA", "RESP", "FLUSH"}
      /\ dma[c].comp \in BOOLEAN /\ dma[c].stop \in BOOLEAN
      /\ mgr[c].st \in {"IDLE", "PROC", "PERR", "PRES", "SERR", "SRES"}
      /\ mgr[c].path \in {"IDLE", "PROC", "DONE"}
      /\ ask[c].st \in {"NONE", "ASK", "EXEC"}
  BY <1>1, Fields
<1>3. /\ gap \in 0 .. MinGap /\ MinGap \in Nat /\ MinGap >= 2
      /\ in.stop => gap' = 0
      /\ ~in.stop => gap' = IF gap < MinGap THEN gap + 1 ELSE gap
  <2>1. MinGap \in Nat /\ MinGap >= 2
    BY DmaAssumption, Zenon
  <2>2. QED
    BY <1>1, <2>1 DEF DmaTypeOK, Cycle
<1>4. Restart(c)'
  <2>1. gap' < MinGap /\ ~in.stop => gap < MinGap
    BY <1>3
  <2>2. in.stop => ask'[c].st = "NONE"
    BY <1>1, AsksNothing
  <2>3. gap < MinGap /\ ~in.stop => c \notin in.begin
    BY <1>3 DEF InputOK, CanBegin
  <2>4. gap < MinGap /\ ~in.stop => ask'[c].st = "NONE"
    BY <1>1, <2>3, AsksNothing DEF Restart
  <2>5. QED
    BY <2>1, <2>2, <2>4 DEF Restart
<1>5. Owed(c)'
  <2>1. CASE Taken(c)
    <3>1. dma'[c].st \in {"DATA", "FLUSH"}
      BY <1>1, <2>1, DmaMoves DEF Taken
    <3>2. mgr'[c].st # "IDLE"
      BY <1>1, <2>1, HeardAtRest, MgrMoves
    <3>3. QED
      BY <3>1, <3>2 DEF Owed
  <2>2. CASE ~Taken(c)
    <3>1. SUFFICES ASSUME ~dma'[c].comp
                   PROVE  dma'[c].st # "IDLE" /\ mgr'[c].st # "IDLE"
      BY DEF Owed
    <3>2. ~dma[c].comp /\ ~Response(c)
      BY <1>1, <2>2, <3>1, DmaMoves
    <3>3. dma[c].st # "IDLE" /\ mgr[c].st \in {"PROC", "PERR", "SERR"}
      BY <1>1, <1>2, <3>2 DEF Owed, Response
    <3>4. dma'[c].st # "IDLE"
      BY <1>1, <1>2, <3>2, <3>3, DmaMoves DEF AfterFlush
    <3>5. mgr'[c].st # "IDLE"
      BY <1>1, <3>3, MgrMoves
    <3>6. QED
      BY <3>4, <3>5
  <2>3. QED
    BY <2>1, <2>2
<1>6. StopOnce(c)'
  <2>1. StopReq(c)' => gap' = 0
    <3>1. SUFFICES ASSUME dma'[c].st = "FLUSH", ~dma'[c].comp, ~dma'[c].stop, ~in.stop
                   PROVE  FALSE
      BY <1>3 DEF StopReq, Flushing
    <3>2. dma[c].st = "FLUSH" /\ ~Taken(c)
      BY <1>1, <1>2, <3>1, DmaMoves DEF Taken
    <3>3. ~dma[c].comp /\ ~Response(c)
      BY <1>1, <3>1, <3>2, DmaMoves
    <3>4. dma[c].stop \/ StopReq(c)
      BY <3>2, <3>3 DEF StopReq, Flushing
    <3>5. QED
      BY <1>1, <3>1, <3>3, <3>4, DmaMoves
  <2>2. ASSUME dma'[c].stop PROVE dma'[c].st = "FLUSH" /\ mgr'[c].st \in {"SERR", "SRES"}
    <3>1. dma[c].st = "FLUSH" /\ ~dma[c].comp
      BY <1>1, <2>2, DmaMoves DEF StopOnce, Settled, StopReq, Flushing
    <3>2. ~Response(c)
      BY <1>1, <2>2, <3>1, DmaMoves DEF Flushing
    <3>3. dma'[c].st = "FLUSH"
      BY <1>1, <3>1, <3>2, DmaMoves DEF AfterFlush
    <3>4. mgr[c].st \in {"PROC", "PERR", "SERR"}
      BY <1>1, <1>2, <3>1, <3>2 DEF Owed, Response
    <3>5. dma[c].stop => mgr[c].st = "SERR"
      BY <1>1, <3>4 DEF StopOnce
    <3>6. ~dma[c].stop => StopReq(c)
      BY <3>1 DEF StopReq, Flushing
    <3>7. QED
      BY <1>1, <3>3, <3>4, <3>5, <3>6, MgrMoves
  <2>3. QED
    BY <2>1, <2>2 DEF StopOnce
<1>7. Settled(c)'
  <2>1. SUFFICES ASSUME dma'[c].comp
                 PROVE  /\ dma'[c].st \in {"IDLE", "FLUSH"} /\ dma'[c].beat = 0 /\ ~dma'[c].stop
                        /\ mgr'[c].st \in {"IDLE", "SERR", "SRES"} /\ mgr'[c].path # "PROC"
                        /\ mgr'[c].st = "SERR" => mgr'[c].path = "DONE" /\ gap' <= 1
                        /\ mgr'[c].st = "SRES" => ask'[c].st = "NONE"
    BY DEF Settled
  <2>2. ~Taken(c) /\ (dma[c].comp \/ Response(c))
    BY <1>1, <2>1, DmaMoves
  <2>3. CASE ~dma[c].comp
    <3>1. Response(c) /\ mgr[c].st \in {"PRES", "SRES"}
      BY <2>2, <2>3 DEF Response
    <3>2. dma'[c].beat = 0 /\ (dma[c].st = "DATA" => RespErr(c))
      BY <1>1, <3>1, ResponseEnds, DmaMoves
    <3>3. dma[c].st # "IDLE"
      BY <1>1, <2>3 DEF Owed
    <3>4. dma'[c].st \in {"IDLE", "FLUSH"}
      BY <1>1, <1>2, <2>2, <3>1, <3>2, <3>3, DmaMoves DEF AfterFlush
    <3>5. ~dma'[c].stop
      <4>1. dma[c].stop \/ StopReq(c) => Flushing(c)
        BY <1>1, <2>3 DEF StopOnce, StopReq, Flushing
      <4>2. QED
        BY <1>1, <3>1, <4>1, DmaMoves
    <3>6. mgr[c].path # "PROC" /\ mgr'[c].path # "PROC"
      BY <1>1, <1>2, <3>1, PathMoves DEF Path
    <3>7. mgr'[c].st \in {"IDLE", "SERR"}
      BY <1>1, <3>1, MgrMoves
    <3>8. mgr'[c].st = "SERR" => mgr[c].st = "PRES" /\ StopReq(c)
      BY <1>1, <3>1, MgrMoves
    <3>9. mgr'[c].st = "SERR" => mgr'[c].path = "DONE" /\ gap' <= 1
      <4>1. mgr'[c].st = "SERR" => mgr'[c].path = "DONE"
        BY <1>1, <3>8, PathMoves DEF Path
      <4>2. mgr'[c].st = "SERR" => gap = 0
        BY <1>1, <3>8 DEF StopOnce
      <4>3. QED
        BY <1>3, <4>1, <4>2
    <3>10. QED
      BY <3>2, <3>4, <3>5, <3>6, <3>7, <3>9
  <2>4. CASE dma[c].comp
    <3>1. dma[c].st \in {"IDLE", "FLUSH"} /\ ~Flushing(c) /\ ~StopReq(c)
      BY <1>1, <2>4 DEF Settled, Flushing, StopReq
    <3>2. dma'[c].st \in {"IDLE", "FLUSH"} /\ ~dma'[c].stop
      BY <1>1, <2>2, <2>4, <3>1, DmaMoves DEF Settled, AfterFlush
    <3>3. dma'[c].beat = 0
      <4>1. ~Beat(c, in)
        BY <2>4, BeatsMoveEarly
      <4>2. NextBeat(c, in) = 0
        BY <1>1, <2>4, <4>1 DEF NextBeat, LastBeat, Settled
      <4>3. QED
        BY <1>1, <4>2, DmaMoves
    <3>4. mgr[c].st \in {"IDLE", "SERR", "SRES"} /\ mgr[c].path # "PROC"
      BY <1>1, <2>4 DEF Settled
    <3>5. mgr'[c].path # "PROC"
      BY <1>1, <1>2, <3>4, PathMoves
    <3>6. mgr[c].st # "SERR" => mgr'[c].st = "IDLE"
      <4>1. mgr[c].st = "IDLE" => mgr'[c].st = "IDLE"
        BY <1>1, <2>2, <3>1, MgrMoves
      <4>2. QED
        BY <1>1, <3>4, <4>1, MgrMoves
    <3>7. mgr[c].st = "SERR" => mgr'[c].st = "SRES" /\ gap <= 1
      BY <1>1, <2>4, <3>1, MgrMoves DEF Settled
    <3>8. gap <= 1 => ask[c].st = "NONE" /\ c \notin in.begin
      BY <1>1, <1>3 DEF Restart, InputOK, CanBegin
    <3>9. mgr'[c].st = "SRES" => ask'[c].st = "NONE"
      BY <1>1, <3>6, <3>7, <3>8, AsksNothing
    <3>10. QED
      BY <3>2, <3>3, <3>5, <3>6, <3>7, <3>9
  <2>5. QED
    BY <1>2, <2>3, <2>4
<1>8. QED
  BY <1>4, <1>5, <1>6, <1>7

LEMMA PathStep ==
  ASSUME DmaIInv, NEW in, InputOK(in), Cycle(in), NEW c \in Channels
  PROVE  Path(c)'
<1>1. DmaTypeOK /\ Owed(c) /\ Path(c) /\ Settled(c)
  BY DEF DmaIInv, Channel
<1>2. /\ mgr[c].st \in {"IDLE", "PROC", "PERR", "PRES", "SERR", "SRES"}
      /\ mgr[c].path \in {"IDLE", "PROC", "DONE"} /\ mgr[c].resp \in {"OK", "ERR"}
  BY <1>1, Fields
<1>3. mgr[c].st = "IDLE" => ~StopReq(c)
  BY HeardAtRest
<1>4. mgr'[c].path = "PROC" => mgr'[c].st \in {"PROC", "PERR", "SERR"}
  <2>1. mgr'[c].path = "PROC" => mgr[c].st \in {"PROC", "PERR", "SERR"} /\ mgr[c].path # "DONE"
    BY <1>1, <1>2, PathMoves DEF Path
  <2>2. mgr'[c].path = "PROC" /\ mgr[c].st = "SERR" => mgr[c].path = "PROC"
    BY <1>1, <1>2, PathMoves
  <2>3. QED
    BY <1>1, <2>1, <2>2, MgrMoves
<1>5. mgr'[c].st = "PRES" => mgr[c].st \in {"PROC", "PERR"} /\ mgr[c].path = "DONE"
  BY <1>1, <1>2, <1>3, MgrMoves
<1>6. mgr'[c].st = "PRES" => mgr'[c].path = "DONE"
  BY <1>1, <1>5, PathMoves
<1>7. mgr'[c].st = "PERR" => mgr'[c].resp = "ERR"
  <2>1. mgr'[c].st = "PERR" => mgr[c].st \in {"PROC", "PERR"} /\ mgr[c].resp = "ERR"
    BY <1>1, <1>2, <1>3, MgrMoves DEF Path
  <2>2. QED
    BY <1>1, <2>1, PathMoves
<1>8. ASSUME mgr'[c].st \in {"PROC", "PRES"}, mgr'[c].path = "DONE", mgr'[c].resp = "OK"
      PROVE  mgr'[c].left = 0
  <2>1. mgr[c].st \in {"PROC", "PERR"}
    <3>1. mgr[c].st # "IDLE"
      BY <1>1, <1>2, <1>8, PathMoves DEF Path
    <3>2. QED
      BY <1>1, <1>2, <1>8, <3>1, MgrMoves
  <2>2. mgr[c].resp = "OK" /\ mgr[c].st = "PROC"
    BY <1>1, <1>2, <1>8, <2>1, PathMoves DEF Path
  <2>3. mgr[c].left = 0
    <3>1. mgr[c].path \in {"PROC", "DONE"}
      BY <1>1, <1>2, <1>8, <2>2, PathMoves
    <3>2. ~MgrFailing(c)
      BY <2>2 DEF MgrFailing
    <3>3. QED
      BY <1>1, <1>8, <2>2, <3>1, <3>2, PathMoves DEF Path
  <2>4. ~Beat(c, in)
    BY <2>3 DEF Beat
  <2>5. QED
    BY <1>1, <2>2, <2>3, <2>4, PathMoves
<1>9. QED
  BY <1>4, <1>6, <1>7, <1>8 DEF Path

LEMMA BeatsStep ==
  ASSUME DmaIInv, NEW in, InputOK(in), Cycle(in), NEW c \in Channels
  PROVE  Beats(c)'
<1>1. /\ DmaTypeOK /\ Owed(c) /\ Settled(c) /\ StopOnce(c) /\ Beats(c) /\ Counts(c)
  BY DEF DmaIInv, Channel
<1>2. /\ dma[c].st \in {"IDLE", "DATA", "RESP", "FLUSH"}
      /\ dma[c].len \in 0 .. LenMod - 1 /\ dma[c].beat \in 0 .. LenMod - 1
      /\ mgr[c].left \in 0 .. LenMod - 1 /\ LenMod \in Nat
  BY <1>1, Fields, DmaAssumption
<1>3. SUFFICES ASSUME ~dma'[c].comp, ~dma'[c].stop
               PROVE  \/ mgr'[c].left = 0 /\ dma'[c].beat = 0
                      \/ mgr'[c].left > 0 /\ dma'[c].beat = dma'[c].len - mgr'[c].left
  BY DEF Beats
<1>4. CASE Taken(c)
  <2>1. dma[c].comp /\ mgr[c].st = "IDLE" /\ dma[c].st = "IDLE" /\ Asking(c)
    BY <1>4, HeardAtRest DEF Taken
  <2>2. ask[c].len \in Lens
    BY <1>1, <2>1 DEF Counts, Asking
  <2>3. mgr'[c].left = ask[c].len /\ dma'[c].len = ask[c].len
    BY <1>1, <1>4, <2>1, PathMoves, DmaMoves DEF ReportDone, ReportErr
  <2>4. dma'[c].beat = 0
    <3>1. ~Beat(c, in) /\ dma[c].beat = 0
      BY <1>1, <2>1, BeatsMoveEarly DEF Settled
    <3>2. NextBeat(c, in) = 0
      BY <3>1 DEF NextBeat, LastBeat
    <3>3. QED
      BY <1>1, <3>2, DmaMoves
  <2>5. QED
    BY <2>2, <2>3, <2>4, Length
<1>5. CASE ~Taken(c)
  <2>1. ~dma[c].comp /\ ~Response(c)
    BY <1>1, <1>3, <1>5, DmaMoves
  <2>2. ~dma[c].stop /\ ~StopReq(c)
    BY <1>1, <1>3, <2>1, DmaMoves
  <2>3. dma[c].st \in {"DATA", "RESP"} /\ mgr[c].st # "IDLE"
    BY <1>1, <1>2, <2>1, <2>2 DEF Owed, StopReq, Flushing
  <2>4. dma'[c].len = dma[c].len
    <3>1. ~Asking(c)
      BY <1>1, <2>3 DEF Counts, Asking
    <3>2. ~ReportDone(c) /\ ~ReportErr(c)
      BY <2>1 DEF ReportDone, ReportErr, RespErr
    <3>3. QED
      BY <1>1, <3>1, <3>2, DmaMoves
  <2>5. mgr'[c].left = IF Beat(c, in) THEN mgr[c].left - 1 ELSE mgr[c].left
    BY <1>1, <2>3, PathMoves
  <2>6. dma'[c].beat = NextBeat(c, in)
    BY <1>1, DmaMoves
  <2>7. CASE Beat(c, in)
    <3>1. /\ dma[c].beat = dma[c].len - mgr[c].left /\ mgr[c].left > 0
          /\ NextBeat(c, in) = IF mgr[c].left = 1 THEN 0 ELSE dma[c].beat + 1
      BY <2>7, LastIsLast, BeatsMoveEarly
    <3>2. QED
      BY <1>2, <2>4, <2>5, <2>6, <2>7, <3>1
  <2>8. CASE ~Beat(c, in)
    <3>1. NextBeat(c, in) = dma[c].beat
      BY <2>1, <2>8 DEF NextBeat, LastBeat, RespErr
    <3>2. QED
      BY <1>1, <2>1, <2>2, <2>4, <2>5, <2>6, <2>8, <3>1 DEF Beats
  <2>9. QED
    BY <2>7, <2>8
<1>6. QED
  BY <1>4, <1>5

\* In the cycle of a beat the crypto wrapper counts it as well.
LEMMA BothCount ==
  ASSUME DmaIInv, NEW in, InputOK(in), Cycle(in), NEW c \in Channels,
         dma[c].st = "DATA", ~Response(c), ~in.stop
  PROVE  /\ ask'[c].st = "EXEC" /\ ask'[c].len = ask[c].len /\ dma'[c].len = ask'[c].len
         /\ LastBeat(c, in) =>
              dma'[c].st = "RESP" /\ mgr'[c].left = 0 /\ ask'[c].cnt = ask'[c].len /\ ask'[c].full
         /\ ~LastBeat(c, in) =>
              dma'[c].st = "DATA" /\ mgr'[c].left > 0 /\ ask'[c].cnt = dma'[c].beat /\ ~ask'[c].full
<1>1. DmaTypeOK /\ Counts(c) /\ Owed(c) /\ Settled(c)
  BY DEF DmaIInv, Channel
<1>2. /\ dma[c].len \in 0 .. LenMod - 1 /\ dma[c].beat \in 0 .. LenMod - 1
      /\ mgr[c].left \in 0 .. LenMod - 1 /\ LenMod \in Nat
  BY <1>1, Fields, DmaAssumption
<1>3. /\ ask[c].st = "EXEC" /\ ask[c].len = dma[c].len /\ ask[c].cnt = dma[c].beat
      /\ ~ask[c].full /\ mgr[c].left > 0
  BY <1>1 DEF Counts
<1>4. ~ReportDone(c) /\ ~ReportErr(c) /\ ~Taken(c) /\ ~Asking(c)
  BY <1>3 DEF ReportDone, ReportErr, RespErr, Taken, Asking
<1>5. /\ ask'[c].st = "EXEC" /\ ask'[c].len = ask[c].len
      /\ ask'[c].cnt = (IF SeesBeat(c, in) THEN ask[c].cnt + 1 ELSE ask[c].cnt)
      /\ ask'[c].full <=> (SeesBeat(c, in) /\ ask[c].cnt = ask[c].len - 1)
  BY <1>1, <1>3, <1>4, AskMoves
<1>6. dma'[c].len = dma[c].len /\ dma'[c].beat = NextBeat(c, in)
  BY <1>1, <1>4, DmaMoves
<1>7. dma'[c].st = IF LastBeat(c, in) THEN "RESP" ELSE "DATA"
  BY <1>1, DmaMoves
<1>8. mgr'[c].left = IF Beat(c, in) THEN mgr[c].left - 1 ELSE mgr[c].left
  <2>1. mgr[c].st # "IDLE"
    BY <1>1 DEF Owed, Settled
  <2>2. QED
    BY <1>1, <2>1, PathMoves
<1>9. SeesBeat(c, in) <=> Beat(c, in)
  BY <1>3 DEF SeesBeat
<1>10. CASE Beat(c, in)
  <2>1. /\ dma[c].beat = dma[c].len - mgr[c].left
        /\ LastBeat(c, in) <=> mgr[c].left = 1
        /\ NextBeat(c, in) = IF mgr[c].left = 1 THEN 0 ELSE dma[c].beat + 1
    BY <1>10, LastIsLast
  <2>2. QED
    BY <1>2, <1>3, <1>5, <1>6, <1>7, <1>8, <1>9, <1>10, <2>1
<1>11. CASE ~Beat(c, in)
  <2>1. ~LastBeat(c, in) /\ NextBeat(c, in) = dma[c].beat
    BY <1>11 DEF LastBeat, NextBeat, RespErr
  <2>2. QED
    BY <1>2, <1>3, <1>5, <1>6, <1>7, <1>8, <1>9, <1>11, <2>1
<1>12. QED
  BY <1>10, <1>11

LEMMA CountsStep ==
  ASSUME DmaIInv, NEW in, InputOK(in), Cycle(in), NEW c \in Channels
  PROVE  Counts(c)'
<1>1. /\ DmaTypeOK /\ Owed(c) /\ Settled(c) /\ StopOnce(c) /\ Beats(c) /\ Counts(c)
  BY DEF DmaIInv, Channel
<1>2. /\ dma[c].st \in {"IDLE", "DATA", "RESP", "FLUSH"}
      /\ ask[c].st \in {"NONE", "ASK", "EXEC"}
  BY <1>1, Fields
<1> DEFINE Asked(d, m, a) ==
             /\ a.st = "EXEC" <=> d.st \in {"DATA", "RESP"}
             /\ a.st = "ASK" => a.len \in Lens /\ a.cnt = 0 /\ ~a.full
             /\ d.st = "DATA" =>
                  m.left > 0 /\ a.len = d.len /\ a.cnt = d.beat /\ ~a.full
             /\ d.st = "RESP" => m.left = 0 /\ a.cnt = a.len /\ a.full
<1>3. SUFFICES Asked(dma'[c], mgr'[c], ask'[c])
  BY DEF Counts
<1>4. CASE in.stop
  <2>1. dma'[c].st = "FLUSH" /\ ask'[c].st = "NONE"
    BY <1>1, <1>4, DmaMoves, AsksNothing
  <2>2. QED
    BY <2>1
<1>5. CASE ~in.stop /\ Taken(c)
  <2>1. /\ dma[c].comp /\ mgr[c].st = "IDLE" /\ dma[c].st = "IDLE" /\ Asking(c)
        /\ ask[c].st = "ASK"
    BY <1>5, HeardAtRest DEF Taken, Asking
  <2>2. ask[c].len \in Lens /\ ask[c].cnt = 0 /\ ~ask[c].full
    BY <1>1, <2>1 DEF Counts
  <2>3. /\ mgr'[c].left = ask[c].len /\ dma'[c].len = ask[c].len /\ dma'[c].st = "DATA"
    BY <1>1, <1>5, <2>1, PathMoves, DmaMoves DEF ReportDone, ReportErr
  <2>4. dma'[c].beat = 0
    <3>1. ~Beat(c, in) /\ dma[c].beat = 0
      BY <1>1, <2>1, BeatsMoveEarly DEF Settled
    <3>2. NextBeat(c, in) = 0
      BY <3>1 DEF NextBeat, LastBeat
    <3>3. QED
      BY <1>1, <3>2, DmaMoves
  <2>5. ~SeesBeat(c, in)
    BY <2>1 DEF SeesBeat
  <2>6. /\ ask'[c].st = "EXEC" /\ ask'[c].len = ask[c].len /\ ask'[c].cnt = 0
        /\ ~ask'[c].full
    BY <1>1, <1>5, <2>1, <2>2, <2>5, AskMoves
  <2>7. ask[c].len > 0
    BY <2>2, Length
  <2>8. QED
    BY <2>3, <2>4, <2>6, <2>7
<1>6. CASE ~in.stop /\ ~Taken(c) /\ dma[c].st \in {"IDLE", "FLUSH"}
  <2>1. dma'[c].st \in {"IDLE", "FLUSH"}
    BY <1>1, <1>6, DmaMoves DEF AfterFlush
  <2>2. ask[c].st # "EXEC" /\ ~SeesBeat(c, in)
    BY <1>1, <1>6 DEF Counts, SeesBeat
  <2>3. CASE ask[c].st = "NONE" /\ c \notin in.begin
    <3>1. ask'[c].st = "NONE"
      BY <1>1, <2>3, AsksNothing
    <3>2. QED
      BY <2>1, <3>1
  <2>4. CASE ask[c].st = "NONE" /\ c \in in.begin
    <3>1. ask'[c].st = "ASK" /\ ask'[c].len \in Lens /\ ask'[c].cnt = 0 /\ ~ask'[c].full
      BY <1>1, <1>6, <2>4, AskMoves
    <3>2. QED
      BY <2>1, <3>1
  <2>5. CASE ask[c].st # "NONE"
    <3>1. ask[c].st = "ASK" /\ ask[c].len \in Lens /\ ask[c].cnt = 0 /\ ~ask[c].full
      BY <1>1, <1>2, <2>2, <2>5 DEF Counts
    <3>2. ask'[c].st = "ASK" /\ ask'[c].len \in Lens /\ ask'[c].cnt = 0 /\ ~ask'[c].full
      BY <1>1, <1>6, <2>2, <3>1, AskMoves
    <3>3. QED
      BY <2>1, <3>2
  <2>6. QED
    BY <2>3, <2>4, <2>5
<1>7. CASE ~in.stop /\ dma[c].st \in {"DATA", "RESP"} /\ Response(c)
  <2>1. ask[c].st = "EXEC"
    BY <1>1, <1>7 DEF Counts
  <2>2. dma[c].st = "DATA" => RespErr(c)
    BY <1>7, ResponseEnds
  <2>3. dma'[c].st = "IDLE"
    BY <1>1, <1>7, <2>2, DmaMoves
  <2>4. ReportDone(c) \/ ReportErr(c)
    BY <1>7, <2>2 DEF ReportDone, ReportErr
  <2>5. ask'[c] = Idle
    BY <1>1, <1>7, <2>1, <2>4, AskMoves
  <2>6. ask'[c].st = "NONE"
    BY <2>5 DEF Idle
  <2>7. QED
    BY <2>3, <2>6
<1>8. CASE ~in.stop /\ dma[c].st = "DATA" /\ ~Response(c)
  BY <1>8, BothCount
<1>9. CASE ~in.stop /\ dma[c].st = "RESP" /\ ~Response(c)
  <2>1. ask[c].st = "EXEC" /\ mgr[c].left = 0 /\ ask[c].cnt = ask[c].len /\ ask[c].full
    BY <1>1, <1>9 DEF Counts
  <2>2. /\ ~Beat(c, in) /\ ~Taken(c) /\ ~SeesBeat(c, in) /\ ~ReportDone(c) /\ ~ReportErr(c)
    BY <1>9, <2>1 DEF Beat, Taken, SeesBeat, ReportDone, ReportErr, RespErr
  <2>3. dma'[c].st = "RESP" /\ mgr'[c].left = 0
    BY <1>1, <1>9, <2>1, <2>2, DmaMoves, PathMoves
  <2>4. ask'[c].st = "EXEC" /\ ask'[c].cnt = ask'[c].len /\ ask'[c].full
    BY <1>1, <1>9, <2>1, <2>2, AskMoves
  <2>5. QED
    BY <2>3, <2>4
<1>10. QED
  BY <1>2, <1>4, <1>5, <1>6, <1>7, <1>8, <1>9 DEF InputOK, Taken

LEMMA TypesStep ==
  ASSUME DmaIInv, NEW in, InputOK(in), Cycle(in)
  PROVE  DmaTypeOK'
<1>1. DmaTypeOK /\ LenMod \in Nat /\ MinGap \in Nat
  BY DmaAssumption DEF DmaIInv
<1>2. ASSUME NEW c \in Channels
      PROVE  NextDma(c, in) \in [st : {"IDLE", "DATA", "RESP", "FLUSH"}, len : 0 .. LenMod - 1,
                                 beat : 0 .. LenMod - 1, comp : BOOLEAN, stop : BOOLEAN]
  <2>1. /\ dma[c].len \in 0 .. LenMod - 1 /\ dma[c].beat \in 0 .. LenMod - 1
        /\ dma[c].st \in {"IDLE", "DATA", "RESP", "FLUSH"}
        /\ ask[c].len \in 0 .. LenMod - 1 /\ mgr[c].left \in 0 .. LenMod - 1
    BY <1>1, Fields
  <2>2. NextDmaSt(c, in) \in {"IDLE", "DATA", "RESP", "FLUSH"}
    BY <2>1 DEF NextDmaSt, AfterFlush, InputOK
  <2>3. 0 \in 0 .. LenMod - 1
    BY <1>1, <2>1
  <2>4. NextBeat(c, in) \in 0 .. LenMod - 1
    <3>1. CASE Beat(c, in)
      <4>1. /\ dma[c].beat = dma[c].len - mgr[c].left /\ mgr[c].left > 0
            /\ NextBeat(c, in) = IF mgr[c].left = 1 THEN 0 ELSE dma[c].beat + 1
        BY <3>1, LastIsLast, BeatsMoveEarly
      <4>2. QED
        BY <1>1, <2>1, <4>1
    <3>2. CASE ~Beat(c, in)
      BY <2>1, <2>3, <3>2 DEF NextBeat, LastBeat
    <3>3. QED
      BY <3>1, <3>2
  <2>5. (IF ReportDone(c) \/ ReportErr(c) THEN 0
         ELSE IF Asking(c) THEN ask[c].len ELSE dma[c].len) \in 0 .. LenMod - 1
    BY <2>1, <2>3
  <2>6. /\ (IF Taken(c) THEN FALSE ELSE dma[c].comp \/ Response(c)) \in BOOLEAN
        /\ (IF Flushing(c) /\ Response(c) THEN FALSE
            ELSE dma[c].stop \/ StopReq(c)) \in BOOLEAN
    OBVIOUS
  <2>7. QED
    BY <2>2, <2>4, <2>5, <2>6 DEF NextDma
<1>3. ASSUME NEW c \in Channels
      PROVE  NextMgr(c, in) \in [st : {"IDLE", "PROC", "PERR", "PRES", "SERR", "SRES"},
                                 path : {"IDLE", "PROC", "DONE"}, left : 0 .. LenMod - 1,
                                 resp : {"OK", "ERR"}]
  <2>1. /\ mgr[c].st \in {"IDLE", "PROC", "PERR", "PRES", "SERR", "SRES"}
        /\ mgr[c].path \in {"IDLE", "PROC", "DONE"} /\ mgr[c].left \in 0 .. LenMod - 1
        /\ mgr[c].resp \in {"OK", "ERR"} /\ ask[c].len \in 0 .. LenMod - 1
    BY <1>1, Fields
  <2>2. NextMgrSt(c, in) \in {"IDLE", "PROC", "PERR", "PRES", "SERR", "SRES"}
    BY <2>1 DEF NextMgrSt
  <2>3. NextPath(c, in) \in {"IDLE", "PROC", "DONE"}
    BY <2>1 DEF NextPath
  <2>4. Beat(c, in) => mgr[c].left > 0
    BY DEF Beat
  <2>5. QED
    BY <1>1, <2>1, <2>2, <2>3, <2>4 DEF NextMgr
<1>4. ASSUME NEW c \in Channels
      PROVE  NextAsk(c, in) \in [st : {"NONE", "ASK", "EXEC"}, len : 0 .. LenMod - 1,
                                 cnt : 0 .. LenMod - 1, full : BOOLEAN]
  <2>1. /\ ask[c] \in [st : {"NONE", "ASK", "EXEC"}, len : 0 .. LenMod - 1,
                       cnt : 0 .. LenMod - 1, full : BOOLEAN]
        /\ dma[c].len \in 0 .. LenMod - 1 /\ mgr[c].left \in 0 .. LenMod - 1
    BY <1>1, Fields
  <2>2. SeesBeat(c, in) => ask[c].cnt + 1 \in 0 .. LenMod - 1
    <3>1. SeesBeat(c, in) => ask[c].cnt = dma[c].beat /\ Beat(c, in)
      BY DEF SeesBeat, DmaIInv, Channel, Counts
    <3>2. SeesBeat(c, in) => mgr[c].left > 0 /\ dma[c].beat = dma[c].len - mgr[c].left
      BY <3>1, LastIsLast, BeatsMoveEarly
    <3>3. ask[c].cnt \in 0 .. LenMod - 1
      BY <2>1
    <3>4. QED
      BY <1>1, <2>1, <3>1, <3>2, <3>3
  <2>3. Idle \in [st : {"NONE", "ASK", "EXEC"}, len : 0 .. LenMod - 1,
                  cnt : 0 .. LenMod - 1, full : BOOLEAN]
    BY <1>1, <2>1 DEF Idle
  <2>4. c \in in.begin => in.len \in 0 .. LenMod - 1
    BY Length DEF InputOK
  <2>5. c \in in.begin => [Idle EXCEPT !.st = "ASK", !.len = in.len]
          \in [st : {"NONE", "ASK", "EXEC"}, len : 0 .. LenMod - 1,
               cnt : 0 .. LenMod - 1, full : BOOLEAN]
    BY <2>3, <2>4
  <2>6. [ask[c] EXCEPT !.st = IF Taken(c) THEN "EXEC" ELSE @,
                       !.cnt = IF SeesBeat(c, in) THEN @ + 1 ELSE @,
                       !.full = @ \/ (SeesBeat(c, in) /\ ask[c].cnt = ask[c].len - 1)]
          \in [st : {"NONE", "ASK", "EXEC"}, len : 0 .. LenMod - 1,
               cnt : 0 .. LenMod - 1, full : BOOLEAN]
    BY <2>1, <2>2
  <2>7. QED
    BY <2>3, <2>5, <2>6 DEF NextAsk
<1>5. gap' \in 0 .. MinGap
  BY <1>1 DEF DmaTypeOK, Cycle
<1>6. /\ dma' = [c \in Channels |-> NextDma(c, in)]
      /\ mgr' = [c \in Channels |-> NextMgr(c, in)]
      /\ ask' = [c \in Channels |-> NextAsk(c, in)]
  BY DEF Cycle
<1>7. QED
  BY <1>2, <1>3, <1>4, <1>5, <1>6 DEF DmaTypeOK

LEMMA DmaStart ==
  ASSUME DmaInit
  PROVE  DmaIInv
<1>1. LenMod \in Nat /\ MinGap \in Nat /\ MinGap >= 2 /\ 0 \in 0 .. LenMod - 1
  <2>1. PICK n \in Lens : TRUE
    BY DmaAssumption
  <2>2. QED
    BY <2>1, Length, DmaAssumption
<1>2. DmaTypeOK
  BY <1>1 DEF DmaInit, DmaTypeOK, Idle
<1>3. ASSUME NEW c \in Channels PROVE Channel(c)
  <2>1. /\ dma[c].st = "IDLE" /\ dma[c].beat = 0 /\ dma[c].comp = TRUE /\ dma[c].stop = FALSE
        /\ mgr[c].st = "IDLE" /\ mgr[c].path = "IDLE" /\ ask[c].st = "NONE" /\ gap = MinGap
    BY DEF DmaInit, Idle
  <2>2. QED
    BY <1>1, <2>1 DEF Channel, Owed, Settled, Restart, StopOnce, StopReq, Flushing, Path,
                      Beats, Counts
<1>4. QED
  BY <1>2, <1>3 DEF DmaIInv

\* The inductive invariant of the DMA and the manager.
THEOREM DmaInvariant == DmaSpec => []DmaIInv
<1>1. DmaInit => DmaIInv
  BY DmaStart
<1>2. ASSUME DmaIInv, DmaNext PROVE DmaIInv'
  <2>1. PICK in : InputOK(in) /\ Cycle(in)
    BY <1>2, NextIsACycle
  <2>2. ASSUME NEW c \in Channels PROVE Channel(c)'
    BY <1>2, <2>1, StatesStep, PathStep, BeatsStep, CountsStep DEF Channel
  <2>3. QED
    BY <1>2, <2>1, <2>2, TypesStep DEF DmaIInv
<1>3. DmaIInv /\ UNCHANGED dmaVars => DmaIInv'
  BY DEF DmaIInv, DmaTypeOK, dmaVars, Channel, Owed, Settled, Restart, StopOnce, StopReq,
         Flushing, Path, Beats, Counts
<1>4. QED
  BY <1>1, <1>2, <1>3, PTL DEF DmaSpec

\* Whatever is stopped in whatever cycle, a request the DMA takes reaches a
\* manager that is listening (craccept and cwaccept, tied to 1 in sinc_cmu_dma.sv,
\* would be 1).
THEOREM RequestsAreHeard == DmaSpec => []RequestIsHeard
<1>1. DmaIInv => RequestIsHeard
  BY HeardAtRest DEF RequestIsHeard
<1>2. QED
  BY <1>1, DmaInvariant, PTL

\* For transfers of every length and any failures and stops, a transfer that is
\* reported done has been counted to its end by the crypto wrapper.
THEOREM CountsStayInStep == DmaSpec => []BeatCountsAgree
<1>1. ASSUME DmaIInv PROVE BeatCountsAgree
  <2>1. ASSUME NEW c \in Channels, ReportDone(c)
        PROVE  ask[c].st = "EXEC" /\ ask[c].full /\ ask[c].cnt = ask[c].len
    BY <1>1, <2>1 DEF DmaIInv, Channel, Counts, ReportDone
  <2>2. QED
    BY <2>1 DEF BeatCountsAgree
<1>2. QED
  BY <1>1, DmaInvariant, PTL
=============================================================================
