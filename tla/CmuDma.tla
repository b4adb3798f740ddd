------------------------------- MODULE CmuDma -------------------------------
(***************************************************************************)
(* The DMA controller of the CMU (sinc_cmu_dma.sv) between the crypto      *)
(* wrapper, which asks for transfers, counts their beats itself and may    *)
(* give them up in any cycle, and the command engines of the AXI manager   *)
(* (axi_mgr.v).  One step is one clock cycle; "R" and "W" are the read and *)
(* the write channel, which have the same FSMs.                            *)
(*                                                                         *)
(* The DMA does not look at the accept signals of the manager (craccept    *)
(* and cwaccept are tied to 1): that the manager hears a request follows   *)
(* from nothing but the way a flush ends.                                  *)
(***************************************************************************)
EXTENDS Integers

CONSTANTS
  Lens,     \* beats of a transfer: 4, 8, 10 and a cache block in the hardware
  LenMod,   \* 2^BLOCK_LENW
  MinGap    \* cycles between a stop and the next command of the crypto wrapper

ASSUME DmaAssumption ==
  /\ LenMod \in Nat /\ Lens \subseteq 1 .. LenMod - 1 /\ Lens # {}
  /\ MinGap \in Nat /\ MinGap >= 2

VARIABLES
  dma,   \* dma[c]: FSM, captured length, beat count, comp_q, stop_exec
  mgr,   \* mgr[c]: command FSM, data path, beats left, response
  ask,   \* ask[c]: what the crypto wrapper wants of the channel
  gap    \* cycles since the last stop, up to MinGap

dmaVars == <<dma, mgr, ask, gap>>

Channels == {"R", "W"}

-----------------------------------------------------------------------------
(* Signals.  "in" is what the cycle samples: the transfers the crypto       *)
(* wrapper begins and their length, stop_dma_txn or severe_err,             *)
(* c_wrap_dma_w_vld, and what the AXI bus does for each channel.            *)

\* c_wrap_dma_cread, c_wrap_dma_cwrite: held until accepted.
Asking(c) == ask[c].st = "ASK"

\* cread & craccept: the DMA takes the request, and shows it to the manager.
Taken(c) == dma[c].st = "IDLE" /\ Asking(c)

\* crvalid, crresp: the manager's response.
Response(c) == mgr[c].st \in {"PRES", "SRES"}
RespErr(c)  == Response(c) /\ (mgr[c].st = "SRES" \/ mgr[c].resp = "ERR")

\* A flush with a transfer outstanding.
Flushing(c) == dma[c].st = "FLUSH" /\ ~dma[c].comp
StopReq(c)  == Flushing(c) /\ ~dma[c].stop

\* raccept; wvalid.
Ready(c, in) == (dma[c].st = "DATA" /\ (c = "R" \/ in.wvld)) \/ Flushing(c)

-----------------------------------------------------------------------------
(* The AXI manager.                                                         *)

\* Its command FSM; OVERFLOW: the transfer would pass the end of the address space.
NextMgrSt(c, in) ==
  LET st   == mgr[c].st
      done == mgr[c].path = "DONE" IN
  CASE st = "IDLE" ->
         IF StopReq(c) THEN "SERR"
         ELSE IF ~Taken(c) THEN "IDLE"
         ELSE IF in.bus[c] = "OVERFLOW" THEN "SERR" ELSE "PROC"
    [] st = "PROC" ->
         IF StopReq(c) THEN "SERR" ELSE IF mgr[c].resp = "ERR" THEN "PERR"
         ELSE IF done THEN "PRES" ELSE "PROC"
    [] st = "PERR" -> IF StopReq(c) THEN "SERR" ELSE IF done THEN "PRES" ELSE "PERR"
    [] st = "PRES" -> IF StopReq(c) THEN "SERR" ELSE "IDLE"
    [] st = "SERR" ->
         IF ~StopReq(c) /\ (done \/ mgr[c].path = "IDLE") THEN "SRES" ELSE "SERR"
    [] st = "SRES" -> "IDLE"

MgrFailing(c) == mgr[c].st \in {"PERR", "SERR"} \/ mgr[c].resp = "ERR"

\* rvalid & raccept; wvalid & waccept: a beat moves.  Failed reads deliver no
\* data; writes are accepted until they are stopped.
Beat(c, in) ==
  /\ in.bus[c] = "BEAT" /\ mgr[c].path = "PROC" /\ mgr[c].left > 0 /\ Ready(c, in)
  /\ IF c = "R" THEN ~MgrFailing(c) ELSE NextMgrSt(c, in) # "SERR"

\* A bus error arrives with a beat of a read, with any response of a write.
BusErr(c, in) ==
  in.bus[c] = "ERR" /\ mgr[c].path = "PROC" /\ (c = "W" \/ mgr[c].left > 0)

\* The bus has answered all that was issued.  A write that fails is filled up
\* with empty beats as long as the engine offers data, unless nothing is owed.
Drains(c, in) ==
  \/ in.bus[c] = "DRAINED"
  \/ in.bus[c] = "DRAIN" /\ (c = "R" \/ mgr[c].left = 0 \/ Ready(c, in))

NextPath(c, in) ==
  CASE mgr[c].path = "IDLE" -> IF mgr[c].st = "PROC" THEN "PROC" ELSE "IDLE"
    [] mgr[c].path = "PROC" ->
         IF (mgr[c].left = 0 \/ MgrFailing(c)) /\ Drains(c, in) THEN "DONE" ELSE "PROC"
    [] mgr[c].path = "DONE" -> IF mgr[c].st = "IDLE" THEN "IDLE" ELSE "DONE"

NextMgr(c, in) ==
  [st   |-> NextMgrSt(c, in),
   path |-> NextPath(c, in),
   left |-> IF mgr[c].st = "IDLE" /\ Taken(c) THEN ask[c].len
            ELSE IF Beat(c, in) THEN mgr[c].left - 1 ELSE mgr[c].left,
   resp |-> IF mgr[c].st = "IDLE" THEN "OK"
            ELSE IF BusErr(c, in) THEN "ERR" ELSE mgr[c].resp]

-----------------------------------------------------------------------------
(* The DMA.                                                                 *)

\* Mutant: the last beat, counted from 1.
LastBeat_Mut(c, in) == Beat(c, in) /\ dma[c].beat = dma[c].len

\* r_comp, w_comp: the last beat, counted from 0.
LastBeat(c, in) == Beat(c, in) /\ dma[c].beat = (dma[c].len - 1) % LenMod

\* dma_c_wrap_cr_comp, dma_c_wrap_cr_err: what is reported to the crypto wrapper.
ReportDone(c) == dma[c].st = "RESP" /\ Response(c) /\ ~RespErr(c)
ReportErr(c)  == dma[c].st \in {"DATA", "RESP"} /\ RespErr(c)

\* Mutant: a flush does not wait for the final response.
AfterFlush_Mut(c) == "IDLE"

AfterFlush(c) == IF dma[c].comp \/ Response(c) THEN "IDLE" ELSE "FLUSH"

NextDmaSt(c, in) ==
  CASE in.stop -> "FLUSH"
    [] ~in.stop /\ dma[c].st = "IDLE" -> IF Taken(c) THEN "DATA" ELSE "IDLE"
    [] ~in.stop /\ dma[c].st = "DATA" ->
         IF Response(c) THEN IF RespErr(c) THEN "IDLE" ELSE "DATA"
         ELSE IF LastBeat(c, in) THEN "RESP" ELSE "DATA"
    [] ~in.stop /\ dma[c].st = "RESP" -> IF Response(c) THEN "IDLE" ELSE "RESP"
    [] ~in.stop /\ dma[c].st = "FLUSH" -> AfterFlush(c)

NextBeat(c, in) ==
  IF LastBeat(c, in) \/ RespErr(c) THEN 0
  ELSE IF Beat(c, in) THEN (dma[c].beat + 1) % LenMod ELSE dma[c].beat

\* The length is captured whenever it is asked for, in a flush too.
NextDma(c, in) ==
  [st   |-> NextDmaSt(c, in),
   len  |-> IF ReportDone(c) \/ ReportErr(c) THEN 0
            ELSE IF Asking(c) THEN ask[c].len ELSE dma[c].len,
   beat |-> NextBeat(c, in),
   comp |-> IF Taken(c) THEN FALSE ELSE dma[c].comp \/ Response(c),
   stop |-> IF Flushing(c) /\ Response(c) THEN FALSE ELSE dma[c].stop \/ StopReq(c)]

-----------------------------------------------------------------------------
(* The crypto wrapper.                                                      *)

Idle == [st |-> "NONE", len |-> 0, cnt |-> 0, full |-> FALSE]

\* dma_c_wrap_r_vld; w_vld & w_accept: a beat the crypto wrapper sees, which it
\* counts on its own (rdata_bt_cnt, wdata_bt_cnt) up to r_comp, w_comp.
SeesBeat(c, in) == dma[c].st = "DATA" /\ Beat(c, in) /\ ask[c].st # "NONE"

\* Mutant: rst_ctrl_signals does not reach the beat counters.
NextAsk_Mut(c, in) ==
  CASE in.stop -> [Idle EXCEPT !.cnt = ask[c].cnt]
    [] ~in.stop /\ ask[c].st = "EXEC" /\ (ReportDone(c) \/ ReportErr(c)) -> Idle
    [] ~in.stop /\ ask[c].st = "NONE" ->
         IF c \in in.begin THEN [ask[c] EXCEPT !.st = "ASK", !.len = in.len] ELSE ask[c]
    [] OTHER ->
         [ask[c] EXCEPT !.st = IF Taken(c) THEN "EXEC" ELSE @,
                        !.cnt = IF SeesBeat(c, in) THEN @ + 1 ELSE @]

\* dma_r_exec, dma_w_exec, the beat counters and r_comp, w_comp.
NextAsk(c, in) ==
  CASE in.stop \/ (ask[c].st = "EXEC" /\ (ReportDone(c) \/ ReportErr(c))) -> Idle
    [] ~in.stop /\ ask[c].st = "NONE" ->
         IF c \in in.begin THEN [Idle EXCEPT !.st = "ASK", !.len = in.len] ELSE Idle
    [] OTHER ->
         [ask[c] EXCEPT !.st = IF Taken(c) THEN "EXEC" ELSE @,
                        !.cnt = IF SeesBeat(c, in) THEN @ + 1 ELSE @,
                        !.full = @ \/ (SeesBeat(c, in) /\ ask[c].cnt = ask[c].len - 1)]

\* A read begins only when both channels are free, a write while the read of the
\* same block runs or alone; a failure while the other channel is in use stops it.
CanBegin(c) == ask[c].st = "NONE" /\ gap = MinGap /\ (c = "R" => ask["W"].st = "NONE")
MustStop == \E c \in Channels : ReportErr(c) /\ \E d \in Channels \ {c} : ask[d].st # "NONE"

-----------------------------------------------------------------------------
\* What the bus may do in this cycle that makes a difference.
BusEvents(c) ==
  CASE mgr[c].path = "PROC" ->
         {"WAIT", "BEAT"} \cup (IF mgr[c].resp = "OK" THEN {"ERR"} ELSE {})
         \cup (IF mgr[c].left = 0 \/ MgrFailing(c) THEN {"DRAIN"} ELSE {})
         \cup (IF c = "W" /\ MgrFailing(c) THEN {"DRAINED"} ELSE {})
    [] mgr[c].path # "PROC" -> {"WAIT"} \cup (IF Taken(c) THEN {"OVERFLOW"} ELSE {})

Cycle(in) ==
  /\ dma' = [c \in Channels |-> NextDma(c, in)]
  /\ mgr' = [c \in Channels |-> NextMgr(c, in)]
  /\ ask' = [c \in Channels |-> NextAsk(c, in)]
  /\ gap' = IF in.stop THEN 0 ELSE IF gap < MinGap THEN gap + 1 ELSE gap

DmaInit ==
  /\ dma = [c \in Channels |->
              [st |-> "IDLE", len |-> 0, beat |-> 0, comp |-> TRUE, stop |-> FALSE]]
  /\ mgr = [c \in Channels |-> [st |-> "IDLE", path |-> "IDLE", left |-> 0, resp |-> "OK"]]
  /\ ask = [c \in Channels |-> Idle]
  /\ gap = MinGap

\* A cycle with every input it may have.
DmaNext ==
  \E b \in SUBSET {c \in Channels : CanBegin(c)}, s \in IF MustStop THEN {TRUE} ELSE BOOLEAN,
     v \in IF dma["W"].st = "DATA" THEN BOOLEAN ELSE {FALSE},
     r \in BusEvents("R"), w \in BusEvents("W") :
    \E n \in IF b = {} THEN {0} ELSE Lens :
      Cycle([begin |-> b, len |-> n, stop |-> s, wvld |-> v,
             bus |-> [c \in Channels |-> IF c = "R" THEN r ELSE w]])

\* A cycle in which the bus moves on, output data is there and nothing stops.
BusMoves(c) ==
  IF mgr[c].path # "PROC" THEN "WAIT"
  ELSE IF mgr[c].left > 0 /\ ~MgrFailing(c) THEN "BEAT" ELSE "DRAIN"
EagerInput == [begin |-> {}, len |-> 0, stop |-> MustStop,
               wvld |-> dma["W"].st = "DATA", bus |-> [c \in Channels |-> BusMoves(c)]]

\* An AXI subordinate answers, and the AES delivers the data to be written.
DmaSpec == DmaInit /\ [][DmaNext]_dmaVars /\ WF_dmaVars(Cycle(EagerInput))

-----------------------------------------------------------------------------
\* Every flop has its type.
DmaTypeOK ==
  /\ dma \in [Channels -> [st : {"IDLE", "DATA", "RESP", "FLUSH"}, len : 0 .. LenMod - 1,
                           beat : 0 .. LenMod - 1, comp : BOOLEAN, stop : BOOLEAN]]
  /\ mgr \in [Channels -> [st : {"IDLE", "PROC", "PERR", "PRES", "SERR", "SRES"},
                           path : {"IDLE", "PROC", "DONE"}, left : 0 .. LenMod - 1,
                           resp : {"OK", "ERR"}]]
  /\ ask \in [Channels -> [st : {"NONE", "ASK", "EXEC"}, len : 0 .. LenMod - 1,
                           cnt : 0 .. LenMod - 1, full : BOOLEAN]]
  /\ gap \in 0 .. MinGap

\* A request the DMA takes reaches a manager that is listening, although the DMA
\* never looks at the manager's accept, and although a stop that meets the last
\* response makes the manager respond twice.
RequestIsHeard == \A c \in Channels : Taken(c) => mgr[c].st = "IDLE"

\* The DMA reports a transfer done exactly when the crypto wrapper, which counts
\* beats of its own, has seen the last of them: no beat of a transfer that was
\* given up is counted in the next one.
BeatCountsAgree ==
  \A c \in Channels :
    ReportDone(c) => ask[c].st = "EXEC" /\ ask[c].full /\ ask[c].cnt = ask[c].len

\* A transfer that is asked for is reported done or failed, or is given up; one
\* that is given up is drained on the bus, and the manager comes to rest.
TransfersEnd ==
  \A c \in Channels : /\ (ask[c].st # "NONE") ~> (ask[c].st = "NONE")
                      /\ (dma[c].st = "FLUSH") ~> (mgr[c].st = "IDLE")
=============================================================================
