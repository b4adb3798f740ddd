--------------------------- MODULE CryptoWrapCtrl ---------------------------
(***************************************************************************)
(* The main FSM of the crypto wrapper, sinc_cmu_crypto_wrap_ctrl.sv, with   *)
(* its retained key register (sinc_cmu_crypto_wrap_ctrl_ret.sv).           *)
(*                                                                         *)
(* The DMA transfers, the AES core and the firmware's AES-test handshakes  *)
(* are seen through the event the FSM waits for in its sub-state.  The     *)
(* input record x of a cycle has                                           *)
(*   x.cmd        the command of the CMU control FSM, or "NO_CMD"          *)
(*   x.severe     severe_err                                               *)
(*   x.eraseBusy  sinc_erase_busy                                          *)
(*   x.ev         "WAIT", "OK" (transfer, tag or test step done), "ERR"    *)
(*                (read error, bad configuration or bad data), "WERR"      *)
(*                (write error while a block read is in progress)          *)
(*   x.memWr      the output buffer has a word for the cache RAM           *)
(*   x.aesErr     the AES core reports an error                            *)
(*   x.noBlocks   num_of_blocks is zero                                    *)
(*   x.good       the external copy of the block is what ENCR_BLOCK wrote  *)
(* The strap disable_encr_auth_check_i is low.                             *)
(***************************************************************************)
EXTENDS SincParams

CONSTANT NumBlocks   \* num_of_blocks, when it is not zero
ASSUME NumBlocksAssumption == NumBlocks \in Nat \ {0}

VARIABLES
  cwState,   \* state
  cwSub,     \* sub_state
  cwBeats,   \* wdata_bt_cnt and w_comp: words of the block written so far
  encrCnt,   \* encr_block_cnt: blocks encrypted by this command
  aesSeeded, \* aes_seeded
  aesErrQ,   \* aes_err_q
  keyQ,      \* key_q, retained: "ZERO", or which load filled it
  image      \* is the external copy of the block being fetched authentic?

cwVars ==
  <<cwState, cwSub, cwBeats, encrCnt, aesSeeded, aesErrQ, keyQ, image>>

CwStates == {"SINC_IDLE", "SET_INIT", "ENCR_BLOCK", "FETCH_BLOCK",
             "SINC_RESET", "SINC_REINIT", "AES_TEST", "AES_SEED"}

-----------------------------------------------------------------------------
(* The error a cycle ends its command with, "NONE" if it does not.          *)

EncrErr(x) ==
  CASE aesErrQ                                    -> "AES_ERR"
    [] ~aesErrQ /\ x.noBlocks                     -> "INV_CMD"
    [] OTHER ->
       CASE cwSub = 1 /\ x.ev = "ERR"             -> "CAC_BLK_R_ERR"
         [] cwSub = 1 /\ x.ev = "WERR"            -> "CAC_BLK_W_ENC_BLK_ERR"
         [] cwSub = 2 /\ x.ev = "ERR"             -> "CAC_BLK_W_ENC_BLK_ERR"
         [] cwSub = 3 /\ x.ev = "ERR"             -> "AUTH_TAG_W_ERR"
         [] OTHER                                 -> "NONE"

\* Mutant: the tag check always passes.
TagPass_Mut == TRUE

\* GCM accepts exactly the blocks ENCR_BLOCK wrote under the loaded key.
TagPass == image

FetchErrSts(x) ==
  CASE aesErrQ                                    -> "AES_ERR"
    [] ~aesErrQ /\ x.eraseBusy                    -> "CAC_BLK_W_FET_BLK_ERR"
    [] OTHER ->
       CASE cwSub = 1 /\ x.ev = "ERR"             -> "CAC_BLK_R_ERR"
         [] cwSub = 3 /\ x.ev = "ERR"             -> "AUTH_TAG_R_ERR"
         [] cwSub = 4 /\ x.ev = "OK" /\ ~TagPass  -> "AUTH_TAG_CHK_ERR"
         [] OTHER                                 -> "NONE"

AesTestErr(x) ==
  CASE aesErrQ                                    -> "AES_ERR"
    [] ~aesErrQ /\ x.cmd # "NO_CMD" ->
         IF x.cmd = "NONE" THEN "NONE" ELSE "INV_CMD"
    [] OTHER ->
       CASE x.ev # "ERR"                          -> "NONE"
         [] x.ev = "ERR" /\ cwSub \in {2, 3}      -> "RNG_SEED_ERR"
         [] x.ev = "ERR" /\ cwSub = 4             -> "KEY_FET_ERR"
         [] x.ev = "ERR" /\ cwSub \in {1, 5}      -> "INV_CMD"

CwSts(x) ==
  CASE cwState = "SET_INIT" /\ x.ev = "ERR" ->
         IF cwSub = 3 THEN "KEY_FET_ERR" ELSE "RNG_SEED_ERR"
    [] cwState = "ENCR_BLOCK"  -> EncrErr(x)
    [] cwState = "FETCH_BLOCK" -> FetchErrSts(x)
    [] cwState = "AES_TEST"    -> AesTestErr(x)
    [] cwState = "AES_SEED" /\ x.ev = "ERR" -> "RNG_SEED_ERR"
    [] OTHER -> "NONE"

CwErr(x) == CwSts(x) # "NONE"

LastEncrBlock == encrCnt = NumBlocks - 1

\* c_wrap_cmd_comp
CwComp(x) ==
  \/ CwErr(x)
  \/ cwState = "SINC_IDLE" /\ x.cmd = "AES_SEED" /\ NO_SEED_LOADING
  \/ cwState \in {"SINC_RESET", "SINC_REINIT"}
  \/ cwState = "SET_INIT" /\ cwSub = 3 /\ x.ev = "OK"
  \/ cwState = "ENCR_BLOCK" /\ cwSub = 3 /\ x.ev = "OK" /\ LastEncrBlock
  \/ cwState = "FETCH_BLOCK" /\ cwSub = 4 /\ x.ev = "OK"
  \/ cwState = "AES_TEST" /\ x.cmd # "NO_CMD"
  \/ cwState = "AES_SEED" /\ (NO_SEED_LOADING \/ (cwSub = 2 /\ x.ev = "OK"))

\* cmu_mem_wr: a decrypted word goes to the cache RAM.
CmuMemWr(x) ==
  /\ cwState = "FETCH_BLOCK" /\ cwSub \in {1, 2}
  /\ ~aesErrQ /\ ~x.eraseBusy
  /\ x.memWr /\ cwBeats < BlockWords
LastBeat == cwBeats = BlockWords - 1

-----------------------------------------------------------------------------
(* One action per state.  A severe error sends the FSM to SINC_IDLE, the    *)
(* command presented in that very cycle included.                           *)

CwGoto(x, s, n) ==
  IF x.severe THEN cwState' = "SINC_IDLE" /\ cwSub' = 1
  ELSE cwState' = s /\ cwSub' = n

\* key_q: clr_key and severe_err win over a word of the key arriving.
KeyNext(x, k) == keyQ' = IF x.severe THEN "ZERO" ELSE k

\* aes_err_q: a new error wins over clr_aes_err.
AesErrNext(x, clr) == aesErrQ' = (x.aesErr \/ (aesErrQ /\ ~clr))

CwIdle(x) ==
  /\ cwState = "SINC_IDLE"
  /\ IF \/ x.cmd \notin CwStates
        \/ x.cmd = "AES_SEED" /\ NO_SEED_LOADING
     THEN CwGoto(x, "SINC_IDLE", cwSub)
     ELSE CwGoto(x, x.cmd,
                 IF x.cmd \in {"SINC_RESET", "SINC_REINIT"} THEN cwSub ELSE 1)
  /\ image' = IF x.cmd = "FETCH_BLOCK" THEN x.good ELSE image
  /\ KeyNext(x, keyQ) /\ AesErrNext(x, FALSE)
  /\ cwBeats' = 0 /\ encrCnt' = 0 /\ UNCHANGED aesSeeded

\* Two reads of the seed (skipped when seeded), then the key.
CwSetInit(x) ==
  /\ cwState = "SET_INIT"
  /\ CASE CwComp(x) -> CwGoto(x, "SINC_IDLE", cwSub)
       [] ~CwComp(x) /\ cwSub = 1 /\ aesSeeded    -> CwGoto(x, cwState, 3)
       [] ~CwComp(x) /\ cwSub \in {1, 2} /\ ~aesSeeded /\ x.ev = "OK" ->
            CwGoto(x, cwState, cwSub + 1)
       [] OTHER -> CwGoto(x, cwState, cwSub)
  /\ aesSeeded' = (aesSeeded \/ (cwSub = 2 /\ x.ev = "OK"))
  /\ KeyNext(x, IF cwSub = 3 THEN "BEK" ELSE keyQ) /\ AesErrNext(x, FALSE)
  /\ UNCHANGED <<cwBeats, encrCnt, image>>

\* Per block: read and encrypt, write, write the tag.
CwEncrBlock(x) ==
  /\ cwState = "ENCR_BLOCK"
  /\ CASE CwComp(x) -> CwGoto(x, "SINC_IDLE", cwSub)
       [] ~CwComp(x) /\ x.ev = "OK" -> CwGoto(x, cwState, (cwSub % 3) + 1)
       [] OTHER -> CwGoto(x, cwState, cwSub)
  /\ encrCnt' = IF cwSub = 3 /\ x.ev = "OK" THEN (encrCnt + 1) % NumBlocks
                ELSE encrCnt
  /\ AesErrNext(x, aesErrQ \/ x.noBlocks) /\ KeyNext(x, keyQ)
  /\ UNCHANGED <<cwBeats, aesSeeded, image>>

\* Read and decrypt the block into the cache RAM, then read and check its tag.
CwFetchBlock(x) ==
  /\ cwState = "FETCH_BLOCK"
  /\ CASE CwComp(x) -> CwGoto(x, "SINC_IDLE", cwSub)
       [] ~CwComp(x) /\ cwSub \in {1, 3} /\ x.ev = "OK" ->
            CwGoto(x, cwState, cwSub + 1)
       [] ~CwComp(x) /\ cwSub = 2 /\ cwBeats = BlockWords ->
            CwGoto(x, cwState, 3)
       [] OTHER -> CwGoto(x, cwState, cwSub)
  /\ cwBeats' = IF CmuMemWr(x) THEN cwBeats + 1 ELSE cwBeats
  /\ AesErrNext(x, aesErrQ) /\ KeyNext(x, keyQ)
  /\ UNCHANGED <<encrCnt, aesSeeded, image>>

CwSincReset(x) ==
  /\ cwState = "SINC_RESET"
  /\ CwGoto(x, "SINC_IDLE", cwSub)
  /\ KeyNext(x, "ZERO") /\ AesErrNext(x, TRUE)
  /\ UNCHANGED <<cwBeats, encrCnt, aesSeeded, image>>

\* Mutant: SINC_REINIT clears the key.
CwSincReinit_Mut(x) ==
  /\ cwState = "SINC_REINIT"
  /\ CwGoto(x, "SINC_IDLE", cwSub)
  /\ KeyNext(x, "ZERO") /\ AesErrNext(x, FALSE)
  /\ UNCHANGED <<cwBeats, encrCnt, aesSeeded, image>>

CwSincReinit(x) ==
  /\ cwState = "SINC_REINIT"
  /\ CwGoto(x, "SINC_IDLE", cwSub)
  /\ KeyNext(x, keyQ) /\ AesErrNext(x, FALSE)
  /\ UNCHANGED <<cwBeats, encrCnt, aesSeeded, image>>

\* Configuration, seed (sub-states 2 and 3), key, data.  Sub-state 3 does not
\* raise is_r_seed: no beat of its read is counted, r_comp stays low and a
\* completed read only starts the next one.
CwAesTest(x) ==
  /\ cwState = "AES_TEST"
  /\ CASE CwComp(x) -> CwGoto(x, "SINC_IDLE", cwSub)
       [] ~CwComp(x) /\ x.ev = "OK" /\ cwSub = 1 ->
            CwGoto(x, cwState, IF aesSeeded THEN 4 ELSE 2)
       [] ~CwComp(x) /\ x.ev = "OK" /\ cwSub \in {2, 4} ->
            CwGoto(x, cwState, cwSub + 1)
       [] ~CwComp(x) /\ x.ev = "OK" /\ cwSub = 5 -> CwGoto(x, cwState, 1)
       [] OTHER -> CwGoto(x, cwState, cwSub)
  /\ KeyNext(x, IF cwSub = 4 /\ ~aesErrQ /\ x.cmd = "NO_CMD" THEN "TEST"
                ELSE keyQ)
  /\ AesErrNext(x, aesErrQ)
  /\ UNCHANGED <<cwBeats, encrCnt, aesSeeded, image>>

CwAesSeed(x) ==
  /\ cwState = "AES_SEED"
  /\ CASE CwComp(x) -> CwGoto(x, "SINC_IDLE", cwSub)
       [] ~CwComp(x) /\ cwSub = 1 /\ x.ev = "OK" -> CwGoto(x, cwState, 2)
       [] OTHER -> CwGoto(x, cwState, cwSub)
  /\ aesSeeded' = (aesSeeded \/ (cwSub = 2 /\ x.ev = "OK"))
  /\ KeyNext(x, keyQ) /\ AesErrNext(x, FALSE)
  /\ UNCHANGED <<cwBeats, encrCnt, image>>

CwCycle(x) ==
  \/ CwIdle(x) \/ CwSetInit(x) \/ CwEncrBlock(x) \/ CwFetchBlock(x)
  \/ CwSincReset(x) \/ CwSincReinit(x) \/ CwAesTest(x) \/ CwAesSeed(x)

-----------------------------------------------------------------------------
CwInit ==
  /\ cwState = "SINC_IDLE" /\ cwSub = 1 /\ cwBeats = 0 /\ encrCnt = 0
  /\ aesSeeded = NO_SEED_LOADING /\ aesErrQ = FALSE
  /\ keyQ = "ZERO" /\ image = FALSE

\* lp_rstn loses the seeded flag and keeps the key.
CwLpReset ==
  /\ cwState' = "SINC_IDLE" /\ cwSub' = 1 /\ cwBeats' = 0 /\ encrCnt' = 0
  /\ aesSeeded' = NO_SEED_LOADING /\ aesErrQ' = FALSE
  /\ UNCHANGED <<keyQ, image>>

CwTypeOK ==
  /\ cwState \in CwStates /\ cwSub \in 1 .. 5 /\ cwBeats \in 0 .. BlockWords
  /\ encrCnt \in 0 .. NumBlocks - 1
  /\ aesSeeded \in BOOLEAN /\ aesErrQ \in BOOLEAN
  /\ keyQ \in {"ZERO", "TEST", "BEK"} /\ image \in BOOLEAN
=============================================================================
