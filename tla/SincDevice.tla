----------------------------- MODULE SincDevice -----------------------------
(***************************************************************************)
(* SInC as its firmware sees it: one step per register access, per command *)
(* that ends, per read of the cached memory, per power gating.  Commands,  *)
(* modes and errors are those of the RTL modules (CmuCtrl, CryptoWrapCtrl, *)
(* CiuCtrl model them cycle by cycle); here they run against the external  *)
(* memory, the key store and the interrupts the directed tests use.        *)
(*                                                                         *)
(* A block's data is a pair <<seed, place>> of what the tests write.       *)
(* GCM is ideal: a block decrypts under its own key and nonce only.        *)
(***************************************************************************)
EXTENDS RefCache, Sequences

VARIABLES
  dev,     \* registers, mode, memory and interrupt counts of the device
  env,     \* key store, permissions and injected errors
  ext,     \* ext[b]: the block in external memory with its tag
  shram,   \* shram[i]: the i-th source block in the shared RAM
  defect   \* what is broken in this device; "none" is the RTL

Zero    == <<0, 0>>
NoData  == <<-1, -1>>     \* what an erroneous read delivers
NoKey   == 0
Memory  == 1              \* the address of a memory; 0 is the reset value
BadAddr == 2              \* an address no memory answers

SrcBlocks == 0 .. 1
Registers == {"num", "cnt", "src", "slot", "nonce", "base"}

DevReset ==
  [mode |-> "DISABLED", dis |-> {}, run |-> "NONE", sts |-> {},
   key |-> NoKey, nonce |-> 0, base |-> 0, num |-> 0, cnt |-> 0, src |-> 0,
   slot |-> 0, seeded |-> FALSE, erase |-> FALSE, eraseErr |-> FALSE,
   ram |-> [s \in Sets |-> [w \in Ways |-> Zero]], mpu |-> 0,
   aes |-> [ph |-> "OFF", gcm |-> FALSE, last |-> FALSE],
   irq |-> [done |-> 0, err |-> 0, mpu |-> 0, bus |-> 0]]

EnvReset == [ksu |-> [k \in 0 .. 1 |-> NoKey], attrOk |-> TRUE, bypass |-> FALSE,
             perm |-> {"blk", "tag"}, inject |-> "none", noEncr |-> FALSE,
             keys |-> 0, blob |-> NoKey]

-----------------------------------------------------------------------------
(* How commands end.                                                        *)

Done(d) == [d EXCEPT !.run = "NONE", !.sts = {"CMD_SUC"}, !.irq.done = @ + 1]

NonSevere(d, e) == [d EXCEPT !.run = "NONE", !.sts = {e}, !.irq.err = @ + 1]

\* severe_err: the cache fails, the key and the nonce are cleared.
Severe(d, e) ==
  [NonSevere(d, e) EXCEPT !.mode = "CACHE_FAILED", !.key = NoKey, !.nonce = 0]

\* severe_err_din
SevereSts == {"RNG_SEED_R_ERR", "KEY_FETCH_ERR", "CACHE_BLOCK_R_ERR",
              "AUTH_TAG_R_ERR", "AUTH_TAG_CHK_ERR", "AES_ERR"}

EndCmd(d, e) == CASE e = "OK" -> Done(d)
                  [] e \in SevereSts -> Severe(d, e)
                  [] OTHER -> NonSevere(d, e)

-----------------------------------------------------------------------------
(* Registers.                                                               *)

\* aes_test_busy is the one command during which registers can be written.
Idle == dev.run = "NONE" \/ dev.run = "AES_TEST"

RegWritable(r) ==
  /\ r \in Registers
  /\ \/ defect = "openRegs"
     \/ dev.mode = "DISABLED"
     \/ dev.mode = "INITIALIZATION" /\ r \in {"num", "cnt", "src", "base"}

WriteReg(r, v) ==
  IF Idle /\ RegWritable(r) THEN [dev EXCEPT ![r] = v] ELSE dev

\* Reading the status clears its result bits.
ReadStatus(d) == [d EXCEPT !.sts = {}]

-----------------------------------------------------------------------------
(* Commands.                                                                *)

Forever == {"DIS_RESET", "DIS_REINIT"}

\* cmd_state_ok
ModeCommands ==
  [DISABLED       |-> {"SET_INIT", "AES_TEST", "NONE"} \cup Forever,
   INITIALIZATION |-> {"SET_CACHE_ACTIVE", "SINC_RESET", "ENCR_BLOCK"} \cup Forever,
   CACHE_ACTIVE   |-> {"SINC_RESET", "SINC_REINIT"} \cup Forever,
   CACHE_FAILED   |-> {"SINC_RESET"}]

\* The register-write checker drops the write while a command runs or the last
\* status is unread, AES test mode excepted.
CmdAccepted == (dev.run = "NONE" /\ dev.sts = {}) \/ dev.run = "AES_TEST"

\* Mutant: the disable bits are not looked at.
Refused_Mut(c) == c \notin ModeCommands[dev.mode]

Refused(c) == c \notin ModeCommands[dev.mode] \/ c \in dev.dis

\* An accepted command starts or is refused; in AES test mode any command ends
\* the mode, and only 0 ends it well.
StartCmd(c) ==
  CASE dev.run = "AES_TEST" -> IF c = "NONE" THEN Done([dev EXCEPT !.aes.ph = "OFF"])
                               ELSE NonSevere([dev EXCEPT !.aes.ph = "OFF"], "INVALID_CMD")
    [] dev.run # "AES_TEST" /\ Refused(c) -> NonSevere(dev, "INVALID_CMD")
    [] dev.run # "AES_TEST" /\ ~Refused(c) ->
         [dev EXCEPT !.run = c, !.aes.ph = IF c = "AES_TEST" THEN "CFG" ELSE @]

WriteCmd(c) == IF CmdAccepted THEN StartCmd(c) ELSE dev

Seeded == NO_SEED_LOADING \/ dev.seeded
KeyReadable == env.attrOk \/ env.bypass

\* The first error that holds, in the order the FSM meets them.
FirstErr(errs) ==
  LET found == {i \in 1 .. Len(errs) : errs[i][1]} IN
  IF found = {} THEN "OK"
  ELSE errs[CHOOSE i \in found : \A j \in found : i <= j][2]

SeedFails == ~Seeded /\ env.inject = "rng"
BlockUnreachable == dev.base # Memory \/ "blk" \notin env.perm

\* SET_INIT: the AES core is seeded, then the key fetched from the key store.
InitErr == FirstErr(<< <<SeedFails, "RNG_SEED_R_ERR">>, <<~KeyReadable, "KEY_FETCH_ERR">> >>)

FinishInit ==
  EndCmd(IF InitErr = "OK" THEN [dev EXCEPT !.mode = "INITIALIZATION", !.seeded = TRUE,
                                            !.key = env.ksu[dev.slot]]
         ELSE dev, InitErr)

\* ENCR_BLOCK: zero blocks are refused; an unreadable source is fatal, an
\* unwritable target is reported and the command given up.
EncrErr ==
  FirstErr(<< <<SeedFails, "RNG_SEED_R_ERR">>, <<dev.cnt = 0, "INVALID_CMD">>,
              <<dev.src # Memory, "CACHE_BLOCK_R_ERR">>, <<env.inject = "aes", "AES_ERR">>,
              <<BlockUnreachable, "CACHE_BLOCK_W_ERR_ENCR_BLOCK">>,
              <<~env.noEncr /\ "tag" \notin env.perm, "AUTH_TAG_W_ERR">> >>)

FinishEncr == EndCmd([dev EXCEPT !.seeded = ~SeedFails], EncrErr)

\* A block as the crypto wrapper writes it.
Encrypted(v) == [key |-> IF env.noEncr THEN NoKey ELSE dev.key,
                 nonce |-> IF env.noEncr THEN 0 ELSE dev.nonce,
                 val |-> v, good |-> TRUE]

\* The blocks an ENCR_BLOCK that succeeds writes to the external memory.
ExtWritten ==
  [b \in Blocks |-> IF b \in dev.num .. dev.num + dev.cnt - 1
                    THEN Encrypted(shram[b - dev.num]) ELSE ext[b]]

\* A tag that cannot be written leaves the first block without one.
ExtTagless == [ext EXCEPT ![dev.num] = [Encrypted(shram[0]) EXCEPT !.good = FALSE]]

EmptyRam == [s \in Sets |-> [w \in Ways |-> Zero]]
EraseTags == vtag' = [s \in Sets |-> [w \in Ways |-> NoTag]]

\* Mutant: the tags survive.
ClearCache_Mut == UNCHANGED cacheVars

\* sync_ciu_reset and the erase walk: no tag, every pointer at way 0.
ClearCache == EraseTags /\ fifoSta' = [s \in Sets |-> 0]

\* SINC_RESET and SINC_REINIT erase the RAM; only the first gives up the key.
FinishReset  == Done([dev EXCEPT !.mode = "DISABLED", !.key = NoKey, !.ram = EmptyRam])
FinishReinit == Done([dev EXCEPT !.mode = "INITIALIZATION", !.ram = EmptyRam])

FinishActive == Done([dev EXCEPT !.mode = "CACHE_ACTIVE"])
FinishDisable(c) == Done([dev EXCEPT !.dis = @ \cup {c}])

\* The command in progress ends; AES test mode runs until it is left.
FinishCmd ==
  /\ \/ dev.run = "SET_INIT" /\ dev' = FinishInit
     \/ dev.run = "SET_CACHE_ACTIVE" /\ dev' = FinishActive
     \/ dev.run = "ENCR_BLOCK" /\ dev' = FinishEncr
     \/ dev.run = "SINC_RESET" /\ dev' = FinishReset
     \/ dev.run = "SINC_REINIT" /\ dev' = FinishReinit
     \/ dev.run = "DIS_RESET" /\ dev' = FinishDisable("SINC_RESET")
     \/ dev.run = "DIS_REINIT" /\ dev' = FinishDisable("SINC_REINIT")
  /\ ext' = CASE dev.run = "ENCR_BLOCK" /\ EncrErr = "OK" -> ExtWritten
             [] dev.run = "ENCR_BLOCK" /\ EncrErr = "AUTH_TAG_W_ERR" -> ExtTagless
             [] OTHER -> ext
  /\ IF dev.run \in {"SINC_RESET", "SINC_REINIT"} THEN ClearCache ELSE UNCHANGED cacheVars
  /\ UNCHANGED cntrVars

\* A fault flag of an FSM, raised by the testbench.
HwFault ==
  /\ env.inject = "hw" /\ dev.mode # "CACHE_FAILED"
  /\ dev' = Severe(dev, "HW_FAULT")
  /\ UNCHANGED <<ext, cacheVars, cntrVars>>

-----------------------------------------------------------------------------
(* The CPU on the cached memory.                                            *)

InRam(b) == b < NSets * NWays
HitWay(b) == CHOOSE w \in Ways : vtag[SetOf(b)][w] = b

\* FETCH_BLOCK reads the block, then its tag, then compares the two tags.
FetchErr(b) ==
  FirstErr(<< <<BlockUnreachable, "CACHE_BLOCK_R_ERR">>,
              <<~env.noEncr /\ "tag" \notin env.perm, "AUTH_TAG_R_ERR">>,
              <<~env.noEncr /\ ~(ext[b].good /\ ext[b].key = dev.key
                                 /\ ext[b].nonce = dev.nonce), "AUTH_TAG_CHK_ERR">> >>)

\* How an access to block b ends.  Outside CACHE_ACTIVE the RAM is plain memory
\* and an address past it a bus error; a failed cache is closed.  A fetch that
\* has to seed the AES core first and cannot is dropped: the read is never
\* answered (the pending FETCH_BLOCK of SincCore).
ReadKind(b) ==
  CASE dev.erase -> "ERASING"
    [] ~dev.erase /\ dev.mode = "CACHE_ACTIVE" ->
         IF CacheHit(b) THEN "HIT" ELSE IF SeedFails THEN "DROPPED"
         ELSE IF FetchErr(b) = "OK" THEN "FILL" ELSE "FAIL"
    [] ~dev.erase /\ dev.mode # "CACHE_ACTIVE" ->
         IF ~InRam(b) THEN "BUS" ELSE IF dev.mode = "CACHE_FAILED" THEN "MPU" ELSE "RAM"

ReadData(b) ==
  CASE ReadKind(b) = "HIT"  -> dev.ram[SetOf(b)][HitWay(b)]
    [] ReadKind(b) = "FILL" -> ext[b].val
    [] ReadKind(b) = "RAM"  -> dev.ram[SetOf(b)][WayOf(b)]
    [] OTHER -> NoData

\* The CPU reads n words of block b and waits for the answer: a fetch fills the
\* line at the pointer.
ReadMem(b, n) ==
  LET k == ReadKind(b)
      s == SetOf(b) IN
  /\ k # "DROPPED"
  /\ dev' = CASE k = "ERASING" -> [dev EXCEPT !.eraseErr = TRUE]
             [] k = "BUS"  -> [dev EXCEPT !.irq.bus = @ + 1]
             [] k = "MPU"  -> [dev EXCEPT !.irq.mpu = @ + 1]
             [] k = "FILL" -> [dev EXCEPT !.ram[s][fifoSta[s]] = ext[b].val,
                                          !.seeded = TRUE]
             [] k = "FAIL" -> Severe(dev, FetchErr(b))
             [] OTHER -> dev
  /\ IF k \in {"HIT", "FILL"} THEN DeviceRead(b, n)
     ELSE /\ missCntr' = IF k = "FAIL" /\ cntrEn THEN Count(missCntr, 1) ELSE missCntr
          /\ UNCHANGED <<cacheVars, hitCntr, cntrEn>>
  /\ UNCHANGED ext

\* ext_acc_vio: an active cache is read-only, a failed one is closed.
WriteMem(b, v) ==
  CASE dev.mode \in {"CACHE_ACTIVE", "CACHE_FAILED"}
       /\ (dev.mode = "CACHE_ACTIVE" \/ InRam(b)) -> [dev EXCEPT !.irq.mpu = @ + 1]
    [] dev.mode # "CACHE_ACTIVE" /\ ~InRam(b) -> [dev EXCEPT !.irq.bus = @ + 1]
    [] OTHER -> [dev EXCEPT !.ram[SetOf(b)][WayOf(b)] = v]

\* A register erase of the RAM runs until the firmware sees it done.
EraseEnd ==
  /\ dev.erase
  /\ dev' = [dev EXCEPT !.erase = FALSE, !.ram = EmptyRam, !.irq.done = @ + 1]
  /\ EraseTags
  /\ UNCHANGED <<ext, fifoSta, cntrVars>>

-----------------------------------------------------------------------------
(* AES test mode.                                                           *)

\* cfg_key_iv_vld is taken only while cfg_key_iv_rdy is set: the key comes from
\* the key store unless it is reused.
AesConfig(gcm, reuse) ==
  CASE dev.aes.ph # "CFG" -> dev
    [] dev.aes.ph = "CFG" /\ ~reuse /\ ~KeyReadable ->
         EndCmd([dev EXCEPT !.aes.ph = "OFF"], "KEY_FETCH_ERR")
    [] OTHER -> [dev EXCEPT !.aes = [ph |-> "DIN", gcm |-> gcm, last |-> FALSE],
                            !.key = IF reuse THEN @ ELSE env.ksu[dev.slot]]

AesData(last) ==
  IF dev.aes.ph = "DIN" THEN [dev EXCEPT !.aes.ph = "OUT", !.aes.last = last] ELSE dev

\* The result is that of the key loaded and, in GCM, of the nonce register.
AesOut == <<dev.key, IF dev.aes.gcm THEN dev.nonce ELSE 0>>

AesAck ==
  CASE dev.aes.ph = "OUT" /\ ~dev.aes.last -> [dev EXCEPT !.aes.ph = "DIN"]
    [] dev.aes.ph = "OUT" /\ dev.aes.last /\ dev.aes.gcm -> [dev EXCEPT !.aes.ph = "TAG"]
    [] OTHER -> [dev EXCEPT !.aes.ph = "CFG"]

-----------------------------------------------------------------------------
(* Resets.                                                                  *)

\* The retained field that a defect adds to what the gated domain loses.
LostBy == [nonceLost |-> "nonce", keyLost |-> "key", baseLost |-> "base", disLost |-> "dis",
           modeLost |-> "mode", mpuLost |-> "mpu", ramLost |-> "ram"]

\* What lies in the gated domain and loses its value (lp_rstn_i).
Gated(f) ==
  \/ f \in {"sts", "run", "seeded", "aes"}
  \/ f \in {"num", "cnt", "src", "slot"} /\ defect # "regsKept"
  \/ defect \in DOMAIN LostBy /\ f = LostBy[defect]

GatedDev == [f \in DOMAIN dev |-> IF Gated(f) THEN DevReset[f] ELSE dev[f]]

\* The power of the low-power domain goes off and on again.
GateDevice ==
  /\ dev' = GatedDev
  /\ IF defect = "tagsLost" THEN EraseTags /\ UNCHANGED fifoSta ELSE GateCache
  /\ IF defect = "cntrKept" THEN cntrEn' = FALSE /\ UNCHANGED <<hitCntr, missCntr>>
                             ELSE GateCounters
  /\ UNCHANGED ext

\* A reset of the security processor: the external memory is another domain.
ResetDevice ==
  /\ dev' = DevReset
  /\ ClearCache /\ GateCounters /\ UNCHANGED ext

DevInit ==
  /\ dev = DevReset /\ env = EnvReset
  /\ ext = [b \in Blocks |-> [key |-> NoKey, nonce |-> 0, val |-> Zero, good |-> FALSE]]
  /\ shram = [i \in SrcBlocks |-> Zero]
=============================================================================
