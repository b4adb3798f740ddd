------------------------------ MODULE Firmware ------------------------------
(***************************************************************************)
(* The security processor executes a directed test against the device: one *)
(* step per statement, interleaved with the commands the device finishes,  *)
(* the faults the testbench raises and the resets a test asks for.  A      *)
(* check that fails is counted, or is lost when the test does not add its  *)
(* result to "errors".                                                     *)
(***************************************************************************)
EXTENDS SincDevice, DirectedTests

CONSTANT DefectsOf(_)   \* the devices a job is run on, by their defects

ASSUME DefectsAssumption == \A j \in Jobs : DefectsOf(j) # {}

VARIABLES
  job,   \* the test that runs, with its parameters
  fw     \* program counter, boot, errors and verdict of the test

fwVars == <<job, fw, dev, env, ext, shram, defect, refVars>>

NoVerdict == "NONE"
NoRead    == [blk |-> 0, val |-> Zero]
NoRegs    == [nonce |-> 0, base |-> 0, mode |-> "DISABLED", dis |-> {}]

FwReset == [pc |-> 1, boot |-> 0, bad |-> FALSE, dropped |-> FALSE, lost |-> FALSE,
            verdict |-> NoVerdict, rst |-> FALSE, saved |-> NoRegs, last |-> NoRead]

Stmt == Code[job][fw.boot + 1][fw.pc]
At(op) == fw.verdict = NoVerdict /\ Stmt.op = op

\* What a statement leaves alone.
SameEnv    == UNCHANGED <<env, shram>>
SameTables == UNCHANGED <<tableVars, expVars>>
SameCache  == UNCHANGED <<ext, cacheVars, cntrVars>>
DevOnly(d) == dev' = d /\ SameEnv /\ SameTables /\ SameCache
EnvOnly(e) == env' = e /\ UNCHANGED <<dev, shram>> /\ SameTables /\ SameCache

Advance == fw' = [fw EXCEPT !.pc = @ + 1]

\* errors += ...: the result of a check.
Judged(ok) ==
  [fw EXCEPT !.pc = @ + 1, !.bad = @ \/ (~ok /\ Stmt.counted),
             !.dropped = @ \/ (~ok /\ ~Stmt.counted)]
Judge(ok) == fw' = Judged(ok)

\* A wrong word ends some tests at once.
JudgeRead(same, ok, b, v) ==
  fw' = [Judged(same /\ ok) EXCEPT
           !.verdict = IF ~same /\ Stmt.bail THEN "FAIL" ELSE @,
           !.last = [blk |-> b, val |-> v]]

-----------------------------------------------------------------------------
(* Registers and commands.                                                  *)

WriteRegister ==
  /\ At("reg")
  /\ DevOnly(WriteReg(Stmt.reg, Stmt.val))
  /\ fw' = [fw EXCEPT !.pc = @ + 1, !.lost = @ \/ ~(Idle /\ RegWritable(Stmt.reg))]

IssueCommand ==
  /\ At("cmd")
  /\ DevOnly(WriteCmd(Stmt.cmd))
  /\ fw' = [fw EXCEPT !.pc = @ + 1, !.lost = @ \/ ~CmdAccepted]

\* wait_for_no_cmd_in_progress, then the result bits, which the read clears.
AwaitResult ==
  /\ At("expect") /\ dev.run = "NONE"
  /\ DevOnly(ReadStatus(dev)) /\ Judge(Stmt.sts \in dev.sts)

\* The mode and the disable bits are fields of the same register.
CheckState ==
  /\ At("state")
  /\ DevOnly(ReadStatus(dev)) /\ Judge(dev.mode = Stmt.mode)

CheckBits ==
  /\ At("bits") /\ dev.run = "NONE"
  /\ DevOnly(ReadStatus(dev))
  /\ Judge(IF Stmt.on THEN Stmt.set \subseteq dev.dis ELSE Stmt.set \cap dev.dis = {})

CheckNonceCleared == At("nonce0") /\ DevOnly(dev) /\ Judge(dev.nonce = 0)

CheckIrq == At("irq") /\ DevOnly(dev) /\ Judge(dev.irq[Stmt.irq] = Stmt.n)

\* check_reg on every register: a different value is written and read back.
Flip(v) == IF v = 1 THEN 0 ELSE 1
Swept(r) == IF Idle /\ RegWritable(r) THEN Flip(dev[r]) ELSE dev[r]
write_read_all_regs ==
  /\ At("sweep")
  /\ DevOnly([dev EXCEPT !.num = Swept("num"), !.cnt = Swept("cnt"), !.src = Swept("src"),
                         !.slot = Swept("slot"), !.nonce = Swept("nonce"),
                         !.base = Swept("base")])
  /\ Judge(\A r \in Registers : (Swept(r) # dev[r]) <=> (r \in wallowed(Stmt.mode)))

record_all_sinc_regs ==
  /\ At("record")
  /\ DevOnly(ReadStatus(dev))
  /\ fw' = [fw EXCEPT !.pc = @ + 1,
                      !.saved = [nonce |-> dev.nonce, base |-> dev.base, mode |-> dev.mode,
                                 dis |-> dev.dis]]

\* Retained registers as recorded, the others zero.
check_all_sinc_regs ==
  /\ At("checkregs")
  /\ DevOnly(ReadStatus(dev))
  /\ Judge(/\ \A r \in {"num", "cnt", "src", "slot"} : dev[r] = 0
           /\ \A r \in DOMAIN fw.saved : dev[r] = fw.saved[r]
           /\ hitCntr = 0 /\ missCntr = 0 /\ ~cntrEn)

modify_mpu_pages == At("mpu") /\ DevOnly([dev EXCEPT !.mpu = Stmt.val]) /\ Advance

\* The pages are opened again.
check_mpu_pages ==
  At("mpucheck") /\ DevOnly([dev EXCEPT !.mpu = 0]) /\ Judge(dev.mpu = Stmt.val)

-----------------------------------------------------------------------------
(* Memories.                                                                *)

FillSource ==
  /\ At("fill")
  /\ shram' = [shram EXCEPT ![Stmt.at] = Stmt.val]
  /\ UNCHANGED <<dev, env>> /\ SameTables /\ SameCache /\ Advance

PokeMem == At("poke") /\ DevOnly(WriteMem(Stmt.blk, Stmt.val)) /\ Advance

PeekMem ==
  /\ At("peek")
  /\ ReadMem(Stmt.blk, BlockWords) /\ SameEnv /\ SameTables
  /\ JudgeRead((ReadData(Stmt.blk) = Stmt.val) = Stmt.same, TRUE, Stmt.blk, Stmt.val)

TouchMem ==
  At("touch") /\ ReadMem(Stmt.blk, 1) /\ SameEnv /\ SameTables /\ Advance

CorruptExtTag ==
  /\ At("corrupt")
  /\ ext' = [ext EXCEPT ![Stmt.blk].good = FALSE]
  /\ UNCHANGED <<dev, env, shram, cacheVars, cntrVars>> /\ SameTables /\ Advance

\* check_ciphertext compares the external memory with the block encrypted anew.
CheckCipher ==
  \/ At("cipher") /\ DevOnly(dev) /\ Judge(ext[Stmt.blk] = Encrypted(Stmt.val))
  \/ At("cipherlast") /\ DevOnly(dev) /\ Judge(ext[fw.last.blk] = Encrypted(fw.last.val))

\* A read of n words of block b, its data and the counters checked.
ReadCounted(b, n) ==
  /\ ReadMem(b, n) /\ SameEnv
  /\ JudgeRead(ReadData(b) = Data(1, b), hitCntr' = exp_hit' /\ missCntr' = exp_miss',
               b, Data(1, b))

\* access_rand_word and the loops of the counter tests.
AccessWords ==
  \/ /\ At("access") /\ Stmt.how = "PREDICTED"
     /\ \E b \in Stmt.among : /\ check_hit(b) /\ CountExpected(b, Stmt.words)
                              /\ ReadCounted(b, Stmt.words)
  \/ /\ At("again")
     /\ check_hit(fw.last.blk) /\ CountExpected(fw.last.blk, 1) /\ ReadCounted(fw.last.blk, 1)

\* check_block: the test itself says whether the read hits.
AccessKnown ==
  /\ At("access") /\ Stmt.how # "PREDICTED"
  /\ exp_hit'  = IF Stmt.how = "HIT" THEN exp_hit + 1 ELSE exp_hit
  /\ exp_miss' = IF Stmt.how = "MISS" THEN exp_miss + 1 ELSE exp_miss
  /\ \E b \in Stmt.among : ReadCounted(b, Stmt.words)
  /\ UNCHANGED tableVars

\* A random block of a table.
ReadRandom ==
  /\ At("readany")
  /\ \E b \in DOMAIN Stmt.data :
       /\ ReadMem(b, 1) /\ SameEnv /\ SameTables
       /\ JudgeRead(ReadData(b) = Stmt.data[b], TRUE, b, Stmt.data[b])

EnablePerfCounters ==
  /\ At("perf") /\ EnableCounters /\ UNCHANGED <<dev, ext>> /\ SameEnv /\ Advance

check_perf_counters ==
  At("perfcheck") /\ DevOnly(dev) /\ Judge(hitCntr = exp_hit /\ missCntr = exp_miss)

StartErase == At("erase") /\ DevOnly([dev EXCEPT !.erase = TRUE]) /\ Advance
AwaitErase == At("erasewait") /\ ~dev.erase /\ DevOnly(dev) /\ Advance
CheckEraseErr ==
  At("eraseerr") /\ DevOnly([dev EXCEPT !.eraseErr = FALSE]) /\ Judge(dev.eraseErr)

-----------------------------------------------------------------------------
(* Key store, testbench, power, AES test mode.                              *)

SetEnv == At("env") /\ EnvOnly([env EXCEPT ![Stmt.field] = Stmt.val]) /\ Advance

\* gen_random_key_fixed_attr, setup_key, CMD_CCS_SAVE_KEY and CMD_CCS_LOAD_KEY.
ManageKey ==
  /\ \/ At("keygen") /\ EnvOnly([env EXCEPT !.keys = @ + 1, !.ksu[Stmt.slot] = env.keys + 1])
     \/ At("keyset") /\ EnvOnly([env EXCEPT !.ksu[Stmt.slot] = Stmt.key])
     \/ At("keysave") /\ EnvOnly([env EXCEPT !.blob = env.ksu[Stmt.slot]])
     \/ At("keyload") /\ EnvOnly([env EXCEPT !.ksu[Stmt.slot] = env.blob])
  /\ Advance

\* Nothing of the device is under way.
Quiet == dev.run = "NONE" /\ ~dev.erase /\ (env.inject = "hw" => dev.mode = "CACHE_FAILED")

\* hw_sleep and a clock gating let the device come to rest.
Pause == (At("sleep") \/ At("clkgate")) /\ Quiet /\ DevOnly(dev) /\ Advance

\* pcu_pwrgate_checks
PowerGateHsp == At("gate") /\ Quiet /\ GateDevice /\ SameEnv /\ SameTables /\ Advance

DriveAes ==
  \/ At("aeswait") /\ dev.aes.ph = Stmt.ph /\ DevOnly(dev) /\ Advance
  \/ At("aesmode") /\ DevOnly(AesConfig(Stmt.gcm, Stmt.reuse)) /\ Advance
  \/ At("aesin") /\ DevOnly(AesData(Stmt.last)) /\ Advance
  \/ At("aescmp") /\ DevOnly(dev) /\ Judge(AesOut = <<Stmt.key, Stmt.iv>>)
  \/ At("aesack") /\ DevOnly(AesAck) /\ Advance

-----------------------------------------------------------------------------
(* The end of a test.                                                       *)

BailOut ==
  /\ At("bail") /\ DevOnly(dev)
  /\ fw' = IF fw.bad THEN [fw EXCEPT !.verdict = "FAIL"] ELSE [fw EXCEPT !.pc = @ + 1]

hw_done ==
  /\ At("done") /\ DevOnly(dev)
  /\ fw' = [fw EXCEPT !.verdict = IF fw.bad THEN "FAIL" ELSE "PASS"]

\* hsp_reset_rpc asks for a reset and returns.
hsp_reset_rpc ==
  At("hspreset") /\ DevOnly(dev) /\ fw' = [fw EXCEPT !.pc = @ + 1, !.rst = TRUE]

\* The reset, at any later moment before the simulation ends.
HspResets ==
  /\ fw.rst /\ fw.verdict = NoVerdict
  /\ ResetDevice
  /\ env' = [EnvReset EXCEPT !.keys = env.keys, !.blob = env.blob]
  /\ valid_table' = [s \in Sets |-> [w \in Ways |-> 0]]
  /\ tag_table_counter' = [s \in Sets |-> 0]
  /\ fw' = [FwReset EXCEPT !.boot = fw.boot + 1, !.dropped = fw.dropped, !.lost = fw.lost]
  /\ UNCHANGED <<shram, tag_table, expVars>>

-----------------------------------------------------------------------------
FwInit == /\ job \in Jobs /\ defect \in DefectsOf(job)
          /\ fw = FwReset /\ DevInit /\ RefInit

FwStep ==
  \/ WriteRegister \/ IssueCommand \/ AwaitResult \/ CheckState \/ CheckBits
  \/ CheckNonceCleared \/ CheckIrq \/ write_read_all_regs \/ record_all_sinc_regs
  \/ check_all_sinc_regs \/ modify_mpu_pages \/ check_mpu_pages
  \/ FillSource \/ PokeMem \/ PeekMem \/ TouchMem \/ CorruptExtTag \/ CheckCipher
  \/ AccessWords \/ AccessKnown \/ ReadRandom \/ EnablePerfCounters \/ check_perf_counters
  \/ StartErase \/ AwaitErase \/ CheckEraseErr
  \/ SetEnv \/ ManageKey \/ Pause \/ PowerGateHsp \/ DriveAes
  \/ BailOut \/ hw_done \/ hsp_reset_rpc

\* The device on its own.  An erase, one word per cycle, is assumed to outlast
\* the statements between its start and the wait for its end: the read that
\* sinc_erase_busy.c makes to meet it always does.
DeviceStep ==
  /\ fw.verdict = NoVerdict
  /\ FinishCmd \/ HwFault \/ (Stmt.op \in {"erasewait", "sleep"} /\ EraseEnd)
  /\ UNCHANGED fw /\ SameEnv /\ SameTables

FwNext == (FwStep \/ DeviceStep \/ HspResets) /\ UNCHANGED <<job, defect>>

\* The processor runs, the device finishes what it starts, a reset asked for comes.
FwSpec == FwInit /\ [][FwNext]_fwVars /\ WF_fwVars(FwStep /\ UNCHANGED <<job, defect>>)
          /\ WF_fwVars(DeviceStep /\ UNCHANGED <<job, defect>>)
          /\ WF_fwVars(HspResets /\ UNCHANGED <<job, defect>>)

-----------------------------------------------------------------------------
Modes == DOMAIN ModeCommands

\* Device and test have their types.
FwTypeOK ==
  /\ fw.pc \in 1 .. Len(Code[job][fw.boot + 1]) /\ fw.boot \in 0 .. Len(Code[job]) - 1
  /\ fw.verdict \in {NoVerdict, "PASS", "FAIL"}
  /\ dev.mode \in Modes /\ dev.dis \subseteq {"SINC_RESET", "SINC_REINIT"}
  /\ dev.run \in UNION {ModeCommands[m] : m \in Modes} \cup {"NONE"}
  /\ dev.ram \in [Sets -> [Ways -> Seq(Int)]]
  /\ dev.aes.ph \in {"OFF", "CFG", "DIN", "OUT", "TAG"}

\* Every check of every directed test holds on a device without a defect, the
\* checks whose result the test throws away included: what a test expects of
\* the status, the modes, the data, the counters and the interrupts is what the
\* device does, whatever blocks it draws and wherever the power is gated.
ChecksHold == defect = "none" => ~fw.bad /\ ~fw.dropped

\* No test writes a register or a command that the device ignores (a command
\* while one runs or over a status nobody read, a register its mode protects).
NoLostWrite == defect = "none" => ~fw.lost

LastBoot == fw.boot + 1 = Len(Code[job])

\* A test that runs over several boots passes in the last of them only.
PassOnlyAfterLastBoot == fw.verdict = "PASS" => LastBoot

\* On a device without a defect every test comes to hw_done: no wait for a
\* command, a reset or the AES core lasts forever.  It does so in its last boot
\* and not earlier, except sinc_restore_after_reset, the one test that does not
\* wait for the reset it asks for.
TestsEnd ==
  <>(\/ fw.verdict # NoVerdict /\ (LastBoot \/ job.test = "sinc_restore_after_reset")
     \/ defect # "none")

\* A device with a defect does not pass a test.
DefectIsReported == fw.verdict = "PASS" => defect = "none"

LC == INSTANCE Lifecycle WITH
  mode <- dev.mode,
  op <- IF dev.run \in {"SET_INIT", "SET_CACHE_ACTIVE", "SINC_RESET", "SINC_REINIT",
                        "DIS_RESET", "DIS_REINIT"} THEN dev.run ELSE "NONE",
  resetDis <- "SINC_RESET" \in dev.dis,
  reinitDis <- "SINC_REINIT" \in dev.dis

\* Under every test a device without a defect keeps to the life cycle of the CMU, except where
\* the security processor is reset: modes change through commands and failures
\* only, and a disabled command stays disabled, power gatings included.
LifecycleUntilReset ==
  LC!LcInit /\ [][LC!LcNext \/ fw'.boot # fw.boot \/ defect # "none"]_(LC!lcVars)
=============================================================================
