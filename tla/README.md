# SInC: a TLA+ verification of the secure instruction cache core

SInC (`src/README.md`, `src/docs/sinc_0101_AS.md`, `src/docs/sinc_0101_MAS.md`)
lets a CPU execute from a cache whose backing store is encrypted and
authenticated.  Firmware on a security processor commands it over AXI.  Before
the cache is active the cache RAM is plain memory for the CPU; when it is
active, a read that misses makes the CMU fetch, decrypt and authenticate one
block.  The hardware under `src/src/sinc/rtl` and `src/src/ram_wrapper/rtl` is
a set of synchronous state machines: in the modules of the hardware **one step
of the model is one clock cycle**, and a variable is a flop (or a group of flops
that are only used together).  Combinational signals are operators.  The
exceptions say so in their header: in `CryptoData` a step is a handshake, in
`RefCache`, `SincDevice` and `Firmware`, which model the directed C tests of
`src/verif/l3`, a step is a statement of the test.

## Inventory

| part | source | state | operations | module |
|---|---|---|---|---|
| CMU control | `sinc_cmu_ctrl(.sv,_ret.sv)` | mode, command FSM, fetch tracker, pending command, completion and error flops | dispatch and end of ten commands, block fetch, failure | `CmuCtrl` |
| CMU registers | `sinc_cmu_reg_ctrl(.sv,_ret.sv)`, `sinc_cmu_axi_sub_checker.sv` | command, status, disable bits, validity pipeline | register write, check, status load and read | `CmuCtrl` |
| crypto wrapper | `sinc_cmu_crypto_wrap_ctrl(.sv,_ret.sv)` | main FSM and sub-state, key, seeded flag, block and beat counts, AES error | the seven commands that need AES, DMA or the key | `CryptoWrapCtrl` |
| its data path | the same, `sinc_cmu_crypto_wrap.sv` | AES data FSM, block flags, beat counters, input and output buffer | words of a block and of its tag, in and out | `CryptoData` |
| DMA | `sinc_cmu_dma.sv` | two FSMs, lengths, beat counts, completion and stop flags | transfer, response, stop, flush | `CmuDma` |
| AXI manager | `axi_mgr.v` | command engines, beats left, response | command, beats, error, stop | `CmuDma` |
| FIFO | `sinc_cmu_fifo.sv` | two pointers, memory | push, pop, clear | `CmuFifo`, `FifoQueue` |
| CIU control | `sinc_ciu_ctrl.sv` | cache FSM, pending access, error flops, erase handshake | CPU read and write, miss, refusal, synchronous reset | `CiuCtrl` |
| tag array | `sinc_ciu_vtag(.sv,_ret.sv)` | tags, replacement pointers, erase walk | lookup, update, erase | `CiuVtag` |
| RAM wrapper | `ram_wrapper.sv`, `mem_rmw.sv`, `mem_erase.sv` | words, two-stage access pipeline, erase engine | read, read-modify-write, engine and register erase | `RamWrapper` |
| wiring | `sinc_top.sv`, `sinc_cmu.sv`, `sinc_ciu.sv` | none | | `SincCore` |
| directed tests | `src/verif/l3/*/*.c` | program, boot, error count, tag table, expected counts | statements of the driver | `TestLang`, five modules of tests, `DirectedTests`, `Firmware` |
| device under test | registers, commands and memory as the tests use them | registers, mode, RAM, tags, counters, external memory, key store | register access, command, read, power gating, reset | `SincDevice`, `RefCache` |
| AXI subordinate | `axi_sub`, `sinc_cmu_axi_sub_wrap.sv` | | | events only |
| AES core | `gp_aes`, `aes` | data path | data and tag handshakes | handshakes of `gp_aes_mode` in `CryptoData`; a tag check in `SincCore` |
| MPU | `sinc_ciu_mpu_ret.sv`, `mpu` | regions | | violation input; retention in `SincDevice` |

**Interactions.**  Firmware writes the command register; the register block
checks the command against the mode in one cycle and hands it to the control
FSM in the next.  The control FSM starts the crypto wrapper with a one-cycle
command and waits for a one-cycle completion.  The CIU asks for a block with a
one-cycle request; the CMU answers with a one-cycle completion while the crypto
wrapper writes words straight into the RAM the CIU addresses.  SINC_RESET and
SINC_REINIT reset the CIU synchronously, which in turn starts an erase of RAM
and tags and acknowledges it.  Any severe error or hardware fault fails the
cache, and a failed cache is only left by SINC_RESET.  The crypto wrapper asks
the DMA for a read and, while it runs, for the write of the same block; words
come from the AXI manager into the input buffer, four at a time into the AES
core, from there into the output buffer and word by word to the DMA or the RAM.
Any error stops both channels, whatever they are doing.  The C tests run on the
security processor: they write registers and commands, poll the status, read
through the cache, gate the power or reset the system, and keep a second copy of
the tag table to predict hits and misses.

**What is hard here.**  Nearly every handshake is a pulse: it is lost if the
other side does not look in that very cycle.  Commands are checked before they
are dispatched, lines are overwritten before they are authenticated, a mode
changes while an access, a fetch or an erase is under way, faults arrive in any
cycle, and a low-power reset clears half of the flops.  No accept signal of the
AXI manager and no overflow signal of a buffer is looked at, two parties count
the beats of a transfer separately, and one flag of the data FSM survives an
abandoned command.  A test may drop the result of a check, run on after it asked
for a reset, or write a register the device ignores.  `PROJECT.json` lists
these hazards at their lines, with the properties that watch them.

**What makes each part correct.**  CMU: the mode moves only along the life
cycle, each command runs in a mode that admits it, disables hold for good.
Crypto wrapper: it stays in step with the control FSM, and the key is there
when it is used.  CIU: every access is answered, its request for a block is
heard, the answer is authentic.  Tags and RAM: a tagged line holds its block, no
block has two tags, and nothing decrypted outlives the active mode.  DMA: a
request is heard, a transfer ends, both counts agree.  Buffers: bounded queues.
Data path: words leave in the order they came, with the tag of their own block
behind them.  Directed tests: on a sound device every check holds and no write
is lost; on a device with a defect a test fails; a test ends, in its last boot.

## Plan

1. `SincParams`, `CmuCtrl`, `Cmu`, `Lifecycle`, `CmuProofs`: the command and
   mode protocol, checked, proved, and shown to implement a life cycle. *Done.*
2. `CryptoWrapCtrl`, `CiuCtrl`, `CiuVtag`, `RamWrapper`, composed with
   `CmuCtrl` in `SincCore`: authenticity, residue, liveness. *Done.*
3. `CmuDma` with the AXI manager's engines, `CmuFifo` shown to implement
   `FifoQueue`, `CryptoData` on top of that queue. *Done.*
4. `RefCache`, `SincDevice`, `TestLang`, the tests and `Firmware`: the directed
   tests against the device, and the device against the life cycle. *Done.*
5. `FirmwareProofs` (the prediction of the cache, the life cycle of the device at
   register level), `CmuFifoProofs`. *Done.*
6. Proofs for `SincCore` (`CmuCtrlProofs`, `CoreProofs`, `AuthProofs`):
   `TagsAreUnique` for every number of sets and ways, the protocol between CIU
   and CMU, which discharges the assumption `Cmu` makes of the CIU, the life
   cycle of the whole core, then authenticity and residue, with the RAM pipeline
   and the two erase walks in the invariant.  *Done.*
7. `CmuDmaProofs` (requests are heard and counts agree), `CryptoDataProofs` (no
   beat lost, order, tags, clean start, all blocks written).  *Done.*
8. MPU regions and locks, the AXI subordinate, back-to-back firmware writes in
   `SincCore`, AES_TEST's data states cycle by cycle, clock gating. *Open.*

## The modules and the code

* **`SincParams`**: blocks, sets, ways.  A block number stands for a cache-line
  address; its set and its way as plain memory are taken from its low bits as in
  `sinc_ciu_ctrl.sv`.
* **`CmuCtrl`**: one operator per FSM state (`SincIdle`, `FetchBlock`, ...,
  `AesSeed`), `FetchTracker`, `ErrorFlops`, `CommandPipeline`,
  `StatusRegister`, all conjoined in `CmuCycle(in)`, where `in` holds the
  inputs sampled in the cycle.  `CmuLpReset` clears what `lp_rstn` clears and
  keeps what the `_ret` modules keep.
* **`CryptoWrapCtrl`**: one operator per FSM state with its sub-states.  A
  sub-state waits for an event: `"OK"` (the transfer or AES step it waits for is
  done), `"ERR"` or `"WERR"` (a read or write error response).  Data is
  abstracted to whether the block came from the encrypted image (`image`); the
  AES tag check passes exactly for those.
* **`CiuCtrl`**: the variant built with `MPU_SINGLE_CYCLE = 0`; the record
  `ciu` holds the flops, one operator per FSM state gives the next record.
* **`CiuVtag`**: built with `CACHE_VTAG_USE_RF`: tags, FIFO replacement
  pointers, erase walk.
* **`RamWrapper`**: a word is the block whose authentic plaintext it holds,
  `Unverified` (decrypted, not yet authenticated) or `NoData` (erased or plain).
  A write is a read-modify-write that commits two cycles later; an
  uncorrectable error or an erase stops it.
* **`SincCore`**: the wiring.  `CoreCycle(in)` conjoins the five blocks;
  `Cycle` chooses the inputs of a cycle, `LpReset` is a low-power reset.
* **`Cmu`**: `CmuCtrl` closed with an environment weaker than the real
  neighbours, so that results about it hold in the core.  Its one real
  assumption, that a block request only arrives at an idle CMU, is the invariant
  `FetchRequestIsHeard` of the core runs, proved in `CoreProofs` for the core
  without seed loading.
* **`Lifecycle`**: the abstract specification: operations start, finish, abort
  or the cache fails.
* **`CmuDma`**: per channel the DMA's FSM (`NextDmaSt`, `NextDma`), the command
  engine of the manager (`NextMgrSt`, `NextPath`, `NextMgr`) and the crypto
  wrapper's request with its own beat counter (`NextAsk`); `Cycle(in)` moves all
  of them.  Read and write channel have the same FSMs and share the operators;
  where they differ (`Ready`, `Beat`, `Drains`) the channel is a case.  The
  manager's bursts are reduced to the beats that are left and to the event that
  everything issued has been answered.
* **`FifoQueue`, `CmuFifo`**: the bounded queue a buffer promises, and the FIFO
  with its pointers, wrap bits and three comparisons, for both widths.  The
  refinement mapping reads the memory from the pop pointer on (`Content`).
* **`CryptoData`**: ENCR_BLOCK and FETCH_BLOCK with their sub-states, the AES
  data FSM and the two buffers as `FifoQueue`.  A word is its kind, its number
  in the block and the block it belongs to.  The AES core is reduced to its
  handshakes (`gp_aes_mode.sv`, MODE_DATA and MODE_TAG): it takes up to two AES
  blocks, delivers them in order and then offers the tag.  `DinRdy` is high more
  often than `din_rdy_o`, which also waits for the state of the round logic and
  for the end of the message, so the data FSM meets every order the core can
  produce and some more.  A failure of any kind (`Fail`) may happen in any step.
* **`RefCache`**: tag array, replacement pointers and performance counters of
  the device beside the tag table and the expected counts of
  `sinc_onoff_ret_check_active.c` and `sinc_performance_counter_check.c`.
* **`SincDevice`**: the device at register level: which writes a mode admits,
  how each command ends and with which status, what a read through the cache
  returns, what a power gating keeps.  A read whose fetch would need a seed that
  cannot be read is never answered, as in the core (`seed_failure`); no modelled
  test makes one.  The variable `defect` names the way a
  device is wrong; `"none"` is the RTL (`DefectsOf` of `Firmware` chooses).
* **`TestLang`**: the driver calls the tests are made of, as records.
  **`ResetTests`, `FaultTests`, `MemoryTests`, `RetentionTests`, `AesTests`**:
  the tests, each a sequence of statements per boot with the names and in the
  order of the C code; a result the C code does not add to `errors` is
  `Ignored`.  **`DirectedTests`**: the tests by name.  **`Firmware`**: one action
  per kind of statement, interleaved with commands that end, faults and resets.
* **`CmuCtrlProofs`**: what one cycle of `CmuCtrl` does, whatever its
  neighbours.  **`CmuProofs`, `CoreProofs`, `AuthProofs`, `FirmwareProofs`,
  `CmuFifoProofs`, `CmuDmaProofs`, `CryptoDataProofs`**: the theorems.  **`MC...`**: instances.

Operators ending in `_Mut...` are plausible mistakes in the definition they
precede; each property is violated when one of them replaces it
(`PROJECT.json`, `mutants`).

### The environment of the core

* The CPU presents an access only while `mem_cpu_busy` is low and it does not
  wait for another answer; the cycle of the answer counts as free.
* Firmware has one register write in flight and reads the status in every cycle
  (not reading it only closes the command register for longer; `Cmu` covers
  that).
* `Faults`: `GLITCH` raises the fault line in any cycle, `ECC` when an access
  leaves the RAM pipeline, `PARITY` when a lookup answers with a valid tag.
* `Disturbances`: `TAMPER` (a block that was not encrypted by SInC), `MPU` (a
  violation), `CR_ERASE` (the erase bit in the register, when no erase runs),
  `AES_ERR`, `LP_RESET` and `LP_IN_ERASE`.
* `LP_RESET`: `lp_rstn_i` is asserted in any cycle in which `sinc_active_o`
  (`sinc_top.sv:430`) is low: no command in the CMU or on its way there, no
  severe error, the CIU in IDLE (`SincActive`).  An access kept pending, the
  crypto wrapper of a failed cache and the walk of an erase over the RAM do not
  raise `sinc_active_o`; the reset drops them.  The walk over the tags does not
  raise it either.  A reset that stops that walk half-way is admitted by
  `LP_IN_ERASE`, a name of its own because the theorems about tags and lines
  exclude it (see "The data of the core").  The runs with low-power resets have
  both.  The processor boots anew after the reset and waits for no answer.

### The environment of the other models

* `CmuDma`: after a stop the crypto wrapper asks for nothing for `MinGap`
  cycles.  The shortest way to a new request is the load of the status, its
  read, the write of a command, its check and its dispatch, five cycles at least;
  two are enough for every property, and with fewer `RequestIsHeard` fails.  A
  failed transfer stops the other channel if that is in use (`MustStop`).
* `CryptoData`: what sub-state 1 does in its first cycles (the data FSM leaves
  AES_IDLE, the core is configured, the write is requested) has happened when
  the read ends (`UnderWay`), and the response to a read, two or three cycles
  after its last beat, comes before the AES core has worked on that beat
  (`DoutVld`).
* `Firmware`: the drivers are not part of the repository.  `Expect` and `Bits`
  wait until no command is in progress, as the tests assume of them; the waits
  of the AES test poll its status register only; `hsp_reset_rpc` asks for a reset
  that comes at any later time; a hardware fault is raised by the test bench when
  the test asks for it.
* `Firmware`, `DeviceStep`: an erase, one word per cycle over the whole RAM,
  outlasts the statements between its start and the poll or sleep that waits for
  its end.  `sinc_erase_busy.c:123` rests on the same assumption: its read is meant
  to meet the erase.  The other order, an erase that is over before the read, is
  assumed away, and no run looks at what the test would make of it.

## What the runs show

| run | question |
|---|---|
| `cmu` | With completions, errors, faults, requests and resets in any order: does a command run only in a mode that admits it, are disables final, is the life cycle implemented? |
| `core_modes` | Through all modes, with evictions, tampered blocks, bus errors, MPU violations and low-power resets: are reads authentic, do tags and lines agree, does nothing decrypted stay behind? |
| `core_faults` | The same with hardware faults in every cycle, including the stray RAM write in the cycle after a fault, with register erases racing reads, fetches and resets, and with low-power resets that stop an erase half-way; is a tracked fetch ever forgotten, is anything decrypted left when the RAM is opened? |
| `core_commands` | Every command but DIS_REINIT (which `cmu` covers), with seed loading, errors of every sub-step and low-power resets: do the CMU and the crypto wrapper stay in step? |
| `core_commands_end` | Does every command end, and can a failed cache be reset? |
| `core_answers` | Is every CPU read answered, and every access kept as pending taken up? |
| `cmu_dma` | With stops and bus errors in any cycle: does the manager hear every request, do a flush and a transfer end, and are the beats of the next transfer counted right by both sides? |
| `input_fifo` | Is the FIFO a bounded queue, and do its flags say exactly what fits?  (The run has the input buffer's width; the theorems cover both.) |
| `crypto_data` | With failures in any step: is a beat, an AES block or a tag ever lost, doubled or taken for another, does a command leave something behind, does it write as many blocks as it should, and does it end? |
| `ref_cache` | Does the C tests' table predict every hit and miss, and do their counts agree with the counters up to their limit, over every order of reads, gatings and restarts? |
| `directed_tests` | For every test, every block it may draw and every gating: does each check hold, is no write ignored, does the device keep to `Lifecycle` and the test come to its end, in its last boot?  And does a retention test fail on a device that loses nonce, key, base address, disable bits, mode, MPU pages or RAM, or in the active mode its tags, at a power gating, or keeps its counters? |

One run, `seed_failure`, shows where the code departs from its documents
(`PROJECT.json`, `findings`): after a low-power reset the first miss triggers a
re-seed; if the seed cannot be read, the pending fetch is dropped and the CIU is
never told, so the CPU hangs, where `sinc_0101_AS.md:780` says that "AES
operations fail".

Ten more configurations in this directory do the same for other places.  They
are kept for reference, outside the list of runs; TLC stops each of them with a
violation of the property named:

| configuration | property | what TLC finds | against |
|---|---|---|---|
| `EraseDuringReset.cfg` | `CommandsEnd` | An erase started by the register swallows the start pulse of SINC_RESET's erase (`mem_erase.sv:167`): SINC_RESET never ends. | `sinc_0101_AS.md:736`: "The SInC reset command will change CMU mode to “disabled”." |
| `FaultAtDispatch.cfg` | `FailedCanBeReset` | A fault in the cycle of a dispatch leaves `cmd_in_progress` set for good (`sinc_cmu_ctrl.sv:174`): the command register stays closed and the failed cache cannot be reset. | `sinc_0101_AS.md:772`: "only security processor firmware can reset CMU back to “disabled” mode by issuing a cmu_reset command" |
| `AesTestSeed.cfg` | `AesTestGetsItsSeed` | The second seed read of AES_TEST is not counted (`sinc_cmu_crypto_wrap_ctrl.sv:898`): an unseeded test never goes on. | `sinc_0101_MAS.md:647`: "Reads the seed from RNG to seed the trivium in AES (if not already seeded)." |
| `ReinitContent.cfg` | `ReinitKeepsCache` | SINC_REINIT erases the cache (`sinc_ciu_ctrl.sv:210`). | `sinc_0101_AS.md:653`: "without changing the cache content nor erasing BEK" |
| `PendingAtFailure.cfg` | `PendingIsRefused` | A read pending when the cache fails is neither served nor refused and keeps the bus busy (`sinc_ciu_ctrl.sv:196`). | `sinc_0101_MAS.md:1749`: "it doesn’t service any request and flags an MPU violation" |
| `StaleEraseAck.cfg` | `NoResidueOutsideCache` | A fault interrupts SINC_RESET and firmware writes it again.  The walk over the tags starts anew, that over the RAM goes on, and its end acknowledges the new command (`sinc_ciu_ctrl.sv:211`): the mode is disabled while tags are still valid.  The walk over the tags goes on and ends, and accesses are refused as busy until then (`NoResidueOnceErased`). | `sinc_0101_MAS.md:463`: "It also ensure tags and their valid bits are erased during memory erase, or sinc reset and sinc re-init commands." |
| `RestoreAfterReset.cfg` | `PassOnlyAfterLastBoot` | `sinc_restore_after_reset.c:202` does not wait after it asked for the reset and may pass in its first boot. | `sinc_0101_CTESTS.md:1239`: "Read contents of 10 blocks from step 2 and check that data equals expected values" |
| `RegistersKept.cfg` | `DefectIsReported` | The retention tests drop the result of `check_all_sinc_regs` (`sinc_onoff_ret_check_active.c:433`): a device that keeps what it should lose passes. | `sinc_0101_CTESTS.md:2031`: "Check value of every register is as expected based on if it is retained or not per the MAS" |
| `OpenRegisters.cfg` | `DefectIsReported` | `sinc_reg_access_by_state.c:180` drops the result of its register sweep: a device without any write protection passes. | `sinc_0101_CTESTS.md:1786`: "compare that against access permissions by state for current state" |
| `ReuseKey.cfg` | `TestsEnd` | The reuse-key tests leave AES_TEST without reading the status (line 101); the next AES_TEST_EN is ignored and they wait for ever. | `sinc_aes_test_mode_reuse_key/sinc_aes_test_mode.c:100`: "FW can repeat from step #2 for next data payload" |

Two more observations have no configuration of their own.  A read in progress when
SINC_RESET or SINC_REINIT is dispatched is wiped without an answer, so
`core_answers` leaves these commands out.  A command checked one cycle before
the cache fails is still dispatched in the failed cache; `Lifecycle` admits this
(`Start`), because it cannot leave the failed mode except by SINC_RESET.

**Why `core_answers` and `core_commands_end` leave something out.**  They show
that progress holds outside the places listed above: no bus error next to an MPU violation
(`PendingAtFailure.cfg`), no seed loading (`seed_failure`, `AesTestSeed.cfg`), no
register erase (`EraseDuringReset.cfg`), no hardware fault
(`FaultAtDispatch.cfg`).

**Bounds.**  Two sets of two ways.  Three blocks of one set over two ways are
the fewest that fill the set and force a replacement, a second miss on a
replaced block and the wrap of the replacement pointer; the other set shows that
erases walk over several rows.  One word per block: the word that completes the
block is the one that matters for authenticity, and each earlier one is
`Unverified`, which a one-word block that fails its tag also reaches.
`core_faults` keeps the replacement with two blocks over one way, which leaves
room for a fault in every cycle.  On two sets an erase is too short for a
second SINC_RESET to overtake it; on eight it is not.  `StaleEraseAck.cfg` (one
kind of fault, the first and the last of eight sets used) violates
`NoResidueOutsideCache`, which is therefore only claimed without faults
(`core_modes`), and passes with `NoResidueOnceErased` and
`ActiveReadsAreAuthentic` in its place (60 531 states).  A low-power reset that
stops the restarted walk over the tags goes further: with `LP_RESET` and
`LP_IN_ERASE` added, the same configuration violates both properties in turn.
`sinc_active_o` is low as soon as the stale acknowledgement has ended the second
SINC_RESET; the reset stops the walk, tags stay valid in a disabled cache, and
when it is active again a read hits one of them.  It takes a
fault in a SINC_RESET, another SINC_RESET before the first erase has ended and a
low-power reset in the few cycles after its acknowledgement; with more words in a block the walk
over the tags ends long before that over the RAM, and only several interrupted
resets in a row keep it from ending.  Without faults nothing of the kind exists: on
the same eight sets with register erases, errors, tampered blocks and low-power
resets of both kinds, `NoResidueOutsideCache`, `TaggedLinesHoldTheirBlock` and
`ActiveReadsAreAuthentic` hold (blocks 0, 7 and 15; 92 683 states).  `NumBlocks = 2` lets ENCR_BLOCK go round once and end.  Runs about commands use
one block.  Two error statuses stand for the severe and the non-severe ones in
`cmu`.

`cmu_dma` has transfers of one and two beats: one is the first and the last beat
at once, two can be given up in the middle, and a transfer of another length can
follow.  The FIFO run has two lines of two words, so that both pointers wrap,
and three words.  `crypto_data` has cache blocks of three AES blocks (a first, a
last and one between) of two words, and up to three cache blocks with a two-bit
counter, the largest number it can count.  `ref_cache` has one set of three ways
with five blocks, and counters that stop at 4 where the test counts to 6
(`CntrMax`, `MaxWords`).  `directed_tests` has two sets of two ways and eight
blocks, so that each set has twice the blocks it can hold; loops of 10 to 200
random accesses make `Accesses` (5) of them, each over every block that can be drawn; loops over all blocks or
registers keep their shape with the model's sets; AES payloads are one or two
blocks.  `directed_tests` leaves the two tests of
`ReuseKey.cfg` and the defects of `OpenRegisters.cfg` and `RegistersKept.cfg`
out, and `TestsEnd` exempts the test of `RestoreAfterReset.cfg`
from ending in its last boot.

Each module has a type invariant; the runs check those of the core (`TypeOK`)
and of the command path (`CmuTypeOK`), the proofs cover both and `RefTypeOK`,
`FifoTypeOK`, `DmaTypeOK` and `DataTypeOK`, and `FwTypeOK` describes the state for
the reader (it holds on the instances of the runs).

No other counter is bounded.  Deadlock is checked in every run but
`directed_tests`, where a test that has reached its verdict stops.

**Fairness.**  `FairSpec` has one condition: while the core has work of its own
(`AtWork`: a cycle without any input would change its state) cycles go on, and
the transfer the crypto wrapper waits for moves on.  The clock is not gated
while `sinc_active` is high, and an AXI subordinate has to answer.  Neither the
CPU nor firmware ever has to do anything.  AES_TEST ends only on firmware's
word, so `CommandsEnd` excludes it.

`DmaSpec` has weak fairness of the cycle in which the bus moves on, output data
is there and nobody stops: an AXI subordinate answers and the AES core delivers.
`DataSpec` has weak fairness of `Progress`, the steps of a command without the
failures.  `FwSpec` has three conditions: the processor executes its next
statement, the device ends the command it runs, and a reset that was asked for
comes.  None of them promises that a poll succeeds.

## What is proved

### The command path

`CmuProofs` proves for every set of blocks, every set of error statuses and both
settings of `NO_SEED_LOADING`:

* `TypeCorrect`: `CmuTypeOK` always holds.
* `CommandsRunInTheirMode`: `CommandRunsInItsMode` always holds.
* `DisabledForGood`: the action property `DisablesAreFinal`.
* `LifecycleImplemented`: `Cmu` refines `Lifecycle`.
* `FetchesAreServed`: without seed loading, `TrackedFetchIsServed` always holds.

`CommandRunsInItsMode` is not inductive: a command is dispatched on the strength
of a check made a cycle earlier, and a command waiting for the seed on a check
made many cycles earlier.  The invariant `IInv` adds what each stage still
knows: `CommandVetted` (a command that passed the check was allowed in the
present mode, unless the cache has failed since), `PendingVetted` (so was one
waiting for the seed) and `CleanupPermitted` (a SINC_RESET or SINC_REINIT under
way has not been disabled, and nothing can disable it meanwhile).
`InvariantHolds` proves it by one step per state of the control
FSM; the lemmas are in `CmuCtrlProofs`, stated of a cycle with any inputs of the
right type (`InputOK`) and any request that `FetchAllowed` admits, so that the
core can use them as well.  The refinement follows from it step by step, with
`DisablesAreFinal` a consequence of `CleanupPermitted`.

The assumptions are those of the modules: the blocks are naturals that include
0, sets, ways and words are positive, the error statuses are among those the
package declares, and `Cmu`'s environment.

### The composed core

`CoreProofs` proves `TagsStayUnique`: in `SincCore`, for every number of sets, ways
and words, every set of blocks and whatever faults, firmware writes and
disturbances are admitted, `TagsAreUnique` always holds.  The tag of a block is
written when its fetch has ended, many cycles after the lookup that missed.
A lookup misses when no way matches, when two do, and when it was not made at
all.  `TagIInv` therefore adds `LookupMade` (a read that may go on to miss has
had its lookup), `RereadWhileIdle` (the second lookup, after a block has
arrived, finds the CMU idle, so the mode cannot become active between it and its
answer) and `MissIsReal` (in CACHE_MISS no way of the set has the tag of the
block waited for).  Only the fetch the CIU waits for writes a tag meanwhile, and
an erase only removes tags.

It also proves of the core with `NO_SEED_LOADING`, again for every geometry
and every environment:

* `RequestsAreHeard` (`FetchRequestIsHeard`): the CIU sends a request only to an
  idle CMU that tracks no fetch.  This is what `Cmu` assumes.
* `FetchesServeTheMiss` (`FetchServesTheMiss`): while a block is fetched the CIU
  waits for that block.
* `CoreFetchesAreServed`, `CoreCommandsInMode`, `CoreDisabledForGood`,
  `CoreImplementsLifecycle`: the results of the command path hold of the core,
  with the real crypto wrapper and CIU in the place of `Cmu`'s environment.

The inductive invariant `ReqIInv` joins `IInv` of the CMU with the types of the
CIU, the properties themselves and three facts about the two together: no command
waits for a seed (`Unseeded`), a request is only up in CACHE_MISS
(`RequestAtMiss`), and the reset of the CIU finds no block requested or fetched
(`NoResetUnderFetch`).  Seed loading is excluded because the
results fail with it: a seed that cannot be read leaves the tracker set with
nobody working on the fetch (run `seed_failure`).

### The data of the core

`AuthProofs` proves, for the core with `NO_SEED_LOADING`, for every geometry,
with faults, erases and tampered blocks in any cycle and a low-power reset in any
cycle in which `sinc_active_o` is low:

* `CoreTypes` (`TypeOK`) and `KeyStaysLoaded` (`KeyIsLoaded`).

and, if no low-power reset stops a walk over the tags (`LpSparesWalk`:
`"LP_IN_ERASE" \notin Disturbances`):

* `NothingLeftOnceErased` (`NoResidueOnceErased`).
* `TaggedLinesStayTrue` (`TaggedLinesHoldTheirBlock`) and `ReadsStayAuthentic`
  (`ActiveReadsAreAuthentic`).

`LpSparesWalk` cannot be dropped: with faults the results fail without it (see
"Bounds").  A low-power reset during the walk over the RAM, with an access
pending or with the crypto wrapper at work is covered.

A read is answered with the word of the RAM row it addressed two cycles earlier,
in the way its lookup found one cycle earlier, while a fill writes decrypted
words over a line whose old tag is still valid and an erase clears tags and RAM
at different speeds.  So authenticity needs what each unit is doing for the
others, and the invariant is built in layers, each inductive relative to the
ones before it (`Base` is `ReqIInv`, `TagIInv` and `TypeOK`):

1. `CryptoIInv`: the crypto wrapper works only on what the CMU waits for, in the
   active cache it does work on the tracked fetch, and a fault fails the cache.
2. `EraseIInv`: the walk over the tags starts at set 0 and leaves nothing behind
   it, and in an open mode, in a clean-up and during an erase of the RAM the tags
   are clear or being cleared.
3. `RamIInv`: the same for the walk over the RAM, word by word; its end, its
   acknowledgement and the mode they lead to find the RAM and its write
   pipeline clean.  Residue follows from 2 and 3.
4. `AuthIInv`: a tagged line holds its block unless the tracked fetch replaces it
   (`Lines`); no write in the two stages of the pipeline is about to change that
   (`PipeSafe`); the last word of a fetched block has landed when its tag is
   checked, because sub-states 3 and 4 of FETCH_BLOCK last as long as the
   pipeline is deep (`Fill`); the row a read has fetched holds its block in the
   way of its tag (`RowRead`); and an access accepted in one mode does not end in
   another that gives it a different meaning (`WriteMode`, `ReadMode`,
   `RereadMode`).

The lemma `CycleHasWires` names the signals between the units once; every later
proof is about one cycle with those wires.

### The core without faults

Three properties are stated by the runs for a core without hardware faults, and
proved under `Faults = {}` as well: `CryptoStaysInStep` (`CryptoInStep`),
`InProgressStaysReal` (`InProgressIsReal`) and `NothingLeftOutsideCache`
(`NoResidueOutsideCache`).  `core_commands` checks
the first two in a core that does load seeds, so run and theorem complement each
other.  The hypothesis is needed for the last one: a fault in
a SINC_RESET lets the end of its erase acknowledge the next one
(`StaleEraseAck.cfg`).  `StepIInv` says that without a fault a severe error finds
both FSMs idle, so no command is left behind by one of them.  `EngineIInv`
says that the engine erases only for the command that runs, that nothing of an
earlier erase is left when it starts, and that the walk over the tags, a set per
cycle, stays ahead of the walk over the RAM, a word per cycle (`TagsAhead`): the
acknowledgement, which comes from the RAM alone, finds the tags clear.  The three
theorems do not need `LpSparesWalk`: without faults the tags of an open mode are
clear before any low-power reset can stop a walk, so `EngineInvariant` carries
`EraseIInv` and `EngineIInv` through the induction together.

### The DMA

`CmuDmaProofs` proves for every set of lengths and every `MinGap` of at least 2
`RequestsAreHeard` (`RequestIsHeard`) and `CountsStayInStep` (`BeatCountsAgree`).
The DMA does not look at the manager; it knows only whether a response is owed
(`comp_q`).  `DmaIInv` says what that knowledge is worth: while one is owed the
manager is at work (`Owed`); once it has come the manager is at rest or, when a
stop met that response, on its way to a second one (`Settled`), and then the
crypto wrapper has not asked again (`Restart`), which is where `MinGap` is
used.  A stop reaches the manager once (`StopOnce`) and from then on the manager
fails the transfer.  Until a stop, DMA and manager agree on the beats to come
(`Beats`), and the crypto wrapper has counted what the DMA has (`Counts`).

### The data path

`CryptoDataProofs` proves for every block length, every line width of at least
two words and every width of `encr_block_cnt`, with a failure in any step:

* `EveryBeatFits` (`NoBeatIsLost`), `OutputStaysInOrder` (`OutputInOrder`).
* `TagComparesItsBlock` (`TagIsOfTheBlock`), `CommandsStartClean` (`CleanStart`).
* `EveryBlockWritten` (`AllBlocksWritten`) and `DataTypesHold` (`DataTypeOK`).
* `NoLineIsDropped`: AES_IN pops a line whenever the core is ready but drives the
  first one of a block only if the output buffer is empty (`AesIn` has both
  branches, as the code has).  The branch that would lose a line is never taken.

None of the properties is inductive, because the two ends of the path count for
themselves: the read counts beats, the data FSM AES blocks, the write words.
`DataIInv` is the ledger that ties them together.  While a block moves, the words
that left the input buffer are those in the AES core and those that reached the
output buffer, and each place holds the very words this says (`InFlight`).  In
AES blocks the same number is `aes_block_cnt`, except that the counter is back at
0 after the last; the flag of the last block sits on the block that completes the
sum, and the tag is there exactly when the sum is complete (`AesBlocksInOrder`).
When no block moves, its tag does (`Between`), or there is no command and nothing
is anywhere (`IdleClean`).  `AesPlace` and `SubStates` say which states of the two
FSMs go together, and `Counted` that `encr_block_cnt` is the number of blocks
written and stays below `num_of_blocks`.

One lemma per action shows that it keeps the ledger (`ReadBeatData`, ...,
`AesBypassData`).  Three facts carry the argument.  When the last word of a block
has been taken nothing of the block is left anywhere (`AllMoved`), which
makes the end of a write or of a fetch safe.  A line that goes into the core is the
next of its block and knows whether it is the last (`BlockIn`).  And a line that
comes out while another goes in is not the last (`AesOutBothData`), so the flags
that the two would set and clear in one cycle never meet.

### The prediction of the tests

`FirmwareProofs` proves for every geometry, every set of blocks and every counter
limit `RefTypesHold`, `PredictionHolds` (`PredictionIsRight`) and `CountersHold`
(`CountersAgree`).  The device decodes two matching ways as a miss, so the
prediction is right only as long as no set holds a tag twice, and that in turn
needs the two tables to agree way by way and the two pointers to advance alike:
`RefIInv` is the conjunction (`TablesAgree`, `NoTagTwice`, `DisabledIsClear`),
proved by `RefInvariant`.  `ReadKeepsTables` is the step that matters: a miss
fills the same way on both sides.

### The device at register level

`LifecycleHolds` (same module) proves `LifecycleUntilReset`: under every program
the device of `SincDevice` implements `Lifecycle` until the security processor is
reset, if it has no defect.  The programs are those of `verif/l3` in the run; the
proof never looks at the statement a step executes, so it holds for any sequence of
register writes, commands, reads, key operations and power gatings, with faults in
between.  It is the same abstract specification that `CmuProofs` and `CoreProofs`
show of the RTL, so both descriptions of the device agree on modes and disable bits.

A command that ends writes its new mode whatever the old one is; that this is where
`Lifecycle` says it leads needs `FwIInv` (`DeviceInvariant`): the operation that runs
is one the mode admits (`DevFits`), which every severe error, read error and power
gating respects because it ends the command with the mode.  The proof classifies each
step by what it does to mode, command and disable bits (`Moved`: nothing, an end, a
failure, a start, an effect), one lemma per group of statements (`Starting`,
`Finishing`, `Reading`, `Testing`, `Gating`), and maps each class to a step of
`Lifecycle` once (`MovedIsLifecycle`).  `BootFits` counts the boots, which is what
tells a reset from every other step.  A defective device satisfies `DevFits` too;
only the refinement needs the defect away (a device that loses its mode in a power
gating is no `Lifecycle`).

### The buffers

`CmuFifoProofs` proves for every depth, ratio and set of words, in both
configurations, `FifoTypesHold`, `FlagsHold` (`FlagsAgree`) and
`QueueImplemented`: the FIFO refines `FifoQueue`, on which `CryptoData` rests.
The flags compare wrap bits, words and lines; that they amount to a word count
needs the pointer of the wider side to stand at the head of a line.  `FifoIInv`
adds this (`WideAligned`) and that the count lies between 0 and the size of the
memory.  `FlagsCount` turns the three comparisons into the count, `CountMoves`
gives the count after a step, and `CycleRefines` compares the memory, read from
the pop pointer on, with the queue word by word.  The proofs do not need the
powers of two the hardware's pointer arithmetic needs; `Advance` has the carry
written out.

### Only model-checked

All liveness, because fairness and ENABLED are outside the prover.  The core with
seed loading: the request protocol fails there (run `seed_failure`), and the
invariants above rest on it.  Of the directed tests (`Firmware`), what depends on
the statements themselves (`FwTypeOK`, `ChecksHold`, `NoLostWrite`,
`DefectIsReported`): the programs are finite, so that the run is the whole answer
for its geometry.

## Not modelled

* AES itself and its latency: of `gp_aes` the data and tag handshakes
  (`CryptoData`), of the cipher a tag check that accepts exactly what was
  encrypted.
* Burst splitting, ids, parity and clock gating of the AXI manager; the AXI
  subordinate (a register access is one event); addresses of transfers.
* MPU regions: a violation is an input of the core.
* The data states of AES_TEST cycle by cycle (`SincDevice` has them as firmware
  sees them), and the abandoned read when AES_TEST is left during it.
* The latency counter, code words and error injection of the RAM, the
  single-cycle MPU variant of the CIU and the flop-array variant of the tags
  (not built), clock gating except as the condition of a low-power reset.
* `CryptoData` and `CmuDma` are not composed with `SincCore`: the core has their
  outcomes as events (`"OK"`, `"ERR"`, `"WERR"`), and the two modules show that
  the outcomes come and what they stand for.  The strap
  `disable_encr_auth_check_i` is an input of `CryptoData` and of the tests, and
  low in `SincCore`.
* Three tests (`sinc_cache_disabled_mem_access_byte`,
  `partial_word_mem_access_iram`, `iram_mem_access`) are loops over byte lanes of
  a memory that has none in the models; the UVM bench of `src/verif/l1`.
