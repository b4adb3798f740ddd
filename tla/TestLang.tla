------------------------------ MODULE TestLang ------------------------------
(***************************************************************************)
(* The statements the directed tests of verif/l3 are written in.  A test   *)
(* is a sequence of calls of the SInC driver and of its neighbours; each   *)
(* constructor stands for one of them, and Firmware executes them.  The    *)
(* drivers themselves are not part of the repository: a statement does     *)
(* what the tests that call it rely on.                                    *)
(***************************************************************************)
EXTENDS Integers, Sequences

St(op) == [op |-> op, counted |-> TRUE]

\* A check whose result the test does not add to its error count.
Ignored(st) == [st EXCEPT !.counted = FALSE]

Opt(c, code) == IF c THEN code ELSE << >>

\* for (i = lo; i <= hi; i++) Body(i)
For(lo, hi, Body(_)) ==
  LET upto[k \in lo - 1 .. hi] == IF k < lo THEN << >> ELSE upto[k - 1] \o Body(k)
  IN  upto[hi]

\* Registers and commands of SInC.
Reg(r, v)   == [op |-> "reg", counted |-> TRUE, reg |-> r, val |-> v]
Cmd(c)      == [op |-> "cmd", counted |-> TRUE, cmd |-> c]
Expect(e)   == [op |-> "expect", counted |-> TRUE, sts |-> e]
Call(c, e)  == <<Cmd(c), Expect(e)>>
State(m)    == [op |-> "state", counted |-> TRUE, mode |-> m]
Bits(cs)    == [op |-> "bits", counted |-> TRUE, set |-> cs, on |-> TRUE]
NotBits(cs) == [op |-> "bits", counted |-> TRUE, set |-> cs, on |-> FALSE]

transition_to_initialized  == Call("SET_INIT", "CMD_SUC")
transition_to_cache_active == Call("SET_CACHE_ACTIVE", "CMD_SUC")
call_encrypt_block         == Call("ENCR_BLOCK", "CMD_SUC")
call_sinc_reset            == Call("SINC_RESET", "CMD_SUC")
call_sinc_reinit           == Call("SINC_REINIT", "CMD_SUC")
SincReset                  == call_sinc_reset \o <<State("DISABLED")>>

KeyGen(slot) == [op |-> "keygen", counted |-> TRUE, slot |-> slot]

\* The preamble of RUN_TEST: a key, then num, cnt, slot and nonce; the addresses
\* are those of a memory.
Regs(num, cnt, slot, nonce) ==
  <<Reg("num", num), Reg("cnt", cnt), Reg("src", 1), Reg("slot", slot),
    Reg("nonce", nonce), Reg("base", 1)>>
Configure(num, cnt, slot, nonce) == <<KeyGen(slot)>> \o Regs(num, cnt, slot, nonce)

\* Memories: the shared RAM, the cached memory, the external tags.
FillSrc(i, v)  == [op |-> "fill", counted |-> TRUE, at |-> i, val |-> v]
Poke(b, v)     == [op |-> "poke", counted |-> TRUE, blk |-> b, val |-> v]
Peek(b, v)     == [op |-> "peek", counted |-> TRUE, blk |-> b, val |-> v,
                   same |-> TRUE, bail |-> FALSE]
Differs(b, v)  == [Peek(b, v) EXCEPT !.same = FALSE]
OrReturn(st)   == [st EXCEPT !.bail = TRUE]
Touch(b)       == [op |-> "touch", counted |-> TRUE, blk |-> b]
CorruptTag(b)  == [op |-> "corrupt", counted |-> TRUE, blk |-> b]
Cipher(b, v)   == [op |-> "cipher", counted |-> TRUE, blk |-> b, val |-> v]
Irq(f, n)      == [op |-> "irq", counted |-> TRUE, irq |-> f, n |-> n]
EraseStart     == St("erase")
EraseWait      == St("erasewait")
EraseErrSet    == St("eraseerr")

\* The data a test gives block b, and a block of it encrypted and read back.
Data(seed, b)       == <<seed, b>>
EncryptTo(b, v)     == <<FillSrc(0, v), Reg("num", b)>> \o call_encrypt_block
Encrypt(T, lo, hi)  == For(lo, hi, LAMBDA i : EncryptTo(T[i], Data(1, T[i])))
ReadBack(T, lo, hi) == For(lo, hi, LAMBDA i : <<FillSrc(0, Data(1, T[i])),
                                                Peek(T[i], Data(1, T[i]))>>)

\* An access whose hit or miss is predicted, and the counters' control.
\* The block is one of a set: the test draws it at random.
Access(bs, n, how) == [op |-> "access", counted |-> TRUE, among |-> bs, words |-> n,
                       how |-> how, bail |-> FALSE]
Again              == [op |-> "again", counted |-> TRUE, bail |-> FALSE]
ReadAny(f)         == [op |-> "readany", counted |-> TRUE, data |-> f, bail |-> FALSE]
CipherLast         == St("cipherlast")
PerfEnable == St("perf")
PerfCheck  == St("perfcheck")

\* Key store, permissions, testbench, power and reset.
Set(f, v)     == [op |-> "env", counted |-> TRUE, field |-> f, val |-> v]
KeySet(slot, k) == [op |-> "keyset", counted |-> TRUE, slot |-> slot, key |-> k]
KeySave(slot) == [op |-> "keysave", counted |-> TRUE, slot |-> slot]
KeyLoad(slot) == [op |-> "keyload", counted |-> TRUE, slot |-> slot]
Sleep    == St("sleep")
PwrGate  == St("gate")
ClkGate  == St("clkgate")
HspReset == St("hspreset")
Spin     == St("spin")

\* Registers and MPU pages as a whole.
MpuModify(v)  == [op |-> "mpu", counted |-> TRUE, val |-> v]
MpuCheck(v)   == [op |-> "mpucheck", counted |-> TRUE, val |-> v]
Record        == St("record")
CheckAllRegs  == St("checkregs")
WriteReadAll(m) == [op |-> "sweep", counted |-> TRUE, mode |-> m]
NonceCleared  == St("nonce0")

\* AES test mode.
AesWait(ph)       == [op |-> "aeswait", counted |-> TRUE, ph |-> ph]
AesMode(gcm, reuse) == [op |-> "aesmode", counted |-> TRUE, gcm |-> gcm, reuse |-> reuse]
AesIn(last)       == [op |-> "aesin", counted |-> TRUE, last |-> last]
AesCompare(k, iv) == [op |-> "aescmp", counted |-> TRUE, key |-> k, iv |-> iv]
AesAckOut         == St("aesack")

\* if(errors) { hw_done(HW_TEST_FAIL); return; } and the end of a test.
Bail == St("bail")
HwDone == St("done")
=============================================================================
