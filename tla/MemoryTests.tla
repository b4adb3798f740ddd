----------------------------- MODULE MemoryTests -----------------------------
(***************************************************************************)
(* The directed tests of the memory behind SInC: the RAM as plain memory   *)
(* in DISABLED and INITIALIZATION, the encrypted external memory read      *)
(* through the cache in CACHE_ACTIVE, and the registers.  The gating a     *)
(* test's parameters ask for is [kind, at]: CLKGATE = at or PWRGATE = at.  *)
(***************************************************************************)
EXTENDS TestLang, SincParams

RamSize  == NSets * NWays
EndBlock == CHOOSE b \in Blocks : \A c \in Blocks : c <= b

\* Gating number n of a test, and the registers it writes again.
GateAt(g, n, again) ==
  Opt(g.at = n /\ g.kind = "CLK", <<ClkGate>>)
  \o Opt(g.at = n /\ g.kind = "PWR", <<PwrGate>> \o again)

\* Every block of the RAM written, then every one read.
test_ram(seed) ==
  For(0, RamSize - 1, LAMBDA b : <<Poke(b, Data(seed, b))>>)
  \o For(0, RamSize - 1, LAMBDA b : <<Peek(b, Data(seed, b))>>)

\* A write and a read past the RAM: both are bus errors, but the test reports a
\* wrong outcome without counting it.
past_ram_uncounted ==
  <<Poke(RamSize, Data(3, 0)), Ignored(Differs(RamSize, Data(3, 0))), Ignored(Irq("bus", 2))>>

disabled_mem_access ==
  << test_ram(1) \o test_ram(2) \o <<State("DISABLED")>> \o past_ram_uncounted \o <<HwDone>> >>

initialized_mem_setup == Configure(0, 0, 0, 0)

\* The RAM keeps what it held when the cache is initialized.
initialized_mem_run ==
  <<Poke(0, Data(1, 0))>> \o transition_to_initialized \o <<Peek(0, Data(1, 0))>>
  \o test_ram(1) \o test_ram(2) \o past_ram_uncounted \o <<HwDone>>

initialized_mem_access == << initialized_mem_setup \o initialized_mem_run >>

transition_initialized_runtime ==
  << Configure(0, 0, 0, 0) \o transition_to_initialized \o <<HwDone>> >>

-----------------------------------------------------------------------------
\* block_encr_num of sinc_cache_initialized_encrypt: two blocks from here on.
EncrNum == 3

initialized_encrypt_setup(noEncr) ==
  <<KeyGen(1)>> \o Opt(noEncr, <<Set("noEncr", TRUE)>>) \o Regs(EncrNum, 2, 1, 1)

\* The gated registers are written again before the blocks are encrypted.
initialized_encrypt_gate(g) ==
  GateAt(g, 1, <<Reg("base", 1), Reg("src", 1), Reg("num", EncrNum), Reg("cnt", 2)>>)

initialized_encrypt_read(g, noEncr) ==
  call_encrypt_block \o GateAt(g, 2, << >>) \o transition_to_cache_active
  \o <<Peek(EncrNum, Data(1, 0)), Bail, Peek(EncrNum + 1, Data(1, 1)),
       Cipher(EncrNum + 1, Data(1, 1))>>

initialized_encrypt_again(g) ==
  SincReset \o Opt(g.kind = "PWR" /\ g.at # 0, <<Reg("slot", 1)>>)
  \o Opt(g.kind = "PWR" /\ g.at = 2, <<Reg("num", EncrNum), Reg("cnt", 2), Reg("src", 1)>>)
  \o transition_to_initialized \o call_encrypt_block \o <<HwDone>>

initialized_encrypt(g, noEncr) ==
  << initialized_encrypt_setup(noEncr) \o transition_to_initialized
     \o <<FillSrc(0, Data(1, 0)), FillSrc(1, Data(1, 1))>> \o initialized_encrypt_gate(g)
     \o initialized_encrypt_read(g, noEncr) \o initialized_encrypt_again(g) >>

-----------------------------------------------------------------------------
\* sinc_cache_active_mem_access encrypts Bulk blocks at a time (16 in the C
\* code), Encrypts times, from StartNum on.
Bulk     == 2
Encrypts == 2
StartNum == 2

BulkFirst(i) == StartNum + (i - 1) * Bulk
FillBulk(i)  == For(0, Bulk - 1, LAMBDA k : <<FillSrc(k, Data(i, k))>>)
PeekBulk(i)  == For(0, Bulk - 1, LAMBDA k : <<Peek(BulkFirst(i) + k, Data(i, k))>>)

active_mem_setup(g, noEncr) ==
  GateAt(g, 3, << >>) \o <<KeyGen(1)>> \o Opt(noEncr, <<Set("noEncr", TRUE)>>)
  \o Regs(StartNum, Bulk, 1, 1)

active_mem_gate(g) ==
  GateAt(g, 4, <<Reg("num", StartNum), Reg("cnt", Bulk), Reg("src", 1), Reg("slot", 1),
                 Reg("nonce", 1)>>)

active_mem_encrypt ==
  transition_to_initialized
  \o For(1, Encrypts, LAMBDA i : FillBulk(i) \o call_encrypt_block
                                 \o <<Reg("num", BulkFirst(i + 1))>>)
  \o transition_to_cache_active

check_int_cnt(bus, mpu) == <<Irq("bus", bus), Irq("mpu", mpu)>>

\* No block of an active cache can be written, in the RAM or past it.
active_mem_writes(g) ==
  LET at == <<0, RamSize - 1, RamSize, EndBlock>> IN
  GateAt(g, 1, << >>)
  \o For(1, 4, LAMBDA k : <<Poke(at[k], Data(9, 9))>> \o check_int_cnt(0, k))

\* The blocks in order, then at random; the external memory holds ciphertext.
active_mem_reads(g, n) ==
  For(1, Encrypts, LAMBDA i : FillBulk(i) \o PeekBulk(i)) \o GateAt(g, 2, << >>)
  \o For(1, n, LAMBDA k : <<ReadAny([b \in StartNum .. BulkFirst(Encrypts + 1) - 1 |->
                              Data((b - StartNum) \div Bulk + 1, (b - StartNum) % Bulk)]),
                            CipherLast>>)
  \o <<HwDone>>

active_mem_access(g, noEncr, n) ==
  << active_mem_setup(g, noEncr) \o active_mem_gate(g) \o active_mem_encrypt
     \o active_mem_writes(g) \o active_mem_reads(g, n) >>

\* One bulk only, and no writes.
active_mem_access_short ==
  << Configure(StartNum, Bulk, 0, 0) \o transition_to_initialized
     \o FillBulk(1) \o call_encrypt_block \o <<Reg("num", BulkFirst(2))>>
     \o transition_to_cache_active \o FillBulk(1) \o PeekBulk(1) \o <<HwDone>> >>

-----------------------------------------------------------------------------
\* The registers the test takes to be writable in a mode.
wallowed(m) ==
  CASE m = "DISABLED"       -> {"num", "cnt", "src", "slot", "nonce", "base"}
    [] m = "INITIALIZATION" -> {"num", "cnt", "src", "base"}
    [] OTHER                -> {}

\* The sweep of each mode; its result is not added to the errors.
reg_access_by_state ==
  << <<KeyGen(0), State("DISABLED"), Ignored(WriteReadAll("DISABLED")), Reg("slot", 0),
       Reg("base", 1)>>
     \o transition_to_initialized \o <<State("INITIALIZATION"),
                                       Ignored(WriteReadAll("INITIALIZATION"))>>
     \o transition_to_cache_active \o <<State("CACHE_ACTIVE"),
                                        Ignored(WriteReadAll("CACHE_ACTIVE"))>>
     \o <<Set("perm", {"tag"}), Touch(0), State("CACHE_FAILED"),
          Ignored(WriteReadAll("CACHE_FAILED")), HwDone>> >>
=============================================================================
