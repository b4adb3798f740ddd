----------------------------- MODULE SincParams -----------------------------
(***************************************************************************)
(* The build parameters of sinc_top.sv the modules share.  External memory *)
(* is an array of blocks; the cache has NSets sets of NWays lines.  A      *)
(* block's low bits select its set (cache_set_idx) and the rest is its tag.*)
(***************************************************************************)
EXTENDS Integers, FiniteSets

CONSTANTS
  Blocks,           \* block numbers of the external memory
  NSets,            \* cache sets, a power of two
  NWays,            \* lines of a set, four in the hardware
  BlockWords,       \* words of a block
  NO_SEED_LOADING   \* the AES core needs no random seed

ASSUME BlocksAssumption == Blocks \subseteq Nat /\ 0 \in Blocks
ASSUME GeometryAssumption ==
  NSets \in Nat \ {0, 1} /\ NWays \in Nat \ {0} /\ BlockWords \in Nat \ {0}
ASSUME SeedAssumption == NO_SEED_LOADING \in BOOLEAN

Sets == 0 .. NSets - 1
Ways == 0 .. NWays - 1
SetOf(b) == b % NSets

\* Outside CACHE_ACTIVE the RAM is plain memory: the way is part of the address.
WayOf(b) == (b \div NSets) % NWays
=============================================================================
