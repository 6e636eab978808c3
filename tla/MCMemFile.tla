----------------------------- MODULE MCMemFile -----------------------------
(***************************************************************************)
(* Model-checking instance of MemFile.                                     *)
(*                                                                         *)
(* Sizes: alloc(1) and alloc(16) give 16- and 24-byte blocks, so a freed   *)
(* 24-byte block is consumed by a 16-byte request (remainder 8 < 24) and   *)
(* coalesced neighbours are split; alloc(40) gives 48 bytes; alloc(200)    *)
(* needs more than twice a 96-byte mapping, so ensure_space takes its      *)
(* "allocated + needed + 4096" branch.  An initial size of 96 is the       *)
(* smallest memfile_open keeps; 0 is replaced by 4096.                     *)
(***************************************************************************)
EXTENDS MemFile

MCInitialSizes == {96}
MCSizes        == {1, 16}
MCData         == {7}
MCMaxArena     == 96

(* Growth: 48- and 208-byte blocks from a 96-byte or a 4096-byte file. *)
MCGrowInitialSizes == {0, 96}
MCGrowSizes        == {40, 200}
MCGrowMaxArena     == 256

(* alloc(0): total = round_up_8(0 + 8) = 8, below sizeof(memfile_free_t). *)
MCZeroSizes == {0, 1}

(* A request whose total wraps: alloc(-20n) from JS, which get_u64 turns  *)
(* into 2^16 - 20; size + 8 + 7 then rounds down to 2^16 - 8, and          *)
(* allocated + total in memfile_ensure_space wraps below file_size.       *)
LOCAL Js == INSTANCE Marshal
MCJSSizes == {[type |-> "bigint", v |-> 1], [type |-> "bigint", v |-> -20]}
MCHugeSizes == UNION {Js!GetU64(x) : x \in MCJSSizes}
=============================================================================
