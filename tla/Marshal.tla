------------------------------- MODULE Marshal -------------------------------
(***************************************************************************)
(* The argument conversion of src/native/binding.c: get_u64, which every   *)
(* offset and size argument of alloc, free and read goes through.          *)
(*                                                                         *)
(* A JS argument is a BigInt or a Number with an integer value.            *)
(* napi_get_value_bigint_uint64 stores the low 64 bits of a BigInt, so a   *)
(* negative or too large one wraps, and reports it only in `lossless`,     *)
(* which get_u64 ignores.  For a Number it fails with                      *)
(* napi_bigint_expected and stores nothing; get_u64 ignores the status and *)
(* returns its uninitialised `result`, any value the stack held.           *)
(***************************************************************************)
EXTENDS Integers

CONSTANT Width   \* bits of u64, scaled down as in MemFile

(* The values get_u64 can return for argument x. *)
GetU64(x) == IF x.type = "bigint" THEN {x.v % 2^Width} ELSE 0 .. 2^Width - 1
====
