---------------------------- MODULE MCPersistence ----------------------------
(***************************************************************************)
(* Model-checking instance of Persistence.                                 *)
(*                                                                         *)
(* alloc(40) gives 48-byte blocks: a 96-byte file holds one past the     *)
(* header and the second grows it to 192, so msync covers a grown mapping. *)
(* With 48-byte pages (PageSize in the cfg) the header and the two blocks' *)
(* headers lie in pages 0, 1 and 2, so write-back can persist any of them  *)
(* without the others.                                                     *)
(***************************************************************************)
EXTENDS Persistence

MCInitialSizes == {96}
MCSizes        == {40}
MCData         == {7}
MCMaxArena     == 128

(* No file, or one this code wrote. *)
MCVersions     == {0, 1}

====
