------------------------------- MODULE Arena -------------------------------
(***************************************************************************)
(* What the arena allocator promises its caller, with no free list, no     *)
(* header and no file: each offset it hands out names a byte interval      *)
(* above the header that no other live offset shares; that interval stays  *)
(* put until the offset is freed; and the payload word the caller writes   *)
(* at the offset is what it reads back until it writes again or frees.     *)
(*                                                                         *)
(* The processes of MultiProcess together implement this specification    *)
(* (MultiProcess!MPArenaRefinement).                                      *)
(***************************************************************************)
EXTENDS Integers, TLC

CONSTANT Base   \* first byte an allocation may cover (the header's size)

VARIABLES
  owned,     \* live offset -> [lo |-> first byte, hi |-> one past the last]
  contents   \* live offset -> payload word last written there

avars == <<owned, contents>>

Apart(a, b) == a.hi <= b.lo \/ b.hi <= a.lo

Without(f, p) == [q \in DOMAIN f \ {p} |-> f[q]]

Init ==
  /\ owned = <<>>
  /\ contents = <<>>

(* One new offset with a non-empty interval above Base, apart from every   *)
(* interval still owned; nothing already owned moves.                     *)
Alloc ==
  \E p \in DOMAIN owned' \ DOMAIN owned :
    /\ DOMAIN owned' = DOMAIN owned \cup {p}
    /\ \A q \in DOMAIN owned : owned'[q] = owned[q]
    /\ Base <= owned'[p].lo /\ owned'[p].lo < owned'[p].hi
    /\ \A q \in DOMAIN owned : Apart(owned'[p], owned[q])
    /\ contents' = contents

Free(p) ==
  /\ owned' = Without(owned, p)
  /\ contents' = Without(contents, p)

(* The caller stores some word at p; nothing else changes. *)
Write(p) ==
  /\ owned' = owned
  /\ p \in DOMAIN contents'
  /\ contents' = (p :> contents'[p]) @@ contents

Next ==
  \/ Alloc
  \/ \E p \in DOMAIN owned : Free(p)
  \/ \E p \in DOMAIN owned : Write(p)

Spec == Init /\ [][Next]_avars
=============================================================================
