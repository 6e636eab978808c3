------------------------------ MODULE MemFile ------------------------------
(***************************************************************************)
(* The arena allocator of src/native/memoryfile.c, one handle, one thread. *)
(*                                                                         *)
(* The mapped file is `mem`, a sparse function from 8-aligned byte offsets *)
(* to the u64 word stored there; a word never written reads as 0, as the   *)
(* bytes ftruncate adds do.  The header fields and every allocation and    *)
(* free-list node live in `mem`, so an allocator bug that writes a node    *)
(* over live data is a write over the same words here.                     *)
(*                                                                         *)
(* u64/size_t arithmetic is taken modulo 2^Width (64 in the code); a run   *)
(* with a smaller Width keeps the wrap-around at the same place relative   *)
(* to the sizes a caller can pass.                                         *)
(*                                                                         *)
(* `live` and `data` are history variables of the caller: the offsets      *)
(* memfile_alloc returned and not yet freed, with the block size written   *)
(* in their allocation header, and the payload word last written there     *)
(* with memfile_write.                                                     *)
(***************************************************************************)
EXTENDS Integers, Sequences, SequencesExt, FiniteSets, TLC

CONSTANTS
  Width,         \* bits of u64 / size_t arithmetic
  InitialSizes,  \* initial_size arguments of memfile_open
  Sizes,         \* size arguments of memfile_alloc
  Data,          \* payload words a caller stores with memfile_write
  CanFail,       \* whether ftruncate / mremap may fail while growing
  MaxArena       \* model bound: no bump allocation moves `allocated` past it

ASSUME /\ Width \in Nat /\ Width >= 12
       /\ InitialSizes \subseteq Nat   \* the binding passes a uint32
       /\ Sizes \subseteq 0 .. 2^Width - 1
       /\ Data \subseteq Nat
       /\ CanFail \in BOOLEAN
       /\ MaxArena \in Nat

VARIABLES
  mem,        \* the bytes of the mapping, word by word
  mmap_size,  \* mf->mmap_size
  disk_size,  \* size of the file on disk (ftruncate)
  live,       \* caller's live offsets -> block size in their header
  data        \* caller's written payload words: offset -> value

vars == <<mem, mmap_size, disk_size, live, data>>

U == 2^Width
Wrap(x) == x % U

(* memfile_header_t is packed at offset 0; magic and version share word 0. *)
FILE_SIZE      == 8
ALLOCATED      == 16
FREE_LIST_HEAD == 24
HEADER_SIZE    == 32   \* sizeof(memfile_header_t)
ALLOC_HDR      == 8    \* sizeof(memfile_alloc_t)
FREE_NODE      == 16   \* sizeof(memfile_free_t)
MagicWord      == 1    \* stands for the MEMF magic and version 1

(* The word at offset o through memfile_ptr, and a store through it. *)
Word(m, o) == IF o \in DOMAIN m THEN m[o] ELSE 0
Store(m, o, v) == (o :> v) @@ m

(* The successive link words of the free list (next is the 2nd word).   *)
(* The walk stops after MaxNodes nodes so that a cyclic list is finite; *)
(* FreeListWellFormed rejects any state where that bound is reached.    *)
MaxNodes == MaxArena \div FREE_NODE + 1
RECURSIVE Chain(_, _, _)
Chain(m, o, n) ==
  IF o = 0 \/ n = 0 THEN <<>> ELSE <<o>> \o Chain(m, Word(m, o + 8), n - 1)
FreeListOf(m) == Chain(m, Word(m, FREE_LIST_HEAD), MaxNodes)
FreeList == FreeListOf(mem)

(***************************************************************************)
(* memfile_alloc                                                           *)
(***************************************************************************)
AllocTotal(size) ==
  LET t == Wrap(Wrap(size + ALLOC_HDR) + 7) IN t - (t % 8)

(* Index in fl of the first node whose size fits, 0 when none does. *)
FirstFit(m, fl, total) ==
  LET fits == {i \in 1 .. Len(fl) : Word(m, fl[i]) >= total}
  IN IF fits = {} THEN 0 ELSE Min(fits)

(* The word that links to a node: the header's head, or prev->next. *)
LinkAddr(prev) == IF prev = 0 THEN FREE_LIST_HEAD ELSE prev + 8

(* Mutant: remaining computed with its operands swapped. *)
SplitBlock_swapped(m, f, prev, total) ==
  LET nf == Wrap(f + total)
      m1 == Store(m, nf, total - Word(m, f))
      m2 == Store(m1, nf + 8, Word(m1, f + 8))
      m3 == Store(m2, LinkAddr(prev), nf)
  IN  Store(m3, f, total)

(* Mutant: the allocation header keeps the whole block's size. *)
SplitBlock_keepSize(m, f, prev, total) ==
  LET nf == Wrap(f + total)
      m1 == Store(m, nf, Word(m, f) - total)
      m2 == Store(m1, nf + 8, Word(m1, f + 8))
  IN  Store(m2, LinkAddr(prev), nf)

(* Carve `total` bytes off the front of the free block at f. *)
SplitBlock(m, f, prev, total) ==
  LET nf == Wrap(f + total)
      m1 == Store(m, nf, Word(m, f) - total)         \* new_free->size
      m2 == Store(m1, nf + 8, Word(m1, f + 8))       \* new_free->next
      m3 == Store(m2, LinkAddr(prev), nf)
  IN  Store(m3, f, total)                            \* alloc->size

(* Mutant: the predecessor is linked to the handed-out block itself. *)
ConsumeBlock_linkSelf(m, f, prev) ==
  LET fs == Word(m, f)
  IN  Store(Store(m, LinkAddr(prev), f), f, fs)

(* Hand out the whole free block at f. *)
ConsumeBlock(m, f, prev) ==
  LET fs == Word(m, f)
  IN  Store(Store(m, LinkAddr(prev), Word(m, f + 8)), f, fs)

(* The caller now owns offset p; it has written nothing there yet. *)
Handout(p) ==
  /\ live' = (p :> Word(mem', p - ALLOC_HDR)) @@ live
  /\ data' = [q \in DOMAIN data \ {p} |-> data[q]]

(* Mutant: any remainder that is a whole word is split off. *)
CanSplit_anyWord(remaining) == remaining >= 8

(* Split only when the rest can hold a free node and one more word. *)
CanSplit(remaining) == remaining >= FREE_NODE + 8

AllocReuse(size) ==
  LET total == AllocTotal(size)
      fl    == FreeList
      i     == FirstFit(mem, fl, total)
      f     == fl[i]
      prev  == IF i = 1 THEN 0 ELSE fl[i - 1]
  IN  /\ i # 0
      /\ mem' = IF CanSplit(Word(mem, f) - total)
                THEN SplitBlock(mem, f, prev, total)
                ELSE ConsumeBlock(mem, f, prev)
      /\ Handout(Wrap(f + ALLOC_HDR))
      /\ UNCHANGED <<mmap_size, disk_size>>

(* memfile_ensure_space: is there room below file_size? *)
HasSpace(m, needed) == Wrap(Word(m, ALLOCATED) + needed) <= Word(m, FILE_SIZE)

(* Mutant: the size is only doubled, never raised to what is needed. *)
GrowSize_doubleOnly(m, needed) == Wrap(mmap_size * 2)

(* memfile_ensure_space: the size to grow to. *)
GrowSize(m, needed) ==
  LET doubled == Wrap(mmap_size * 2)
      want    == Wrap(Word(m, ALLOCATED) + needed)
  IN  IF doubled < want THEN Wrap(want + 4096) ELSE doubled

(* Mutant: the bump pointer advances by the header only. *)
Bump_headerOnly(m, total) ==
  LET o == Word(m, ALLOCATED)
  IN  Store(Store(m, o, total), ALLOCATED, Wrap(o + ALLOC_HDR))

(* The bump allocation that follows a successful memfile_ensure_space. *)
Bump(m, total) ==
  LET o == Word(m, ALLOCATED)
  IN  Store(Store(m, o, total), ALLOCATED, Wrap(o + total))

NoFit(size) == FirstFit(mem, FreeList, AllocTotal(size)) = 0

(* The bump stays below the model bound MaxArena. *)
WithinBound(m, size) == Wrap(Word(m, ALLOCATED) + AllocTotal(size)) <= MaxArena

AllocBump(size) ==
  /\ NoFit(size)
  /\ HasSpace(mem, AllocTotal(size))
  /\ WithinBound(mem, size)
  /\ mem' = Bump(mem, AllocTotal(size))
  /\ Handout(Wrap(Word(mem, ALLOCATED) + ALLOC_HDR))
  /\ UNCHANGED <<mmap_size, disk_size>>

(* memfile_remap succeeds: ftruncate, mremap, file_size written, then bump. *)
AllocGrow(size) ==
  LET total == AllocTotal(size)
      ns    == GrowSize(mem, total)
  IN  /\ NoFit(size)
      /\ ~HasSpace(mem, total)
      /\ WithinBound(mem, size)
      /\ disk_size' = ns
      /\ mmap_size' = ns
      /\ mem' = Bump(Store(mem, FILE_SIZE, ns), total)
      /\ Handout(Wrap(Word(mem, ALLOCATED) + ALLOC_HDR))

(* ftruncate fails: memfile_alloc returns 0, nothing changed. *)
AllocTruncateFails(size) ==
  /\ CanFail
  /\ NoFit(size)
  /\ ~HasSpace(mem, AllocTotal(size))
  /\ UNCHANGED vars

(* ftruncate succeeds, mremap fails: the file is longer, the mapping not. *)
AllocRemapFails(size) ==
  /\ CanFail
  /\ NoFit(size)
  /\ ~HasSpace(mem, AllocTotal(size))
  /\ disk_size' = GrowSize(mem, AllocTotal(size))
  /\ UNCHANGED <<mem, mmap_size, live, data>>

memfile_alloc(size) ==
  \/ AllocReuse(size)
  \/ AllocBump(size)
  \/ AllocGrow(size)
  \/ AllocTruncateFails(size)
  \/ AllocRemapFails(size)

(* Mutant: the head is moved to the block before its next is written. *)
memfile_free_headFirst(p) ==
  LET h  == Wrap(p - ALLOC_HDR)
      m1 == Store(Store(mem, h, Word(mem, h)), FREE_LIST_HEAD, h)
  IN  /\ p \in DOMAIN live
      /\ mem' = Store(m1, h + 8, Word(m1, FREE_LIST_HEAD))
      /\ live' = [q \in DOMAIN live \ {p} |-> live[q]]
      /\ data' = [q \in DOMAIN data \ {p} |-> data[q]]
      /\ UNCHANGED <<mmap_size, disk_size>>

(***************************************************************************)
(* memfile_free: push the block on the head of the free list.  The caller  *)
(* frees only offsets it owns (a double free is undefined in the spec).    *)
(***************************************************************************)
memfile_free(p) ==
  LET h  == Wrap(p - ALLOC_HDR)
      m1 == Store(mem, h, Word(mem, h))                    \* free_block->size
      m2 == Store(m1, h + 8, Word(m1, FREE_LIST_HEAD))     \* free_block->next
  IN  /\ p \in DOMAIN live
      /\ mem' = Store(m2, FREE_LIST_HEAD, h)
      /\ live' = [q \in DOMAIN live \ {p} |-> live[q]]
      /\ data' = [q \in DOMAIN data \ {p} |-> data[q]]
      /\ UNCHANGED <<mmap_size, disk_size>>

(* memfile_free(0) returns at once. *)
FreeNull == UNCHANGED vars

(***************************************************************************)
(* memfile_coalesce                                                        *)
(***************************************************************************)
(* The temporary array, in list order. *)
Blocks(m, fl) == [i \in 1 .. Len(fl) |-> [offset |-> fl[i], size |-> Word(m, fl[i])]]

(* Mutant: the comparison of the insertion sort is reversed. *)
RECURSIVE InsertSorted_reversed(_, _)
InsertSorted_reversed(s, b) ==
  IF s = <<>> \/ Last(s).offset >= b.offset
  THEN Append(s, b)
  ELSE Append(InsertSorted_reversed(Front(s), b), Last(s))

(* One pass of the insertion sort: b moves left past every larger offset. *)
RECURSIVE InsertSorted(_, _)
InsertSorted(s, b) ==
  IF s = <<>> \/ Last(s).offset <= b.offset
  THEN Append(s, b)
  ELSE Append(InsertSorted(Front(s), b), Last(s))

SortByOffset(bs) == FoldLeft(InsertSorted, <<>>, bs)

(* The merge sweep: extend the last kept entry when b starts where it ends. *)
MergeStep(acc, b) ==
  IF acc # <<>> /\ Wrap(Last(acc).offset + Last(acc).size) = b.offset
  THEN [acc EXCEPT ![Len(acc)].size = Wrap(@ + b.size)]
  ELSE Append(acc, b)

Merged(bs) == FoldLeft(MergeStep, <<>>, bs)

(* Rewrite head, then every kept node's size and next, in offset order. *)
Rebuild(m, ms) ==
  LET Node(mm, i) ==
        Store(Store(mm, ms[i].offset, ms[i].size),
              ms[i].offset + 8, IF i < Len(ms) THEN ms[i + 1].offset ELSE 0)
  IN  FoldLeft(Node, Store(m, FREE_LIST_HEAD, ms[1].offset), [i \in 1 .. Len(ms) |-> i])

CoalesceMem(m) == Rebuild(m, Merged(SortByOffset(Blocks(m, FreeListOf(m)))))

(* Fewer than two nodes (an empty list included): return at once. *)
CoalesceNothing ==
  /\ Len(FreeList) < 2
  /\ UNCHANGED vars

CoalesceMerge ==
  /\ Len(FreeList) >= 2
  /\ mem' = CoalesceMem(mem)
  /\ UNCHANGED <<mmap_size, disk_size, live, data>>

memfile_coalesce == CoalesceNothing \/ CoalesceMerge

(***************************************************************************)
(* memfile_write of one payload word at an offset the caller owns.  Its    *)
(* bounds check cannot fail there, so only the copy is an action.          *)
(***************************************************************************)
memfile_write(p, v) ==
  /\ p \in DOMAIN live
  /\ Wrap(p + 8) <= mmap_size
  /\ p # 0
  /\ mem' = Store(mem, p, v)
  /\ data' = (p :> v) @@ data
  /\ UNCHANGED <<mmap_size, disk_size, live>>

(***************************************************************************)
(* memfile_open of a file that does not exist yet.                         *)
(***************************************************************************)
OpenSize(initial) == IF initial < HEADER_SIZE + 64 THEN 4096 ELSE initial

Init ==
  \E initial \in InitialSizes :
    /\ mmap_size = OpenSize(initial)
    /\ disk_size = OpenSize(initial)
    /\ mem = (0 :> MagicWord) @@ (FILE_SIZE :> OpenSize(initial))
               @@ (ALLOCATED :> HEADER_SIZE) @@ (FREE_LIST_HEAD :> 0)
    /\ live = <<>>
    /\ data = <<>>

Next ==
  \/ \E size \in Sizes : memfile_alloc(size)
  \/ \E p \in DOMAIN live : memfile_free(p)
  \/ FreeNull
  \/ memfile_coalesce
  \/ \E p \in DOMAIN live, v \in Data : memfile_write(p, v)

Spec == Init /\ [][Next]_vars

(***************************************************************************)
(* Properties                                                              *)
(***************************************************************************)
Allocated == Word(mem, ALLOCATED)
FileSize  == Word(mem, FILE_SIZE)

TypeOK ==
  /\ DOMAIN mem \subseteq 0 .. U - 1
  /\ \A o \in DOMAIN mem : mem[o] \in 0 .. U - 1
  /\ mmap_size \in 0 .. U - 1
  /\ disk_size \in 0 .. U - 1
  /\ DOMAIN live \subseteq 0 .. U - 1
  /\ DOMAIN data \subseteq DOMAIN live

(* Every live allocation and every free-list node as [kind, lo, hi). *)
Extents ==
  {[kind |-> "live", lo |-> p - ALLOC_HDR, hi |-> p - ALLOC_HDR + live[p]] : p \in DOMAIN live}
  \cup {[kind |-> "free", lo |-> o, hi |-> o + Word(mem, o)] : o \in ToSet(FreeList)}

(* No byte is owned twice: the live allocations and the free-list nodes   *)
(* that memfile_alloc, memfile_free and memfile_coalesce maintain lie     *)
(* between the header and `allocated` and never overlap one another.      *)
NoOverlap ==
  /\ \A e \in Extents : HEADER_SIZE <= e.lo /\ e.lo < e.hi /\ e.hi <= Allocated
  /\ \A a, b \in Extents : a # b => (a.hi <= b.lo \/ b.hi <= a.lo)

(* The free list memfile_alloc and memfile_coalesce walk ends in 0 with no *)
(* node repeated, and every node can hold its two words: its size is a    *)
(* multiple of 8 and at least sizeof(memfile_free_t).                     *)
FreeListWellFormed ==
  /\ Len(FreeList) < MaxNodes
  /\ Cardinality(ToSet(FreeList)) = Len(FreeList)
  /\ \A o \in ToSet(FreeList) : Word(mem, o) % 8 = 0 /\ Word(mem, o) >= FREE_NODE

(* What the caller owns reads back: the allocation header of every live   *)
(* offset still holds the size memfile_alloc wrote, and every payload word *)
(* written with memfile_write still holds its value, whatever allocations, *)
(* frees, grows and coalesces happened since.                             *)
LiveIntact ==
  /\ \A p \in DOMAIN live : Word(mem, p - ALLOC_HDR) = live[p]
  /\ \A p \in DOMAIN data : Word(mem, p) = data[p]

(* The header's sizes are ordered and the mapping covers the file size the *)
(* header claims: HEADER_SIZE <= allocated <= file_size <= mmap_size, and  *)
(* the file on disk is at least as long as the mapping.                    *)
BoundsOrder ==
  HEADER_SIZE <= Allocated /\ Allocated <= FileSize
  /\ FileSize <= mmap_size /\ mmap_size <= disk_size

(* Free bytes as a set of word offsets. *)
FreeWords(m) ==
  UNION {{o + 8 * k : k \in 0 .. Word(m, o) \div 8 - 1} : o \in ToSet(FreeListOf(m))}

(* A memfile_coalesce step keeps exactly the same free bytes and leaves    *)
(* the list strictly ascending with no two nodes adjacent (spec 8.7).     *)
CoalesceSound ==
  [][CoalesceMerge =>
       /\ FreeWords(mem') = FreeWords(mem)
       /\ \A i \in 1 .. Len(FreeList') - 1 :
            FreeList'[i] + Word(mem', FreeList'[i]) < FreeList'[i + 1]]_vars

====
