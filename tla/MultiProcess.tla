---------------------------- MODULE MultiProcess ----------------------------
(***************************************************************************)
(* Several processes, each with its own memfile_t handle on one file.      *)
(*                                                                         *)
(* The file's bytes are `mem`, shared by every mapping (MAP_SHARED): a     *)
(* store by one process is seen by all.  What a process may touch is       *)
(* limited by its own mf->mmap_size (`msize`), which only its own          *)
(* memfile_open and memfile_remap change: memfile_ptr returns NULL for an  *)
(* offset at or past it, and the allocator dereferences that NULL.         *)
(*                                                                         *)
(* Callers follow the convention of the spec: a process calls              *)
(* memfile_alloc, memfile_free and memfile_coalesce only while it holds    *)
(* the exclusive flock.  The locks are flock(2) locks on each handle's     *)
(* own open file description.  A process may be killed at any step; the   *)
(* kernel then drops its lock and mapping, and the file keeps whatever     *)
(* was stored.                                                             *)
(*                                                                         *)
(* memfile_open is two or three steps, as another process can act between *)
(* its stat and its open, and between ftruncate and the header stores.    *)
(* memfile_free is two steps: the free node is linked to the old head,     *)
(* then the head is moved to it; a kill can fall between them.  The other  *)
(* allocator calls are one step each, as the lock keeps every other        *)
(* mutator out.                                                            *)
(***************************************************************************)
EXTENDS Integers, Sequences, SequencesExt, FiniteSets, TLC

CONSTANTS
  Procs,         \* the processes that open the file
  Width, InitialSizes, Sizes, Data, CanFail, MaxArena,   \* as in MemFile
  FileExists,    \* whether the file exists, with a valid header, at start
  MaxCalls,      \* model bound: opens plus lock calls per process
  MaxCrashes     \* model bound: kills in a behaviour

ASSUME /\ FileExists \in BOOLEAN
       /\ MaxCalls \in Nat /\ MaxCrashes \in Nat

VARIABLES
  mem,       \* the file's bytes, word by word (the page cache)
  disk,      \* length of the file (st_size)
  ph,        \* where each process is in memfile_open, or "open"/"closed"
  msize,     \* each handle's mf->mmap_size (st_size between stat and mmap)
  lk,        \* the flock each handle holds: "none", "sh" or "ex"
  want,      \* the flock a process is blocked in, or "none"
  pend,      \* a free node linked but not yet made the head, or 0
  lv,        \* each process's live offsets -> size in their header
  orphan,    \* blocks a kill left out of both the free list and any caller
  faulted,   \* processes killed by a NULL dereference
  calls,     \* opens and lock calls so far, per process
  crashes    \* kills so far

vars == <<mem, disk, ph, msize, lk, want, pend, lv, orphan, faulted, calls, crashes>>

(* The single-handle model supplies the layout and the pure allocator       *)
(* steps; MF(p) reads GrowSize with p's own mmap_size.                    *)
MF(p) == INSTANCE MemFile WITH mmap_size <- msize[p], disk_size <- disk,
                               live <- lv[p], data <- <<>>
Core == INSTANCE MemFile WITH mmap_size <- 0, disk_size <- disk,
                              live <- <<>>, data <- <<>>

None == "none"
Word(m, o) == Core!Word(m, o)
Store(m, o, v) == Core!Store(m, o, v)
Wrap(x) == Core!Wrap(x)
Without(f, x) == [y \in DOMAIN f \ {x} |-> f[y]]
Set(f, p, v) == [f EXCEPT ![p] = v]

(* memfile_ptr: NULL for offset 0 and for any offset past the mapping. *)
Ptr(p, o) == o # 0 /\ o < msize[p]
Faults(p, offs) == \E o \in offs : ~Ptr(p, o)

(* The JS thread of p is between calls on an open handle. *)
Idle(p) == ph[p] = "open" /\ want[p] = None /\ pend[p] = 0

(* The caller's convention: mutate only under the exclusive lock. *)
Mutator(p) == Idle(p) /\ lk[p] = "ex"

(***************************************************************************)
(* Which node offsets memfile_alloc, memfile_free and memfile_coalesce     *)
(* pass to memfile_ptr and dereference, before they store anything.        *)
(***************************************************************************)
Walked(fl, n) == {fl[k] : k \in 1 .. n}

AllocDerefs(size) ==
  LET total == Core!AllocTotal(size)
      fl    == Core!FreeList
      i     == Core!FirstFit(mem, fl, total)
  IN  IF i # 0
      THEN Walked(fl, i) \cup
             (IF Core!CanSplit(Word(mem, fl[i]) - total) THEN {Wrap(fl[i] + total)} ELSE {})
      ELSE Walked(fl, Len(fl)) \cup
             (IF Core!HasSpace(mem, total) THEN {Word(mem, Core!ALLOCATED)} ELSE {})

CoalesceDerefs == IF Word(mem, Core!FREE_LIST_HEAD) = 0 THEN {} ELSE ToSet(Core!FreeList)
(***************************************************************************)
(* memfile_alloc by p, in the outcomes of MemFile, with p's own mapping.   *)
(***************************************************************************)
(* p now owns offset o. *)
Give(p, o) == lv' = Set(lv, p, (o :> Word(mem', o - Core!ALLOC_HDR)) @@ lv[p])

ProcAllocReuse(p, size) ==
  LET total == Core!AllocTotal(size)
      fl    == Core!FreeList
      i     == Core!FirstFit(mem, fl, total)
      f     == fl[i]
      prev  == IF i = 1 THEN 0 ELSE fl[i - 1]
  IN  /\ i # 0
      /\ mem' = IF Core!CanSplit(Word(mem, f) - total)
                THEN Core!SplitBlock(mem, f, prev, total)
                ELSE Core!ConsumeBlock(mem, f, prev)
      /\ Give(p, Wrap(f + Core!ALLOC_HDR))
      /\ UNCHANGED <<disk, msize>>

ProcAllocBump(p, size) ==
  LET total == Core!AllocTotal(size)
  IN  /\ Core!NoFit(size)
      /\ Core!HasSpace(mem, total)
      /\ Core!WithinBound(mem, size)
      /\ mem' = Core!Bump(mem, total)
      /\ Give(p, Wrap(Word(mem, Core!ALLOCATED) + Core!ALLOC_HDR))
      /\ UNCHANGED <<disk, msize>>

(* memfile_remap: ftruncate to the size p computes from its own mapping,   *)
(* mremap, file_size written, then the bump.                               *)
ProcAllocGrow(p, size) ==
  LET total == Core!AllocTotal(size)
      ns    == MF(p)!GrowSize(mem, total)
  IN  /\ Core!NoFit(size)
      /\ ~Core!HasSpace(mem, total)
      /\ Core!WithinBound(mem, size)
      /\ disk' = ns
      /\ msize' = Set(msize, p, ns)
      /\ mem' = Core!Bump(Store(mem, Core!FILE_SIZE, ns), total)
      /\ Give(p, Wrap(Word(mem, Core!ALLOCATED) + Core!ALLOC_HDR))

(* ftruncate fails (nothing changes) or succeeds with mremap failing. *)
ProcAllocGrowFails(p, size) ==
  /\ CanFail
  /\ Core!NoFit(size)
  /\ ~Core!HasSpace(mem, Core!AllocTotal(size))
  /\ disk' \in {disk, MF(p)!GrowSize(mem, Core!AllocTotal(size))}
  /\ UNCHANGED <<mem, msize, lv>>

ProcAlloc(p, size) ==
  /\ Mutator(p)
  /\ ~Faults(p, AllocDerefs(size))
  /\ \/ ProcAllocReuse(p, size)
     \/ ProcAllocBump(p, size)
     \/ ProcAllocGrow(p, size)
     \/ ProcAllocGrowFails(p, size)
  /\ UNCHANGED <<ph, lk, want, pend, orphan, faulted, calls, crashes>>

(***************************************************************************)
(* memfile_free by p, in two steps.                                        *)
(***************************************************************************)
(* free_block->size and free_block->next = header->free_list_head. *)
FreeLink(p, o) ==
  LET h  == Wrap(o - Core!ALLOC_HDR)
      m1 == Store(mem, h, Word(mem, h))
  IN  /\ Mutator(p)
      /\ o \in DOMAIN lv[p]
      /\ Ptr(p, h)
      /\ mem' = Store(m1, h + 8, Word(m1, Core!FREE_LIST_HEAD))
      /\ pend' = Set(pend, p, h)
      /\ lv' = Set(lv, p, Without(lv[p], o))
      /\ UNCHANGED <<disk, ph, msize, lk, want, orphan, faulted, calls, crashes>>

(* header->free_list_head = alloc_offset. *)
FreePublish(p) ==
  /\ pend[p] # 0
  /\ mem' = Store(mem, Core!FREE_LIST_HEAD, pend[p])
  /\ pend' = Set(pend, p, 0)
  /\ UNCHANGED <<disk, ph, msize, lk, want, lv, orphan, faulted, calls, crashes>>

(* A process dies: the kernel closes its descriptor, which drops its flock, *)
(* and unmaps its view.  A free node linked but not yet made the head is   *)
(* now in no list and owned by nobody.                                     *)
Die(p) ==
  /\ ph' = Set(ph, p, "closed")
  /\ msize' = Set(msize, p, 0)
  /\ lk' = Set(lk, p, None)
  /\ want' = Set(want, p, None)
  /\ pend' = Set(pend, p, 0)
  /\ orphan' = IF pend[p] # 0 THEN orphan \cup {pend[p]} ELSE orphan

(* memfile_coalesce by p past its early returns: one step.  When malloc  *)
(* of the temporary array returns NULL, the first store into it kills p    *)
(* after the counting walk and before any store into the file.             *)
ProcCoalesce(p) ==
  /\ Mutator(p)
  /\ ~Faults(p, CoalesceDerefs)
  /\ Len(Core!FreeList) >= 2
  /\ \/ /\ mem' = Core!CoalesceMem(mem)
        /\ UNCHANGED <<ph, msize, lk, want, pend, orphan>>
     \/ /\ CanFail
        /\ Die(p)
        /\ UNCHANGED mem
  /\ UNCHANGED <<disk, lv, faulted, calls, crashes>>
(***************************************************************************)
(* A dereference of a NULL from memfile_ptr: the kernel kills p.           *)
(***************************************************************************)
Segfault(p) ==
  /\ Mutator(p)
  /\ \/ \E size \in Sizes : Faults(p, AllocDerefs(size))
     \/ \E o \in DOMAIN lv[p] : ~Ptr(p, Wrap(o - Core!ALLOC_HDR))
     \/ Faults(p, CoalesceDerefs)
  /\ Die(p)
  /\ faulted' = faulted \cup {p}
  /\ UNCHANGED <<mem, disk, lv, calls, crashes>>

(* Any process that has a file descriptor may be killed at any step. *)
Kill(p) ==
  /\ ph[p] # "closed"
  /\ crashes < MaxCrashes
  /\ Die(p)
  /\ crashes' = crashes + 1
  /\ UNCHANGED <<mem, disk, lv, faulted, calls>>

(***************************************************************************)
(* flock(2): memfile_lock_shared, memfile_lock_exclusive, memfile_unlock.  *)
(***************************************************************************)
(* Mutant: any two locks of the same mode are taken as compatible. *)
FlockCompatible_sameMode(p, mode) ==
  \A q \in Procs \ {p} : lk[q] = None \/ lk[q] = mode

(* The lock p asks for can be held beside what every other handle holds. *)
FlockCompatible(p, mode) ==
  \A q \in Procs \ {p} : lk[q] = None \/ (mode = "sh" /\ lk[q] = "sh")

(* A call for a lock p does not hold.  flock converts a held lock by first *)
(* dropping it, then waiting for the new one.                              *)
LockCall(p, mode) ==
  /\ Idle(p)
  /\ lk[p] # mode
  /\ calls[p] < MaxCalls
  /\ lk' = Set(lk, p, None)
  /\ want' = Set(want, p, mode)
  /\ calls' = Set(calls, p, calls[p] + 1)
  /\ UNCHANGED <<mem, disk, ph, msize, pend, lv, orphan, faulted, crashes>>

(* The kernel grants a blocked flock once nothing conflicts. *)
Grant(p) ==
  /\ want[p] # None
  /\ FlockCompatible(p, want[p])
  /\ lk' = Set(lk, p, want[p])
  /\ want' = Set(want, p, None)
  /\ UNCHANGED <<mem, disk, ph, msize, pend, lv, orphan, faulted, calls, crashes>>

memfile_unlock(p) ==
  /\ Idle(p)
  /\ lk[p] # None
  /\ lk' = Set(lk, p, None)
  /\ UNCHANGED <<mem, disk, ph, msize, want, pend, lv, orphan, faulted, calls, crashes>>

(***************************************************************************)
(* memfile_open: stat, then the existing-file or the fresh-file branch.    *)
(***************************************************************************)
FreshHeader(sz) ==
  (0 :> Core!MagicWord) @@ (Core!FILE_SIZE :> sz)
    @@ (Core!ALLOCATED :> Core!HEADER_SIZE) @@ (Core!FREE_LIST_HEAD :> 0)

(* stat(path): the file exists when it is longer than 0 bytes. *)
OpenStat(p) ==
  /\ ph[p] = "closed"
  /\ calls[p] < MaxCalls
  /\ ph' = Set(ph, p, IF disk > 0 THEN "existing" ELSE "fresh")
  /\ msize' = Set(msize, p, disk)
  /\ calls' = Set(calls, p, calls[p] + 1)
  /\ UNCHANGED <<mem, disk, lk, want, pend, lv, orphan, faulted, crashes>>

(* The failure exits: close(fd) if it was opened, free the handle. *)
OpenFails(p) ==
  /\ ph' = Set(ph, p, "closed")
  /\ msize' = Set(msize, p, 0)

(* open, mmap of st_size, magic check; open or mmap may fail. *)
OpenExisting(p) ==
  /\ ph[p] = "existing"
  /\ \/ /\ Word(mem, 0) = Core!MagicWord
        /\ ph' = Set(ph, p, "open")
        /\ UNCHANGED msize
     \/ /\ Word(mem, 0) # Core!MagicWord \/ CanFail
        /\ OpenFails(p)
  /\ UNCHANGED <<mem, disk, lk, want, pend, lv, orphan, faulted, calls, crashes>>

(* open(O_CREAT), ftruncate to initial_size (4096 when below 96) and mmap. *)
OpenCreate(p) ==
  /\ ph[p] = "fresh"
  /\ \/ \E initial \in InitialSizes :
          LET sz == Core!OpenSize(initial)
          IN  /\ disk' = sz
              /\ mem' = [o \in {x \in DOMAIN mem : x < sz} |-> mem[o]]
              /\ msize' = Set(msize, p, sz)
              /\ ph' = Set(ph, p, "created")
     \/ /\ CanFail
        /\ OpenFails(p)
        /\ UNCHANGED <<mem, disk>>
  /\ UNCHANGED <<lk, want, pend, lv, orphan, faulted, calls, crashes>>

(* The header stores of a fresh file. *)
OpenHeader(p) ==
  /\ ph[p] = "created"
  /\ mem' = FreshHeader(msize[p]) @@ mem
  /\ ph' = Set(ph, p, "open")
  /\ UNCHANGED <<disk, msize, lk, want, pend, lv, orphan, faulted, calls, crashes>>

(* Mutant: the descriptor is not closed, so its flock outlives the handle. *)
memfile_close_keepFd(p) ==
  /\ Idle(p)
  /\ ph' = Set(ph, p, "closed")
  /\ msize' = Set(msize, p, 0)
  /\ UNCHANGED <<mem, disk, lk, want, pend, lv, orphan, faulted, calls, crashes>>

(* memfile_close: mf->closed = 1 makes its memfile_sync return at once;   *)
(* then munmap and close(fd), which drops the flock.                       *)
memfile_close(p) ==
  /\ Idle(p)
  /\ ph' = Set(ph, p, "closed")
  /\ msize' = Set(msize, p, 0)
  /\ lk' = Set(lk, p, None)
  /\ UNCHANGED <<mem, disk, want, pend, lv, orphan, faulted, calls, crashes>>

(***************************************************************************)
(* Specification                                                           *)
(***************************************************************************)
Init ==
  \E initial \in InitialSizes :
    /\ disk = IF FileExists THEN Core!OpenSize(initial) ELSE 0
    /\ mem = IF FileExists THEN FreshHeader(Core!OpenSize(initial)) ELSE <<>>
    /\ ph = [p \in Procs |-> "closed"]
    /\ msize = [p \in Procs |-> 0]
    /\ lk = [p \in Procs |-> None]
    /\ want = [p \in Procs |-> None]
    /\ pend = [p \in Procs |-> 0]
    /\ lv = [p \in Procs |-> <<>>]
    /\ orphan = {}
    /\ faulted = {}
    /\ calls = [p \in Procs |-> 0]
    /\ crashes = 0

(* Every process has closed and has no calls left. *)
Finished ==
  /\ \A p \in Procs : ph[p] = "closed" /\ calls[p] = MaxCalls
  /\ UNCHANGED vars

Step(p) ==
  \/ \E size \in Sizes : ProcAlloc(p, size)
  \/ \E o \in DOMAIN lv[p] : FreeLink(p, o)
  \/ FreePublish(p)
  \/ ProcCoalesce(p)
  \/ Segfault(p)
  \/ Kill(p)
  \/ \E mode \in {"sh", "ex"} : LockCall(p, mode)
  \/ Grant(p)
  \/ memfile_unlock(p)
  \/ OpenStat(p)
  \/ OpenExisting(p)
  \/ OpenCreate(p)
  \/ OpenHeader(p)
  \/ memfile_close(p)

Next == (\E p \in Procs : Step(p)) \/ Finished

(* A C call in progress runs to its end, and a blocked flock is granted   *)
(* once it stays grantable (weak fairness).  A caller holds a lock around  *)
(* a finite sequence of calls, so it releases it: between its calls        *)
(* memfile_unlock is enabled, but not in the middle of its own free, hence *)
(* strong fairness.                                                        *)
Fairness ==
  \A p \in Procs :
    /\ WF_vars(FreePublish(p))
    /\ WF_vars(OpenExisting(p)) /\ WF_vars(OpenCreate(p)) /\ WF_vars(OpenHeader(p))
    /\ WF_vars(Grant(p))
    /\ SF_vars(memfile_unlock(p))

Spec == Init /\ [][Next]_vars
FairSpec == Spec /\ Fairness
(***************************************************************************)
(* Properties                                                              *)
(***************************************************************************)
Phases == {"closed", "existing", "fresh", "created", "open"}
Locks  == {None, "sh", "ex"}

TypeOK ==
  /\ DOMAIN mem \subseteq 0 .. Core!U - 1
  /\ \A o \in DOMAIN mem : mem[o] \in 0 .. Core!U - 1
  /\ disk \in 0 .. Core!U - 1
  /\ ph \in [Procs -> Phases]
  /\ msize \in [Procs -> 0 .. Core!U - 1]
  /\ lk \in [Procs -> Locks] /\ want \in [Procs -> Locks]
  /\ pend \in [Procs -> 0 .. Core!U - 1]
  /\ \A p \in Procs : DOMAIN lv[p] \subseteq 0 .. Core!U - 1
  /\ orphan \subseteq 0 .. Core!U - 1
  /\ faulted \subseteq Procs
  /\ calls \in [Procs -> 0 .. MaxCalls] /\ crashes \in 0 .. MaxCrashes

(* Every block as [who, lo, hi): live in some process, on the free list,   *)
(* linked by a free in progress, or lost by a kill.                        *)
Extents ==
  LET Ext(who, lo) == [who |-> who, lo |-> lo, hi |-> lo + Word(mem, lo)]
  IN  UNION {{Ext(<<"live", p>>, o - Core!ALLOC_HDR) : o \in DOMAIN lv[p]} : p \in Procs}
      \cup {Ext(<<"free", 0>>, o) : o \in ToSet(Core!FreeList)}
      \cup {Ext(<<"pending", p>>, pend[p]) : p \in {q \in Procs : pend[q] # 0}}
      \cup {Ext(<<"orphan", 0>>, o) : o \in orphan}

(* Across processes that lock, grow the file, free, coalesce, close,       *)
(* reopen and are killed mid-call, no byte is owned twice: every block     *)
(* any process holds, every free node and every block a kill left behind   *)
(* lies in [HEADER_SIZE, allocated) and no two overlap.                    *)
NoOverlapMP ==
  /\ \A e \in Extents : Core!HEADER_SIZE <= e.lo /\ e.lo < e.hi /\ e.hi <= Core!Allocated
  /\ \A a, b \in Extents : a # b => (a.hi <= b.lo \/ b.hi <= a.lo)

(* A process blocked in memfile_lock_shared or memfile_lock_exclusive is   *)
(* eventually granted the lock (or killed), as long as holders release     *)
(* theirs and every process makes finitely many calls.                     *)
EveryWaiterGranted ==
  \A p \in Procs : want[p] # None ~> (lk[p] # None \/ ph[p] = "closed")

(* No process dereferences the NULL that memfile_ptr returns for an offset *)
(* at or past its own mapping.                                             *)
NoSegfault == faulted = {}

(* A file longer than 0 bytes that no process is still creating has a     *)
(* valid header, so that memfile_open of it succeeds.                      *)
Openable ==
  (disk > 0 /\ \A p \in Procs : ph[p] # "created") => Word(mem, 0) = Core!MagicWord

(***************************************************************************)
(* Refinement: with every process keeping to the lock convention, the      *)
(* shared file implements the single-handle Arena.  Each abstract offset   *)
(* is a claim: a process and a live offset it holds (a killed process's    *)
(* claims stay: its blocks stay allocated), so one block handed to two     *)
(* processes is two claims whose intervals must be apart.  Intervals are   *)
(* read from the allocation headers in `mem`.  A free's first store is the *)
(* abstract Free; its second store, a lock step, a grow's mremap or an     *)
(* open is an abstract stutter.                                            *)
(***************************************************************************)
Claims == UNION {{<<p, o>> : o \in DOMAIN lv[p]} : p \in Procs}

Abs == INSTANCE Arena WITH
         Base     <- Core!HEADER_SIZE,
         owned    <- [c \in Claims |->
                        [lo |-> c[2] - Core!ALLOC_HDR,
                         hi |-> c[2] - Core!ALLOC_HDR + Word(mem, c[2] - Core!ALLOC_HDR)]],
         contents <- <<>>

(* Whatever two processes interleave between their lock calls, the         *)
(* allocations of all of them together behave as one atomic arena: each   *)
(* handed-out interval is fresh and apart from every interval any process  *)
(* still holds, and no process's store ever moves or resizes a block       *)
(* another one holds.                                                      *)
MPArenaRefinement == Abs!Spec
====
