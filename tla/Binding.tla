------------------------------- MODULE Binding -------------------------------
(***************************************************************************)
(* The handle lifecycle of src/native/binding.c in one Node.js process.    *)
(*                                                                         *)
(* A JS handle wraps a memfile_t.  memfile_close sets mf->closed, unmaps   *)
(* and closes the descriptor, but keeps mf->mmap_base and mf->fd; only     *)
(* memfile_sync and memfile_close test mf->closed.  The kernel hands a     *)
(* freed descriptor number to the next open (the lowest free one) and may  *)
(* hand a freed address range to the next mmap, so what a closed handle's  *)
(* stale base and fd reach depends on what was opened since.               *)
(*                                                                         *)
(* The allocator's own state is abstracted away (MemFile models it): a     *)
(* call is an access through mf->mmap_base, a flock through mf->fd, or, in *)
(* memfile_alloc, possibly a remap that moves the mapping at mf->mmap_base.*)
(* An open file description is named by the handle whose open created it. *)
(***************************************************************************)
EXTENDS Integers, FiniteSets, FiniteSetsExt, TLC

CONSTANTS
  Handles,          \* JS handles the program may create
  Files,            \* paths it may open
  Fds,              \* descriptor numbers free for it, a set of naturals
  Addrs,            \* address ranges mmap may choose from
  CallsAfterClose   \* whether the JS program calls on a closed handle

ASSUME Fds \subseteq Nat /\ CallsAfterClose \in BOOLEAN

None == "none"

VARIABLES
  hs,       \* "none" (not created), "open", "closed" or "released" (finalized)
  hfile,    \* the path a handle opened
  hfd,      \* mf->fd
  hbase,    \* mf->mmap_base
  fdtab,    \* descriptor number -> open file description, or None
  maps,     \* address -> file mapped there, or None
  lockd,    \* open file description -> flock it holds
  foreign,  \* ghost: calls whose effect fell on another handle's resources
  segv      \* ghost: a call touched an unmapped address

vars == <<hs, hfile, hfd, hbase, fdtab, maps, lockd, foreign, segv>>

FreeFds == {n \in Fds : fdtab[n] = None}
FreeAddrs == {a \in Addrs : maps[a] = None}

(* A call the JS program may make on h. *)
Callable(h) == hs[h] = "open" \/ (CallsAfterClose /\ hs[h] = "closed")

(***************************************************************************)
(* n_memfile_open: memfile_open, then napi_create_external with mf_release *)
(* as finalizer.  open() takes the lowest free descriptor; mmap any free   *)
(* range.                                                                  *)
(***************************************************************************)
n_memfile_open(h, f) ==
  /\ hs[h] = "none"
  /\ FreeFds # {} /\ FreeAddrs # {}
  /\ \E a \in FreeAddrs :
       LET n == Min(FreeFds)
       IN  /\ hs' = [hs EXCEPT ![h] = "open"]
           /\ hfile' = [hfile EXCEPT ![h] = f]
           /\ hfd' = [hfd EXCEPT ![h] = n]
           /\ hbase' = [hbase EXCEPT ![h] = a]
           /\ fdtab' = [fdtab EXCEPT ![n] = h]
           /\ maps' = [maps EXCEPT ![a] = f]
           /\ lockd' = [lockd EXCEPT ![h] = None]
  /\ UNCHANGED <<foreign, segv>>

(***************************************************************************)
(* memfile_close: a no-op once closed; else msync, munmap(mf->mmap_base),  *)
(* close(mf->fd), which drops the description's flock.                    *)
(***************************************************************************)
CloseEffects(h) ==
  LET d == fdtab[hfd[h]]
  IN  /\ maps' = [maps EXCEPT ![hbase[h]] = None]
      /\ fdtab' = [fdtab EXCEPT ![hfd[h]] = None]
      /\ lockd' = IF d = None THEN lockd ELSE [lockd EXCEPT ![d] = None]

memfile_close(h, after) ==
  /\ IF hs[h] = "open" THEN CloseEffects(h) ELSE UNCHANGED <<maps, fdtab, lockd>>
  /\ hs' = [hs EXCEPT ![h] = after]

n_memfile_close(h) ==
  /\ hs[h] \in {"open", "closed"}
  /\ memfile_close(h, "closed")
  /\ UNCHANGED <<hfile, hfd, hbase, foreign, segv>>

(* mf_release: the finalizer, once the JS handle is unreachable. *)
mf_release(h) ==
  /\ hs[h] \in {"open", "closed"}
  /\ memfile_close(h, "released")
  /\ UNCHANGED <<hfile, hfd, hbase, foreign, segv>>
(***************************************************************************)
(* Calls through mf->mmap_base.  An address nothing is mapped at faults;   *)
(* one where another handle's file is mapped is used as if it were this    *)
(* handle's.  `writes` tells a call that stores from one that only loads.  *)
(***************************************************************************)
Deref(h, writes) ==
  LET g == maps[hbase[h]]
  IN  \/ /\ g = None
         /\ segv' = TRUE
         /\ UNCHANGED foreign
      \/ /\ g # None
         /\ foreign' = IF writes /\ hs[h] # "open" THEN foreign \cup {h} ELSE foreign
         /\ UNCHANGED segv

(* memfile_remap from memfile_alloc: ftruncate(mf->fd) succeeds and        *)
(* mremap(mf->mmap_base, ..., MREMAP_MAYMOVE) moves whatever is mapped     *)
(* there, perhaps in place.                                                *)
AllocRemap(h) ==
  LET a0 == hbase[h]
  IN  /\ maps[a0] # None
      /\ fdtab[hfd[h]] # None
      /\ \E a \in FreeAddrs \cup {a0} :
           /\ maps' = [maps EXCEPT ![a0] = None, ![a] = maps[a0]]
           /\ hbase' = [hbase EXCEPT ![h] = a]
      /\ foreign' = IF hs[h] # "open" THEN foreign \cup {h} ELSE foreign
      /\ UNCHANGED segv

Unchanged == UNCHANGED <<hs, hfile, hfd, fdtab, lockd>>

n_memfile_alloc(h) ==
  /\ Callable(h)
  /\ \/ Deref(h, TRUE) /\ UNCHANGED <<hbase, maps>>
     \/ AllocRemap(h)
  /\ Unchanged

(* A non-zero offset; memfile_free(0) returns before any access. *)
n_memfile_free(h) == Callable(h) /\ Deref(h, TRUE) /\ UNCHANGED <<hbase, maps>> /\ Unchanged

n_memfile_coalesce(h) == Callable(h) /\ Deref(h, TRUE) /\ UNCHANGED <<hbase, maps>> /\ Unchanged

(* The bounds check uses mf->mmap_size, which close leaves as it was. *)
n_memfile_write(h) == Callable(h) /\ Deref(h, TRUE) /\ UNCHANGED <<hbase, maps>> /\ Unchanged

n_memfile_read(h) == Callable(h) /\ Deref(h, FALSE) /\ UNCHANGED <<hbase, maps>> /\ Unchanged

n_memfile_stats(h) == Callable(h) /\ Deref(h, FALSE) /\ UNCHANGED <<hbase, maps>> /\ Unchanged

(* memfile_sync tests mf->closed, as memfile_close does: on a closed      *)
(* handle it returns; on an open one its msync changes nothing modelled   *)
(* here.                                                                   *)
n_memfile_sync(h) == Callable(h) /\ UNCHANGED vars

(***************************************************************************)
(* flock(mf->fd): EBADF on a closed number (the wrapper throws), else it   *)
(* acts on whichever description holds that number now.  Descriptions of  *)
(* one file conflict with each other even within one process; a conflict   *)
(* would block the only JS thread for good, so it is left out.             *)
(***************************************************************************)
Holders(d) == {e \in Handles : \E n \in Fds : fdtab[n] = e /\ hfile[e] = hfile[d]}

FlockCompatible(d, mode) ==
  \A e \in Holders(d) \ {d} : lockd[e] = None \/ (mode = "sh" /\ lockd[e] = "sh")

FlockOn(h, mode) ==
  LET d == fdtab[hfd[h]]
  IN  \/ /\ d = None
         /\ UNCHANGED <<lockd, foreign>>
      \/ /\ d # None
         /\ mode = None \/ FlockCompatible(d, mode)
         /\ lockd' = [lockd EXCEPT ![d] = mode]
         /\ foreign' = IF d # h THEN foreign \cup {h} ELSE foreign

(* n_memfile_lock_shared, n_memfile_lock_exclusive, n_memfile_unlock. *)
n_memfile_flock(h, mode) ==
  /\ Callable(h)
  /\ FlockOn(h, mode)
  /\ UNCHANGED <<hs, hfile, hfd, hbase, fdtab, maps, segv>>

(***************************************************************************)
(* Specification                                                           *)
(***************************************************************************)
Init ==
  /\ hs = [h \in Handles |-> "none"]
  /\ hfile = [h \in Handles |-> None]
  /\ hfd = [h \in Handles |-> 0]
  /\ hbase = [h \in Handles |-> None]
  /\ fdtab = [n \in Fds |-> None]
  /\ maps = [a \in Addrs |-> None]
  /\ lockd = [h \in Handles |-> None]
  /\ foreign = {}
  /\ segv = FALSE

(* The process has died, or every handle has been finalized. *)
Stopped ==
  /\ segv \/ \A h \in Handles : hs[h] = "released"
  /\ UNCHANGED vars

Next ==
  \/ /\ ~segv
     /\ \E h \in Handles :
          \/ \E f \in Files : n_memfile_open(h, f)
          \/ n_memfile_close(h)
          \/ mf_release(h)
          \/ n_memfile_alloc(h)
          \/ n_memfile_free(h)
          \/ n_memfile_coalesce(h)
          \/ n_memfile_write(h)
          \/ n_memfile_read(h)
          \/ n_memfile_stats(h)
          \/ n_memfile_sync(h)
          \/ \E mode \in {"sh", "ex", None} : n_memfile_flock(h, mode)
  \/ Stopped

Spec == Init /\ [][Next]_vars

(***************************************************************************)
(* Properties                                                              *)
(***************************************************************************)
(* A call on a handle touches only that handle's mapping and lock: none  *)
(* stores into, remaps or locks what a later open gave another handle    *)
(* (spec 4.5: any mutating or read/write op requires Open).             *)
NoForeignEffect == foreign = {}
====
