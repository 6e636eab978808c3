----------------------------- MODULE Persistence -----------------------------
(***************************************************************************)
(* One handle on the file, its page cache and the file on disk.            *)
(*                                                                         *)
(* The mapping is MAP_SHARED: the allocator's stores (`mem`, as in         *)
(* MemFile) are stores into the page cache.  The kernel writes a dirty     *)
(* page back at any time, one page at a time and in any order; msync      *)
(* (memfile_sync; memfile_close calls it only after setting closed, so   *)
(* it returns at once) writes back every page of                          *)
(* the mapping.  A power loss drops the page cache: what is on `disk` is   *)
(* what the next memfile_open maps.  The file's length is taken as         *)
(* durable once ftruncate returns.                                         *)
(*                                                                         *)
(* The handle's allocator calls are MemFile's actions, whole, on an open   *)
(* handle.  The caller keeps its offsets across close and reopen, and      *)
(* loses them with the power.                                              *)
(***************************************************************************)
EXTENDS Integers, FiniteSets, TLC

CONSTANTS
  Width, InitialSizes, Sizes, Data, CanFail, MaxArena,   \* as in MemFile
  PageSize,      \* bytes per page of write-back (a multiple of 8)
  Versions,      \* format versions the file at start may have been written in; 0: no file
  MaxOpens,      \* model bound: memfile_open calls
  MaxCrashes     \* model bound: power losses

ASSUME /\ PageSize \in Nat /\ PageSize % 8 = 0 /\ PageSize > 0
       /\ Versions \subseteq Nat
       /\ MaxOpens \in Nat /\ MaxCrashes \in Nat

VARIABLES
  mem, mmap_size, disk_size, live, data,   \* as in MemFile; mem is the page cache
  disk,      \* the words that are on the disk
  ph,        \* "open" or "closed"
  clean,     \* ghost: no store into the cache since the last memfile_sync (or power loss)
  opens,     \* memfile_open calls so far
  crashes    \* power losses so far

vars == <<mem, mmap_size, disk_size, live, data, disk, ph, clean, opens, crashes>>

H == INSTANCE MemFile

Word(m, o) == H!Word(m, o)

(* Word 0 holds the u32 magic and the u32 version.  A word v > 0 stands    *)
(* for the magic MEMF with version v, so MagicWord (v = 1) is what this    *)
(* code writes; 0 is a file of zero bytes.                                 *)
HeaderWord(v) == v
MagicOK(w) == w > 0

(***************************************************************************)
(* Pages                                                                   *)
(***************************************************************************)
Page(o) == o \div PageSize

(* m with the words of the pages in ps taken from src. *)
CopyPages(m, src, ps) ==
  [o \in {x \in DOMAIN m : Page(x) \notin ps} \cup {x \in DOMAIN src : Page(x) \in ps} |->
     IF Page(o) \in ps THEN src[o] ELSE m[o]]

Dirty(k) == \E o \in DOMAIN mem \cup DOMAIN disk : Page(o) = k /\ Word(mem, o) # Word(disk, o)

(* Kernel write-back of one dirty page of the file. *)
WriteBack ==
  \E k \in 0 .. (disk_size - 1) \div PageSize :
    /\ Dirty(k)
    /\ disk' = CopyPages(disk, mem, {k})
    /\ UNCHANGED <<mem, mmap_size, disk_size, live, data, ph, clean, opens, crashes>>

(***************************************************************************)
(* The allocator calls of MemFile on the open handle.                      *)
(***************************************************************************)
Call ==
  /\ ph = "open"
  /\ \/ \E size \in Sizes : H!memfile_alloc(size)
     \/ \E p \in DOMAIN live : H!memfile_free(p)
     \/ H!memfile_coalesce
     \/ \E p \in DOMAIN live, v \in Data : H!memfile_write(p, v)
  /\ clean' = (clean /\ mem' = mem)
  /\ UNCHANGED <<disk, ph, opens, crashes>>

(***************************************************************************)
(* memfile_sync and memfile_close                                          *)
(***************************************************************************)
(* Mutant: msync(mf->header, sizeof(memfile_header_t)). *)
MsyncPages_header == 0 .. (H!HEADER_SIZE - 1) \div PageSize

(* msync(mf->mmap_base, mf->mmap_size, MS_SYNC). *)
MsyncPages == 0 .. (mmap_size - 1) \div PageSize

memfile_sync ==
  /\ ph = "open"
  /\ disk' = CopyPages(disk, mem, MsyncPages)
  /\ clean' = TRUE
  /\ UNCHANGED <<mem, mmap_size, disk_size, live, data, ph, opens, crashes>>

(* mf->closed = 1, then memfile_sync, which returns at once as closed is   *)
(* set, then munmap and close(fd): no msync.  The dirty pages stay in the  *)
(* page cache, for write-back.  The caller keeps its offsets for a reopen. *)
memfile_close ==
  /\ ph = "open"
  /\ ph' = "closed"
  /\ mmap_size' = 0
  /\ UNCHANGED <<mem, disk_size, live, data, disk, clean, opens, crashes>>

(***************************************************************************)
(* memfile_open                                                            *)
(***************************************************************************)
OpenCall ==
  /\ ph = "closed"
  /\ opens < MaxOpens
  /\ opens' = opens + 1
  /\ UNCHANGED crashes

(* stat finds st_size > 0: open, mmap st_size, check the magic. *)
OpenExisting ==
  /\ OpenCall
  /\ disk_size > 0
  /\ \/ /\ MagicOK(Word(mem, 0))
        /\ ph' = "open"
        /\ mmap_size' = disk_size
     \/ /\ ~MagicOK(Word(mem, 0)) \/ CanFail
        /\ UNCHANGED <<ph, mmap_size>>
  /\ UNCHANGED <<mem, disk_size, live, data, disk, clean>>

(* No file, or an empty one: ftruncate, mmap, header stores.  ftruncate    *)
(* failing leaves an empty file; mmap failing unlinks it.                  *)
OpenFresh ==
  /\ OpenCall
  /\ disk_size = 0
  /\ \/ \E initial \in InitialSizes :
          LET sz == H!OpenSize(initial)
          IN  /\ disk_size' = sz
              /\ mmap_size' = sz
              /\ mem' = (0 :> H!MagicWord) @@ (H!FILE_SIZE :> sz)
                          @@ (H!ALLOCATED :> H!HEADER_SIZE) @@ (H!FREE_LIST_HEAD :> 0)
              /\ ph' = "open"
              /\ clean' = FALSE
     \/ /\ CanFail
        /\ UNCHANGED <<mem, mmap_size, disk_size, ph, clean>>
  /\ UNCHANGED <<live, data, disk>>

(***************************************************************************)
(* A power loss: the page cache is gone, and with it the process and the   *)
(* offsets it held.  The next open maps what is on the disk.               *)
(***************************************************************************)
PowerLoss ==
  /\ crashes < MaxCrashes
  /\ crashes' = crashes + 1
  /\ mem' = disk
  /\ ph' = "closed"
  /\ mmap_size' = 0
  /\ live' = <<>>
  /\ data' = <<>>
  /\ clean' = TRUE
  /\ UNCHANGED <<disk_size, disk, opens>>

(***************************************************************************)
(* Specification                                                           *)
(***************************************************************************)
FileAtStart(v, initial) ==
  LET sz == H!OpenSize(initial)
  IN  (0 :> HeaderWord(v)) @@ (H!FILE_SIZE :> sz)
        @@ (H!ALLOCATED :> H!HEADER_SIZE) @@ (H!FREE_LIST_HEAD :> 0)

Init ==
  \E v \in Versions, initial \in InitialSizes :
    /\ disk = IF v = 0 THEN <<>> ELSE FileAtStart(v, initial)
    /\ disk_size = IF v = 0 THEN 0 ELSE H!OpenSize(initial)
    /\ mem = disk
    /\ mmap_size = 0
    /\ live = <<>>
    /\ data = <<>>
    /\ ph = "closed"
    /\ clean = TRUE
    /\ opens = 0
    /\ crashes = 0

(* The handle is closed and no opens are left. *)
Finished ==
  /\ ph = "closed" /\ opens = MaxOpens
  /\ UNCHANGED vars

Next ==
  \/ Call
  \/ memfile_sync
  \/ memfile_close
  \/ OpenExisting
  \/ OpenFresh
  \/ WriteBack
  \/ PowerLoss
  \/ Finished

Spec == Init /\ [][Next]_vars

(***************************************************************************)
(* Properties                                                              *)
(***************************************************************************)
(* What memfile_sync promises (spec 4.4): once it returns, and until the   *)
(* next store, every word of the file is on the disk, so a power loss and  *)
(* a reopen give back the same header and the same payload, whatever pages *)
(* the kernel had written back and in whatever order, and however the file *)
(* grew since the previous msync.                                          *)
SyncedDurable ==
  clean => \A o \in DOMAIN mem \cup DOMAIN disk : Word(mem, o) = Word(disk, o)

(* What the spec says of memfile_close (4.1 close contract, 4.5): close    *)
(* performs msync(MS_SYNC) before it unmaps, so while the handle is closed *)
(* every word the caller stored through it is on the disk.                 *)
ClosedDurable ==
  ph = "closed" => \A o \in DOMAIN mem \cup DOMAIN disk : Word(mem, o) = Word(disk, o)

====
