# TLA+ models of server-memory's memory-mapped arena allocator

This directory holds TLA+ models of the C allocator in `src/native/`. The models are checked with TLC:

- `memoryfile.h` and `memoryfile.c` are a persistent arena inside one mmap'ed file.
- `binding.c` is the N-API binding that exposes the arena to Node.js.

## 1. Inventory

### Components

| Component | Source | State it keeps | Operations |
|---|---|---|---|
| Layout / format | `memoryfile.h:22-43` | A packed header at offset 0 with `magic`, `version`, `file_size`, `allocated` and `free_list_head`. Each allocation has an 8-byte size header. A free node (`size`, `next`) sits inside each freed block. | (types only) |
| Mapping manager | `memoryfile.c:21-79, 250-321` | The handle's `fd`, `mmap_base`, `mmap_size` and `closed`. The size of the file on disk. | `memfile_open`, `memfile_ptr`, `memfile_ensure_space`, `memfile_remap`, `memfile_sync`, `memfile_close` |
| Allocator core | `memoryfile.c:85-228` | The header words and the free list, both stored in the mapped bytes. | `memfile_alloc` (first fit, then split or consume, then bump, growing if needed), `memfile_free` (push on the head), `memfile_coalesce` (sort, merge, relink) |
| Read / write helpers | `memoryfile.c:30-44` | None of their own; they copy bytes of the mapping. | `memfile_read`, `memfile_write` |
| Lock surface | `memoryfile.c:234-244` | A `flock` lock held on the open file description. | `memfile_lock_shared`, `memfile_lock_exclusive`, `memfile_unlock` |
| N-API binding | `binding.c` | A JS external that wraps `memfile_t*`. Its finalizer is `mf_release`. | One wrapper per operation, plus `stats`. Requests are converted with `get_u64`, which ignores `lossless`. |
| `memfile_refresh` | `memoryfile.h:75` | Declared only. | None: there is no definition. |

### How the components interact

- Every allocator operation reads and writes the header and the free nodes through `memfile_ptr`. That function returns NULL for offset 0 and for any offset at or beyond `mmap_size`.
- `memfile_alloc` calls `memfile_ensure_space`, which calls `memfile_remap`. That runs `ftruncate`, then `mremap`, then writes `file_size`.
- The binding calls each operation synchronously on the JS thread.
- Several processes may open the same file. They share its bytes through `MAP_SHARED`, but each keeps its own `mmap_size`. They are expected to serialise through the advisory `flock` calls, which the allocator never takes itself.

### What is hard here

- **Intrusive metadata.** Free nodes are written into freed bytes. A block smaller than a node, or a wrong size word, makes the allocator write over a neighbour.
- **u64 arithmetic.** The code checks nothing for overflow: not `size + 8`, not `allocated + needed`, and not `offset + len`.
- **Growth and its two-step failure.** `ftruncate` can succeed and `mremap` then fail.
- **Cross-process use.** Another process may grow the file while this handle's `mmap_size` is stale, and `memfile_refresh` does not exist.
- **Persistence.** Pages are written back in any order, and `msync` runs only on `sync`. `close` sets `closed` before calling `memfile_sync`, which then returns without syncing. A crash in `memfile_open`, after `ftruncate` but before the header reaches disk, leaves a file that every later open rejects.
- **Lifecycle.** The binding lets JS call any operation after `close`, and nothing but `sync` and `close` checks `closed`.

### Properties that make each component correct

- **Allocator core.**
  - No byte is owned twice: live blocks and free nodes are disjoint and lie in `[32, allocated)`.
  - The free list ends in 0, repeats no node, and every node can hold 16 bytes.
  - What a caller owns reads back: allocation headers and written payload are untouched.
  - `coalesce` keeps the same free bytes and leaves the list ascending with no two nodes adjacent.
- **Mapping manager.**
  - `32 <= allocated <= file_size <= mmap_size <= size on disk`.
  - Every access by a handle stays inside its own mapping, even after another process grows the file.
  - Reopening after `close` gives the same header.
- **Read / write.** A range that leaves the mapping is refused, even when `offset + len` overflows.
- **Locks.** Exclusive excludes everyone; shared excludes exclusive. With that discipline, two processes never corrupt the free list.
- **Binding / lifecycle.** No operation touches an unmapped mapping after `close`.

## 2. Plan

Modules, in order of importance:

1. **`MemFile`** (done). One handle's allocator core, growth included. Described in section 3.
2. **`Arena`** (done). The abstract allocator, described in section 3.
3. **`MultiProcess`** (done). N processes over one shared file, described in section 4.
4. **`Persistence`** (done). The page cache against the disk, described in section 6.
5. **`Binding`** (done). The handle lifecycle of `binding.c`, described in section 5.
6. **`Marshal`** (done). `get_u64`, the binding's argument conversion, described in section 5.

Runs and bounds are listed in the section of each module. Later runs will keep the same discipline: small request sizes whose totals exercise every branch, and a named arena bound.

## 3. Module `MemFile`: allocator core

### State

| Variable | Code |
|---|---|
| `mem` | The bytes of the mapping, as a sparse function from 8-aligned offsets to u64 words. A word never written is 0, as `ftruncate` leaves it. Words 8, 16 and 24 are `file_size`, `allocated` and `free_list_head`. Word 0 holds magic and version. |
| `mmap_size` | `mf->mmap_size` |
| `disk_size` | The length of the file after the last successful `ftruncate`. |
| `live`, `data` | Caller history. `live` holds the offsets `memfile_alloc` returned and not yet freed, each with the size written in its header. `data` holds the payload words written with `memfile_write`. |

Because header, nodes and payload share `mem`, a node written over a neighbour is modelled as exactly that write. The model reads values back in the same order the code does. For example, `new_free->next = free_block->next` is read after `new_free->size` has been written.

### Arithmetic

u64 and size_t arithmetic is done modulo `2^Width`. The code uses `Width = 64`. TLC cannot hold such integers, so the runs use `Width = 16`. The sizes a caller passes are small or within 20 of `2^Width`. So wrap-around happens at the same relative place as in the code, and nowhere else.

### Actions

| Action | Code it models |
|---|---|
| `memfile_alloc(size)` | The five outcomes of the whole call. `AllocReuse` is first fit, then split (`CanSplit`) or consume. `AllocBump` bumps inside the file. `AllocGrow` grows, then bumps. `AllocTruncateFails` and `AllocRemapFails` return 0 after a failed grow. |
| `memfile_free(p)` | Pushes the block on the free list. `FreeNull` is `memfile_free(0)`. |
| `memfile_coalesce` | `CoalesceNothing` covers the early returns. `CoalesceMerge` walks the list, runs the insertion sort (`InsertSorted`), the merge sweep (`MergeStep`) and the relink (`Rebuild`). |
| `memfile_write(p, v)` | One payload word written at an owned offset. |
| `Init` | `memfile_open` of a new file, with `initial_size < 96` replaced by 4096. |

The caller frees only offsets it owns: the spec makes a double free undefined.

### Abstract specification `Arena`

`Arena` states what the allocator promises without its machinery. A live offset names an interval `[lo, hi)` above `Base`:

- **Alloc** adds a fresh offset whose interval is apart from every owned interval, and moves nothing already owned.
- **Free** removes one offset.
- **Write** changes one offset's contents.

`MultiProcess` is checked against it (section 4). For one handle it is not checked separately. `live` and `data` there are history variables of the caller, so the refinement would follow from `NoOverlap` and `LiveIntact` in the states before and after each step, and would add nothing.

### Runs

| Run | Bounds | What it shows |
|---|---|---|
| `MCMemFile.cfg` (passes, 66k states) | Requests `alloc(1)` and `alloc(16)`, giving 16- and 24-byte blocks. A 96-byte file and a 96-byte arena. | Every interleaving of up to four blocks with splitting, consuming, frees in any order, coalescing and writes. A 24-byte block reused by a 16-byte request is consumed, because the remainder 8 is below 24. Checks `TypeOK`, `NoOverlap`, `FreeListWellFormed`, `LiveIntact` and `CoalesceSound`. |
| `MCMemFileGrow.cfg` (passes) | Requests 48 and 208 bytes, files of 96 or 4096 bytes, and a 256-byte arena. | Growth by doubling, and by `allocated + needed + 4096` when doubling is not enough. `ftruncate` and `mremap` failures are included. Checks `BoundsOrder` and `NoOverlap`. |
| `MCMemFileZero.cfg` (violation) | Requests `alloc(0)` and `alloc(1)`. | `alloc(0)` makes an 8-byte block. Freeing it writes the free node's `next` over the next block's allocation header, so `LiveIntact` fails after alloc(0), alloc(0), free. |
| `MCMemFileOverflow.cfg` (violation) | Request `alloc(-20n)` from JS. `Marshal!GetU64` turns it into `2^16 - 20`. | The total is `2^16 - 8`, which does not wrap. `allocated + total` at line 69 does wrap, to 24, which is below `file_size`, so the request "fits" without growing. The bump at line 144 then moves `allocated` from 32 back to 24, below the end of the header, and the returned block covers far more than the file. `NoOverlap` fails. A size within 15 of `2^Width`, which wraps the total itself (line 86), is not enumerated. |

### Bounds

Four blocks of two sizes is the smallest arena in which all of these happen:

- a split leaves a node between two live blocks;
- a consumed block;
- a coalesce of three neighbours.

A larger arena (112 bytes) passes 1.6M states without finishing in five minutes.

### Fairness

None. Every operation is a call by the single caller, and nothing has to happen eventually.

## 4. Module `MultiProcess`: processes, locks, open and close

`MultiProcess` composes several processes, each with its own handle on one file. It takes the layout and the pure allocator steps from `MemFile` through `INSTANCE` (`Core`, and `MF(p)` for `GrowSize`, which reads the caller's own `mmap_size`).

### State

| Variable | Code |
|---|---|
| `mem`, `disk` | The file's bytes (the page cache, shared by every `MAP_SHARED` mapping) and its length. |
| `ph[p]` | Where process `p` is in `memfile_open`: `"closed"`, `"existing"` or `"fresh"` after the `stat` at `memoryfile.c:256`, `"created"` after `ftruncate` and `mmap` of a fresh file, `"open"`. |
| `msize[p]` | `mf->mmap_size` of `p`'s handle (the `st_size` from `stat` until the `mmap`). |
| `lk[p]`, `want[p]` | The flock `p`'s descriptor holds, and the flock `p` is blocked in. |
| `pend[p]` | A free in progress: the node linked to the old head, not yet the head. |
| `lv[p]` | `p`'s live offsets (it keeps them across close and reopen: the file is persistent). |
| `orphan`, `faulted`, `calls`, `crashes` | Blocks stranded by a kill; processes killed by a NULL dereference; the two model bounds. |

### Actions

| Action | Code it models |
|---|---|
| `ProcAlloc(p, size)` | `memfile_alloc` by `p`: the outcomes of `MemFile`, with `p`'s own mapping in the growth. Enabled only when none of the nodes it walks and the offset it bumps at lies past `p`'s mapping (`AllocDerefs`). |
| `FreeLink(p, o)`, `FreePublish(p)` | `memfile_free`: lines 150-158, then line 160. |
| `ProcCoalesce(p)` | `memfile_coalesce` (the early returns change nothing). With `CanFail`, it can also take the branch where `malloc` of the temporary array returns NULL. The first store into the array then kills `p` (`Die`): this happens after the read-only counting walk and before any store into the file, so the file is unchanged and the kernel drops `p`'s lock. |
| `Segfault(p)` | One of those calls meets `memfile_ptr`'s NULL (`Ptr`) before it stores anything, and the kernel kills `p`. |
| `Kill(p)` | The process dies at any step. Its descriptor is closed, so its flock goes, and a linked-but-unpublished free node is stranded. |
| `LockCall(p, mode)`, `Grant(p)`, `memfile_unlock(p)` | The binding's lock wrappers over `flock`. A call for a mode `p` does not hold first drops what it holds, as `flock` conversion does, then blocks; the kernel grants it when `FlockCompatible`. |
| `OpenStat`, `OpenExisting`, `OpenCreate`, `OpenHeader` | `memfile_open`: the `stat`; the existing-file branch with `mmap` of `st_size` and the magic check; the fresh branch's `open(O_CREAT)`, `ftruncate` and `mmap`; its header stores. |
| `memfile_close(p)` | `closed` is set, so the `memfile_sync` it calls returns at once. Then `munmap` and `close`, which drops the flock. |

Callers follow the spec's convention and call `alloc`, `free` and `coalesce` only while holding the exclusive lock (`Mutator`). Under that lock the other calls are single steps. `free` alone is split, because a kill can fall between its two stores, and because the split shows what the lock protects.

### Refinement

`MPArenaRefinement` instances `Arena` with these substitutions:
- `owned` has one entry per claim `<<p, o>>`: a process `p` and a live offset `o` it holds. A killed process's claims stay, because its blocks stay allocated. Each interval is read from its allocation header in the shared `mem`. A block handed to a second process while the first still holds it is therefore a new claim, and its interval must be apart from the first's.
- `contents` is empty, because no process writes payload in this model.

The first store of a free (`FreeLink`) is the abstract `Free`. `FreePublish`, the lock steps, the open steps and a kill are abstract stutters. The property says that the lock convention makes several processes indistinguishable from one atomic allocator. If two exclusive locks could be held at once (`FlockCompatible_sameMode`), it fails.

### Runs

| Run | Bounds | What it shows |
|---|---|---|
| `MCMultiProcess.cfg` (passes, 105k states) | Two processes, an existing 96-byte file, `alloc(40)` (48-byte blocks), a 192-byte arena, two opens or lock calls per process, one kill. | `NoOverlapMP`: across locking, growth by either process, frees, coalesces, close, reopen and a kill mid-free, no byte is owned twice. `MPArenaRefinement`: all the processes together implement the single-handle `Arena` of section 3. Every interval handed out to a process is fresh and apart from every interval any process, itself or another, holds, and no process's store moves or resizes a block another process holds. Stale-mapping faults happen here too, and the remaining process carries on, as it does after a coalesce whose `malloc` failed. |
| `MCMultiProcessLive.cfg` (passes, 417k states, 87 s) | As above, but with no file at start, a 128-byte arena and three calls per process, so a process can take a shared lock and then convert it to exclusive. | `EveryWaiterGranted` under `FairSpec`. |
| `MCMultiProcessStale.cfg` (violation) | As `MCMultiProcess.cfg`. | `NoSegfault`: `p1` grows the file to 192 while `p2`'s mapping stays 96. Under the exclusive lock, `p2`'s next `alloc` bumps at 128 because `ensure_space` compares with the header's `file_size`, not its own `mmap_size`, so `memfile_ptr` returns NULL. |
| `MCMultiProcessOpenRace.cfg` (violation) | No file at start. | `NoOverlapMP`: both processes see no file at `stat`. The second one's header stores set `allocated` back to 32 under the first one's live block. |
| `MCMultiProcessBrick.cfg` (violation) | No file at start. | `Openable`: a kill between `ftruncate` and the header stores leaves a non-empty file with no magic. From then on every open takes the existing-file branch and fails. |

### Bounds

- Two processes are enough for every interaction here: one grows, one is stale; one frees, one allocates; one holds, one waits.
- 48-byte blocks in a 96-byte file give one block before the first growth. That growth doubles to 192. So a stale 96-byte mapping meets a bump at 128.
- `MaxCalls = 2` gives each process an open and a lock call, or two opens (a reopen after close or kill). `MaxCrashes = 1`. With `MaxCalls = 3` the mp_locked properties also hold (1.2M distinct states, 2 min 39 s), but each of the run's mutants would cost as much, so the kept bound is 2. The liveness run takes `MaxCalls = 3`: an open and two lock calls, which include the conversion of a held shared lock to exclusive.

### Fairness

`FairSpec` assumes the following:

- **Weak fairness of `Grant(p)`.** The kernel wakes a blocked `flock` when the conflicting lock goes, and grants it if it is still grantable.
- **Weak fairness of the later steps of `memfile_open` and of `FreePublish`.** A C call in progress runs to its end; nothing in it blocks.
- **Strong fairness of `memfile_unlock(p)`.** This is the caller's side of the convention: a lock is held around a finite sequence of calls. `memfile_unlock` is disabled in the middle of the holder's own two-step `free`, so weak fairness would let a holder that frees forever never release.

With `MaxCalls`, no process asks for the lock infinitely often. So the check does not cover starvation by a stream of shared holders, which `flock` does not prevent.

## 5. Module `Binding`: JS handles, close and the finalizer

`Binding.tla` models one Node.js process that holds handles made by `n_memfile_open` (`binding.c:62-85`). `MCBinding.tla` instantiates it with two handles `a` and `b`, two files, descriptor numbers `{3, 4}`, and two address ranges.

### State

- `hs[h]`: `"none"`, `"open"`, `"closed"` (after `n_memfile_close`), or `"released"` (after the finalizer `mf_release`).
- `hfd[h]` and `hbase[h]`: `mf->fd` and `mf->mmap_base`. `memfile_close` (`memoryfile.c:314-321`) keeps both after closing them.
- `fdtab`: the kernel's descriptor table, from number to the open file description (named by the handle whose open made it).
- `maps`: from address range to the file mapped there.
- `lockd`: the flock each description holds.
- Ghosts: `foreign` (handles whose call fell on another handle's file, mapping or lock) and `segv`.

The allocator inside a call is abstracted. `MemFile` and `MultiProcess` model it. Here a call is one access through `mf->mmap_base` (`Deref`). For `alloc` it may instead be a remap (`AllocRemap`), which moves whatever is mapped at that base.

### Actions

- `n_memfile_open(h, f)` takes the lowest free descriptor, as `open(2)` does, and any free address range.
- `n_memfile_close(h)` and `mf_release(h)` both call `memfile_close`. It does nothing once `closed` is set. Otherwise it unmaps, closes the descriptor and so drops that description's flock.
- `n_memfile_alloc`, `free`, `coalesce`, `read`, `write` and `stats` run on an open handle, and on a closed one when `CallsAfterClose` holds. None of them checks `closed`.
- `n_memfile_sync(h)` is the only call besides `close` that tests `closed`. It changes nothing modelled here.
- `n_memfile_flock(h, mode)` covers `lockShared`, `lockExclusive` and `unlock`. On a closed number it fails with EBADF and the wrapper throws. Otherwise it acts on whichever description now holds the number.
- `Stopped`: the process died of a segfault, or every handle has been finalized.

### Run

`MCBinding.cfg` (violation) checks `NoForeignEffect`: a call on a handle touches only that handle's own mapping and lock. The trace is: open `a`, close `a`, open `b`. `b` gets descriptor 3 and `a`'s old address range, and `a`'s next `write` lands in `b`'s mapping without any error. With nothing mapped at the old base, the same call faults instead (`segv`, the `Stopped` state). Spec 4.5 says these operations require Open.

The `closed` test in `memfile_close` is what keeps the finalizer from closing a descriptor number a later open has received. Without it, `mf_release` after `n_memfile_close` would close `b`'s descriptor.

### Argument conversion

`Marshal.tla` models `get_u64`:
- A BigInt yields its low Width bits, so `-20n` wraps near 2^Width.
- A Number makes `napi_get_value_bigint_uint64` fail, and the ignored status leaves `result` uninitialised: any value.

`MCMemFile` draws the sizes of the overflow run from it.

### Bounds and fairness

Two handles, two numbers and two ranges are the least that lets a later open reuse what a closed handle still names. Two files let the reused range belong to another file. No fairness is assumed: the properties are safety properties, and a JS program need not call anything.

## 6. Module `Persistence`: page cache, msync, power loss and reopen

`Persistence.tla` models one handle, the file's page cache and the file's words on disk. The handle's allocator calls are MemFile's actions, taken whole through `H == INSTANCE MemFile`, on an open handle (`Call`). `MemFile`'s `mem` is the page cache, because the mapping is `MAP_SHARED`.

### State and actions

- `disk`: the words that have reached the disk.
- `WriteBack`: the kernel writes one dirty page back, at any time and in any order.
- `memfile_sync` (`memoryfile.c:309-312`) copies every page of `mf->mmap_size` to the disk. `memfile_close` (`314-321`) sets `closed` first, so its call to `memfile_sync` returns at line 310, and it only unmaps. Its dirty pages stay in the page cache for write-back.
- `PowerLoss`: the cache becomes what is on the disk. The handle and the caller's offsets are gone.
- `OpenExisting` (`258-272`): `st_size > 0`; it maps the file if the magic matches. `OpenFresh` (`273-296`): `ftruncate`, `mmap` and the header stores, or a failure that leaves no usable file.
- Word 0 stands for the pair (magic, version). A word `v > 0` is the magic `MEMF` with version `v`.
- The file's length counts as durable once `ftruncate` returns. This is a simplification: a power loss that keeps a header page but not the size update is not modelled.

### Runs

| Run | Bounds | What it shows |
|---|---|---|
| `MCPersistence.cfg` (passes, 508k states, 94 s) | No file or a version-1 file of 96 bytes at start, `alloc(40)` (48-byte blocks, the second one grows the file to 192), 48-byte pages, a 128-byte arena, three opens (so a close and a reopen can come before the power loss, and a reopen after it), one power loss. | `SyncedDurable`: whenever nothing was stored since the last `memfile_sync`, every word of the file is on the disk. This holds through write-back in any order, growth, close, power loss and reopen. An `msync` of the header struct only breaks it. |
| `MCPersistenceClose.cfg` (violation) | As above, with two opens. | `ClosedDurable`: spec 4.1 and 4.5 say `close` performs `msync(MS_SYNC)`, so a closed file should be on the disk. The trace is a fresh open, then a close: the header stores are still only in the page cache. A power loss before write-back would leave `initial_size` zero bytes, which every later open rejects. |

`memfile_open` compares only the magic and never reads `version` (`memoryfile.c:269`), though spec 5 says an implementation must refuse a version it does not implement. With `Versions = {2}` the model opens such a file in one step. A unit test shows this as easily, so no run is spent on it.

48-byte pages put the header and the two blocks' headers in three different pages, so write-back can persist any one of them without the others. The spec disclaims consistency after a crash in the middle of a sequence of calls, so the run asks only what `msync` promises. No fairness is assumed.

## 7. Read and write helpers

No module checks `memfile_read` and `memfile_write` (`memoryfile.c:30-44`) beyond `MemFile`'s one-word `memfile_write` at an owned offset. Reading their tests against spec 4.3 shows two disagreements:

- `offset + len > mmap_size` is computed in u64. With an offset inside the mapping and `len >= 2^64 - offset`, the sum wraps, the test passes, and the `memcpy` runs past the mapping. Spec 4.3 says the test has overflow safety. The binding does not reach this case: `napi_create_buffer` of such a length fails first, and `write` passes the length of a real Buffer.
- `read(mmap_size, 0)` fails in `memfile_ptr` (`offset >= mmap_size`), although spec property 8 says it succeeds.

## 8. Not modelled

See `PROJECT.json` under `components` and `hazards`.

The following are out of TLC's reach and stay out:

- `calloc` or `strdup` returning NULL in `memfile_open`. The first makes `memfile_open` return NULL before it touches the file, which the open failure branches already cover. The second passes NULL to `free` and nothing else. `malloc` returning NULL in `memfile_coalesce` is modelled (see `ProcCoalesce`).
- `memfile_refresh` (`memoryfile.h:75`). It is declared but has no definition in `src/`, and nothing calls it; spec.md leaves its meaning open. The gap it was meant to fill, a handle whose mapping is shorter than a file grown by another process, is what `mp_stale_mapping` shows.
- The `unlink(path)` at `memoryfile.c:287`, after `mmap` fails on a fresh file, together with the difference between a path and an open file. The model keeps a single file. An `unlink` of a file that another process created and still uses during the open race (`mp_open_race`) would need one file per inode.
- A Number argument to `get_u64` (`binding.c:34-39`, modelled in `Marshal.tla`) may yield any u64. The runs enumerate only BigInt arguments.
- Two handles of one file in one process, with conflicting flocks: the second call blocks the only JS thread for good. The model leaves out a hang that nothing can end.
- The raw pointers callers may keep from `memfile_ptr`. No code in this repository keeps one across a call.
