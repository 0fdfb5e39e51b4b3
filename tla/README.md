# TLA+ models of IMPACT's mesh utilities, semaphore and descriptor streams

This directory holds TLA+ models of the parts of the IMPACT source that have
state and control worth model-checking. They are checked with TLC. Every
module is translated from the code. `PROJECT.json` maps each definition to
the lines it models and lists the runs, the mutants, the findings and the
hazards.

## 1. Inventory

| Part | Source | State | Operations |
|---|---|---|---|
| Extent | `src/SolverUtils/include/BSMesh.H` `BSExtent<T>` | the bounds (a vector of `[lo,hi]` pairs), `_nd`, `_N` (sizes), `_Np` (strides) | 3 constructors, `Init`, `destroy`, `Sync`; the queries `NNodes`, `ND`, `Flatten` |
| Flattener | same, `dir_loop`, `GetFlatIndices` | the caller's `indices` vector | recursive stride walk over the dimensions of a query extent |
| Overlap engine | same, `Overlap`, `FindSharedNodes` | a caller's pool of extents, and the output vectors `shared_extents` and `neighbors` | the per-dimension endpoint test, the region, the scan over the pool |
| Converter | same, `CreateUnstructuredMesh` | the `Connectivity` receiving elements | lower-left region, `mesh_nd`, row and plane offsets, one element per cell |
| NodeNum | same, `NodeNum` | `l0`, a `size_t` counter `i` | a countdown over the dimensions |
| Semaphore | `src/SimIO/src/Sync.C` | `m_count`, `m_maxcount`, `m_isOk`, the mutex and the condition with their sleepers | constructor, `Wait`, `TryWait`, `Post` (and `Mutex`/`Condition` below them) |
| fd streams | `src/SolverUtils/include/FDUtils.H` `fdoutbuf`/`fdinbuf` | the buffer, the get-area pointers, `fd` | `fdinbuf(fd)`, `Init`, `underflow`; `overflow`, `xsputn` on the write side |
| InProcess | same | `_file_object`, the children started by `popen`, the stream's get area | constructors, `Execute`, `Finalize`, destructor, reads |
| FDSetMan | same | the descriptor lists, the `fd_set`s, `max_descriptor` | `Add*`, `Set*`, `Clear*`, `Zero`, `SetFor*`, `Select`, `ListenFor*` |
| meshgen2d | `src/SolverUtils/src/MeshUtils.C` | the flag, sizes, nodes, the counters `nElem`, `nCount`, `eCounter`, `cCount`, `cIndex`, the connectivity | reading the grid sizes, the node loop, and the loops that build quads, triangles or four triangles round centroids |

How the parts interact:
- `CreateUnstructuredMesh` calls `GetFlatIndices` on its own lower-left extent and reads the member `_N`, which only `Sync()` keeps current.
- `FindSharedNodes` calls `Overlap` once per pool entry.
- The extents `Overlap` writes are never `Sync()`ed.
- Threads share a `Semaphore` only through its mutex and condition. Each public method is one critical section.
- `InProcess` is an `fdistream` whose `fdinbuf` reads the pipe of the current `popen`. `Execute` switches the pipe with `fdinbuf::Init`.
- `FDSetMan` only holds descriptors. Readiness comes from peers outside the process.
- An `fdostream` and an `fdistream` on the two ends of a pipe share only the pipe. The reader's `underflow` blocks in `read(2)` until the writer's `write(2)` calls have put bytes there, or the write end is closed.

Hard behaviours:
- In the semaphore:
  - Waiters are woken spuriously or in groups, and race with `TryWait` for the token.
  - A signal may be lost.
  - The constructor can misbehave on invalid arguments.
  - `pthread_mutex_init` or `pthread_cond_init` may fail, leaving the critical sections unprotected.
- In the extent code:
  - Unsigned arithmetic wraps.
  - `_N` can be stale.
  - Output vectors reused across calls are not all cleared.
  - The overlap test is asymmetric.
- In the descriptor code:
  - `underflow` copies putback bytes before the read that may fail.
  - Short reads make the memcpy ranges overlap.
  - `pclose` is reached on every path of an `InProcess`.
  - `select` examines only descriptors below `max_descriptor + 1`.
  - `write(2)` on a pipe may be cut short or fail, and `xsputn` passes its count on unchecked.

## 2. Modules

- **`BSExtentOps`**: the index arithmetic as pure operators. It contains `Sizes`, `Strides` (`Sync`), `DirLoop` (RECURSIVE, `dir_loop`), `GetFlatIndices`, `OverlapMatchDim`, `OverlapMatch`, `OverlapRegion` (`Overlap`), and `LowerLeft`, `MeshND`, `RowOffset`, `PlaneOffset`, `Element`, `MeshElements` (`CreateUnstructuredMesh`). Its second half holds the reference definitions of `spec.md`, written without strides or recursion:
  - `RefNodeNumber`, the first-dimension-fastest node number as a sum of size products;
  - `RefFlatIndices`;
  - `Intersection`;
  - `RefCells` and `RefElements`, the cells of a block with their corners in spec order.
- **`BSExtent`**: a set of extent objects (`Slot`).
  - Actions: `Construct` (all constructors and `Init`, which end in `Sync`), `Destroy`, `GetFlatIndicesCall`, `CreateUnstructuredMeshCall`.
  - All of these keep `_N`/`_Np` synced, so the model holds only the bounds.
  - The guards are the code's asserts and the preconditions whose violation is undefined behaviour. Examples: `_nd == 3`, `mesh_nd > 1`, and a query with at least the dimensions of `*this`.
- **`ExtentPool`**: a pool of `PoolSize` extents, fixed after `Init`.
  - `FindSharedNodes(i)` models the whole method: `shared_extents` is cleared, `neighbors` is not, self is skipped by value, and each overlap object has `_nd = 0` and empty `_N` and `_Np`.
  - `FreshOutputs` is the caller starting from empty vectors.
  - `adj` records each subdomain's last answer.
- **`Semaphore`**: threads with `pc` "idle", "sleeping" (in `pthread_cond_wait`) or "woken" (back and contending for the mutex).
  - Each critical section is one action: `Wait` (first loop test), `WaitRetest` (later loop tests), `TryWait`, `Post` (with `Condition::Signal`, which wakes a nonempty subset of the sleepers), and `SpuriousWakeup`.
  - `Init` models the constructor: invalid arguments give `m_count` and `m_maxcount` a value from `Garbage`, because they are read uninitialized.
  - It is the abstract specification that `SemaphoreImpl` implements. No run checks it on its own.
- **`SemaphoreImpl`**: the same three calls statement by statement, over `Mutex` and `Condition`.
  - State: the `Semaphore` members, `Mutex::m_isOk` (`mutexOk`), `Condition::m_isOk` (`condOk`), the mutex `owner`, a program counter per thread, and `tmp`, the value of `m_count` that a thread has loaded for `--m_count` or `++m_count`.
  - Actions:
    - `WaitLock`, `TryWaitLock` and `PostLock` are the `m_mutex.Lock()` that starts each call.
    - `WaitTest`, `TryWaitTest` and `PostTest` are the tests, each with its early return and the load of the count.
    - `WaitDec`, `TryWaitDec` and `PostInc` store the count and unlock. `PostInc` includes `m_cond.Signal()`.
    - In `WaitTest`, `m_cond.Wait()` either releases the mutex and sleeps, or fails, unlocks and returns false.
    - `SpuriousWakeup` and `Signal` take a thread out of `pthread_cond_wait`. `WaitRelock` is `pthread_cond_wait` taking the mutex back.
  - `pthread_mutex_init` and `pthread_cond_init` may fail. Locking a mutex whose init failed is undefined behaviour; the model takes the `EINVAL` outcome the code names, so `Lock()` returns at once and excludes nobody.
  - Refinement: `Sem == INSTANCE Semaphore` maps `pc` to "sleeping", "woken" (from back in `pthread_cond_wait` until the re-test takes effect) or "idle". While `IsOk()`, every step is a step of `Semaphore` or leaves its variables alone, and `Semaphore`'s fairness holds.
  - TLC cannot check `isOk => Sem!Spec` as written, so `ImplementsSemaphore` states its three conjuncts: the initial state, the step, and the weak fairness of `WaitRetest`, written out.
- **`NodeNum`**: the loop of `NodeNum`, one action per iteration. The counter is `size_t`, narrowed to `Width` bits; the wrap shows at any width.
- **`MeshGen2D`**: `meshgen2d`, one action per loop pass.
  - `Start` covers lines 21-91: the flag line (an empty one throws), the rejection of three positive sizes, `nDir1`/`nDir2`, `numberOfNodes`, and every node.
  - `TriStep`, `CentroidStep`, `CentroidsDone`, `Tri4Step` and `QuadStep` are single passes of the loops; `LoopDone` is each loop's failing test; `Write` is the output.
  - The limits are fixed at 0 and twice the cell count, so coordinates are exact integers in doubled units and a centroid lies on the grid.
  - The reference side is `RefConn`, the cells of the grid along its first active axis fastest, as quads, as two triangles, or as four triangles round the cell's centroid node.
- **`ByteStream`**: the abstract specification of a `streambuf` over a descriptor. `data` holds the descriptor's bytes; its steps leave `data` alone, so a pipe's `data` may grow between them. `pos` counts bytes taken. `Get` (`sbumpc`), `Peek` (`sgetc`) and `Unget` (`sungetc`) return the bytes in order, then EOF. `ReadSpec` is the same without putback.
- **`FdInBuf`**: `fdinbuf` over the buffer of `PbSize` putback and `BufSize` read slots.
  - `Underflows` is the set of outcomes of one `underflow`: `numPutback`, the memcpy, then `read(2)` with any short count or 0 at EOF.
  - memcpy between overlapping ranges is undefined behaviour. `MemcpyOrders` makes it a choice of copy order, through the RECURSIVE `CopyUp` and `CopyDown`.
  - `CharAsInt` is `underflow`'s `return *gptr()`: the `char` goes to `int` as it is, not through `traits_type::to_int_type`. Whether `char` is signed is the build's choice (`CharIsSigned`). Byte values are abstracted to the sets `HighBytes` (0x80 or more) and `Byte255` (0xFF). Where `char` is signed, a high byte becomes negative (`-c`) and 0xFF becomes `EOF`. `sgetc` returns that value; `sbumpc` goes through `uflow`, which treats it as end of file or else returns the byte properly converted.
  - `Get`, `Peek` and `Unget` are the standard `streambuf` calls around `underflow`. `fdinbuf` has no `pbackfail`, so a putback at `eback()` fails.
  - `Stream == INSTANCE ByteStream WITH pos <- fdpos - (eg - g)` is the refinement mapping: bytes read from the descriptor less those still in the get area.
  - `data` is a variable that `FdInBuf`'s own steps leave alone, so that a module composing it can let a writer fill it. SANY rejects a state-level expression substituted for a CONSTANT.
- **`FdOutBuf`**: `fdostream` and its `fdoutbuf` on the write end of a pipe.
  - State: `fd`, `bad` (the stream is not `good()`), `written` (the bytes `write(2)` has put in the pipe), `open`, and the history `sent` (the bytes written, then those handed to the stream since the last `Init`).
  - Actions: `OutInit` (both constructors), `StreamInit` (`Init`, whose `rdbuf` clears the state), `Put` (`ostream::put` through `overflow`), `Write` (`ostream::write` through `xsputn`), and `CloseWriteEnd` (the program closing the descriptor).
  - `write(2)` of n bytes transfers all of them or is cut short after k bytes. With `Interruptible` (a handler installed without `SA_RESTART`) it may also fail with -1 (EINTR). On -1 or a closed descriptor it fails with `EBADF`.
- **`FdPipe`**: the composition. `In == INSTANCE FdInBuf WITH data <- written` reads what the writer has written. A refill's `read(2)` returns only when the pipe has unread bytes or its write end is closed, or when a signal interrupts it where `Interruptible` (`ReadReturns`). `FdOutBuf`'s `write(2)` fails with EINTR under the same constant. `PutbackSpec` lets the reader also call `sungetc`.
- **`InProcess`**: one `InProcess` object over its life.
  - `popen` returns a fresh pipe or NULL.
  - `pclose` of NULL or of a closed stream sets the history variable `badPclose`.
  - Reads go through the get area: `unread` holds, for each buffered byte, the pipe it came from.
- **`FDSetMan`**: every state-changing member of the class.
  - `select` is `SelectOn`. It examines descriptors up to `max_descriptor`. It leaves the ready ones, keeps or clears the bits above (unspecified), or fails and leaves the sets.
  - Without a timeout it waits for a ready descriptor.
  - `Environment` changes readiness at any time.
  - `SetFds` is the private `Set(fds, fdset, reset)` that the container overloads go through.
  - `NSet`, `ReadyForInput` and `ReadyForOutput` are the queries.
- **`MCBSExtent`**, **`MCSemaphoreImpl`**, **`MCInProcess`** and **`MCFDSetMan`**: model values, symmetry, and the sets and sequences that a `.cfg` cannot write.

Abstract specifications:
- The reference operators of `BSExtentOps` and `MeshGen2D` are checked against the detailed ones by properties, at every step where the code calls them.
- `ByteStream` is a module of its own. `FdInBuf` implements `ByteStream!ReadSpec`, which TLC checks as the PROPERTY `ImplementsReadStream`.

## 3. Runs

| Run | Cfg | Expect | What it shows |
|---|---|---|---|
| flat_indices | `BSExtent_flat.cfg` | pass | `dir_loop` numbers every query inside `*this` exactly as spec numbering (1-D and 2-D, coordinates 0..2, 2 objects, symmetric) |
| mesh | `BSExtent_mesh.cfg` | pass | every 3-D block over 0..2, in every degeneracy pattern, becomes exactly its cells with corners in spec order |
| pool_regions | `ExtentPool_regions.cfg` | pass | each reported region is the exact non-empty intersection with a neighbour other than self, across repeated calls (3 extents of 1-D) |
| semaphore_impl | `SemaphoreImpl.cfg` | pass | 3 threads, counts 0..2 with and without maximum, and mutex or condition init failing. While `IsOk()`: the count stays in range, `m_count` changes only by the returning calls' increments and decrements, no waiter is stranded while tokens remain, and the code refines `Semaphore` (70977 states) |
| pool_symmetry | `ExtentPool_symmetric.cfg` | violation | `[0,0]x[1,1]` lists `[0,0]x[0,2]` as a neighbour, but `[0,0]x[0,2]` does not list `[0,0]x[1,1]` (`BSMesh.H:148`) |
| mesh_gen | `MeshGen2D.cfg` | pass | for every flag line and every grid of up to 3 x 3 cells on any two axes, the written connectivity is exactly the cells of the grid, and the node count matches the coordinate lines (1859 states) |
| mesh_centroids | `MeshGen2D_centroids.cfg` | violation | on a y-z grid, the row wrap resets `centroidY` and line 164 adds `ySpacing` again; with node counts (0,2,3), that is one cell along y and two rows along z, the second row's centroid lands at (0,3,3) instead of (0,1,3), outside the grid (`MeshUtils.C:164`) |
| fd_pipe | `FdPipe.cfg` | pass | an `fdostream` writes up to 10 bytes into a pipe through short and failed `write(2)` calls and a close, while an `fdinbuf` reads the other end with short reads and either memcpy order: the writer's stream stays good only while the pipe holds every byte it was handed, the reader refines `ByteStream!ReadSpec` over the growing pipe, and it sees EOF only once the write end is closed and every byte has been read (`EOFMeansClosed`). Signal handlers restart calls here (`Interruptible` FALSE), so writes may be short but reads are not interrupted. `char` is unsigned here, and bytes 2 and 5 are high, 5 being 0xFF (37528 states) |
| fd_pipe_ff | `FdPipe_ff.cfg` | violation | the same pipe where `char` is signed and byte 2 is 0xFF. The writer puts two bytes; the reader's first `read(2)` returns one of them; the second starts at 0xFF, which `underflow` returns as -1 == EOF. `sbumpc` then reports end of file while the write end is open and the 0xFF byte sits unread in the reader's buffer (`FDUtils.H:148`) |
| inprocess | `InProcess.cfg` | pass | 3 pipes, popen failing or not: at most one child open, none after the destructor (615 states) |
| inprocess_pclose | `InProcess_pclose.cfg` | violation | the destructor calls `pclose(NULL)` when no popen succeeded, and pcloses again after `Finalize` (`FDUtils.H:192`) |
| fdsetman | `FDSetMan.cfg` | pass | a successful `Select` with reset leaves set exactly the registered descriptors that are ready (50176 states) |

Properties that are stated and found violated, but kept out of the runs:
- `CounterWithinDimensions` in `NodeNum`, under `NodeNum.cfg`: the `size_t` counter wraps after dimension 0 and indexes past the end (`BSMesh.H:184`). spec.md section 9 already records this defect.
- `IdenticalNeighbourReported`, `NeighborsAlignedWithShared` and `SharedExtentsSynced` in `ExtentPool`. Each fails under the constants of `ExtentPool_regions.cfg`:
  - two subdomains with identical bounds never see each other (`BSMesh.H:170`);
  - a second call with reused vectors misaligns `neighbors` and `shared_extents` (`BSMesh.H:166`);
  - returned overlaps have `_nd = 0` and empty `_N`/`_Np` (`BSMesh.H:155`).
- `CountInRange` (in `Semaphore` or `SemaphoreImpl`) with invalid constructor arguments in `InitialCounts`/`MaxCounts`. The count is uninitialized while `IsOk()` holds (`Sync.C:156`).
- `ImplementsByteStream` in `FdPipe` (that of `FdInBuf`), under `PutbackSpec`, where the reader also calls `sungetc`. Both failures are at `FDUtils.H:132`:
  - With an ascending memcpy, two `sungetc` after an EOF underflow return the wrong byte. The copy has already overwritten the putback slots, and the EOF return leaves the pointers.
  - With a descending memcpy and reads of one byte, the overlapping copy duplicates bytes.
- `ReadsCurrentCommand` in `InProcess`. After `Execute`, the first reads return the previous command's bytes, since `fdinbuf::Init` sets only `fd` (`FDUtils.H:105`).
- `SelectedAreReady` in `FDSetMan`. `SetForRead(fd)`, `SetForWrite(fd)` and `SetForIO(fd)` do not raise `max_descriptor`, so `select` never examines the descriptor, its bit may survive, and it is reported ready (`FDUtils.H:278`).
- `SetForIOSetsFds` in `FDSetMan`. `SetForIO(fds, reset)` ignores `fds` (`FDUtils.H:313`).

Each is checked by putting it as the PROPERTY (or INVARIANT) of the module's run configuration.

Each property of a passing run has a mutant in `PROJECT.json` that TLC detects:
- a stride weighed by the wrong size;
- the row offset always taken from dimension 0;
- an overlap test on the upper bound only;
- `if` for `while` in `Wait`;
- `Post` signalling only when the count leaves zero;
- `Post` not signalling at all;
- `m_isOk` taken from the condition alone. With a failed mutex, two `--m_count` lose an update;
- `destroy` without `this->resize(0)` (breaks `TypeOK` of `BSExtent`);
- `nindex` pushed after its increment (breaks `TypeOK` of `ExtentPool`);
- `nDir2` not falling back to z when y is empty (`meshgen2d`);
- `read(2)` into `buffer + numPutback` instead of `buffer + pbSize`;
- `xsputn` returning `num` whatever `write(2)` returned;
- `underflow` taking a read shorter than `bufSize` for end of file, as for a regular file (breaks `EOFMeansClosed`);
- `Execute` without the `pclose` of the previous stream;
- `AddInDescriptor` without raising `max_descriptor`.

`SemaphoreImpl`, `MeshGen2D`, `FdInBuf`, `InProcess` and `FDSetMan` have no type invariant: its integers admit every value, and
`CountInRange` is the property that bounds them.

Bounds:
- **Coordinates 0..2.** With these, every dimension can have size 1, 2 or 3. That covers degenerate dimensions, interior nodes and every nesting or containment of two intervals.
- **Three pool entries.** Enough for a subdomain with two distinct neighbours and for repeated calls.
- **Three threads.** Enough for two waiters competing with a third poster, or a thread that calls `TryWait`.
- **`CountBound` 2.** It stands for `INT_MAX`. A `Post` begins, and loads the count, only below it; with a failed mutex two unlocked loads can still take the count one step past it. At 2 a `Post` with no maximum sends the count from 1 to 2 while others wait or try.
- **Mutex and condition init each succeeding or failing.** That covers all four values of `m_isOk`'s two operands.
- **`meshgen2d` sizes 0..4 on each axis, and the four flag lines `""`, `0`, `1`, `2`.** Every placement of two active axes appears, with up to 3 cells along each. Row wraps and the z fallback therefore happen for every element kind.
- **The pipe: up to 10 bytes, writes of 1 to 3 bytes, `fdinbuf` with `PbSize` 4 (the code's value) and `BufSize` 3 for 1024.** Reads of 1 to 3 bytes give every `numPutback` from 0 to 4, and a get area (up to 7 bytes) longer than the putback area, so the cap on `numPutback` is taken. The short reads make the copy ranges overlap. A write can be cut after any of its bytes. EOF is reached once the write end is closed.
- **`InProcess` with 3 pipes of 2 bytes each and reads of up to 2 bytes.** That allows a partly read pipe, then `Execute` twice.
- **`FDSetMan` with descriptors {0, 1} and one entry per list.** That allows a descriptor registered in each list, one left unregistered, and `max_descriptor` below, at or above each of them.

## 4. Fairness

`SemaphoreImpl` assumes weak fairness for every step a thread takes while it holds the mutex (`WaitTest`, `WaitDec`, `TryWaitTest`, `TryWaitDec`, `PostTest`, `PostInc`). Such a thread is runnable and every path ends in `Unlock()` or `pthread_cond_wait`.

It assumes strong fairness for `WaitRelock`. A thread back from `pthread_cond_wait` can take the mutex only while nobody holds it. Others may keep taking it, so the step is enabled only intermittently. A fair mutex, which the pthread scheduler approximates, lets it in eventually.

`Semaphore` assumes weak fairness only for `WaitRetest(t)`. That is what `SemaphoreImpl`'s fairness gives it through the refinement.

No thread is obliged to call `Wait`, `TryWait` or `Post`. There is no fairness on `SpuriousWakeup` or on signal delivery. The liveness property therefore relies on `Post` signalling on every increment.

The other modules state only safety properties.

`meshgen2d` returns, and an `InProcess` object is destroyed. Their runs therefore set `CHECK_DEADLOCK FALSE`: the final states are the program's. `FDSetMan` always has an enabled step. In `FdPipe` the writer can always close, and once it has, every read returns. In `SemaphoreImpl` a thread holding a working mutex can always go on, and a sleeper can always wake spuriously; `Post` is bounded at `CountBound` on entry and on its load, so no thread is caught holding the mutex at the bound. A blocking `Select` is enabled only when a watched descriptor is ready. The blocking `Select` with nothing watched is a hazard no property covers.

## 5. Not modelled, and what remains

- **Read-only queries.** `NNodes`, `ND` and `Flatten` change no state.
- **`fdistream`'s constructors and `Init`.** They only install the buffer with `rdbuf`. `Ready()` and `FD()` only read `fd`.
- **Large writes as such.** A `write(2)` to a pipe is cut short only above `PIPE_BUF` bytes. The model's writes of up to 3 bytes stand for those.
- **The `istream` above `fdinbuf`.** The reader is modelled at the `streambuf` calls. An `istream` that gets EOF from `sbumpc` sets `eofbit` and `failbit` and stops reading until `Init` clears them. After the 0xFF conversion of `fd_pipe_ff`, that is why the rest of the output is lost, not just one byte.
- **Transient read errors in a run.** `read(2)` failing with `EINTR` is treated as EOF by `underflow` (`FDUtils.H:137`). `FdPipe` models it: with `Interruptible` TRUE a read blocked on the empty pipe may return -1, and TLC finds `EOFMeansClosed` violated. No byte is lost, so `ImplementsReadStream` still holds. The kept run has handlers with `SA_RESTART`.
- **`FD_SETSIZE`, the exception set and timeouts as numbers.** A timeout is modelled as present or absent.
- **`meshgen2d`'s input parsing and floating point.** The limits are fixed, and the two asserts on the line counts hold. `ReadMeshFromStream` is an external collaborator.
- **The `meshgen2d(argc, argv)` driver** (`MeshUtils.C:260-279`). It opens the input file, calls `meshgen2d`, and prints the VTK text: file I/O and formatting only.
- **`FDSetMan::ReadSet()`, `WriteSet()` and `ExceptionSet()`.** They return references through which a caller could change the sets. No code in the repository does.
- **Pthread calls `Semaphore` never makes.** `Mutex::TryLock` and `Condition::Broadcast` are called nowhere in `src/`. The destructors only release the pthread objects. A `Condition::Signal` that fails is not modelled: it happens only on a condition whose init failed, where no thread sleeps.
- **Undefined behaviour in the extent code.** It is excluded by guards. This covers a query with fewer dimensions than `*this`, and `Sync` or `GetFlatIndices` with `_nd = 0`. It is listed as hazards. Runs on malformed input (an odd-length flat vector, `_nd = 0`) are planned.
- **External collaborators.** `Connectivity`, `UnstructuredMesh` and the mesh readers and writers are not in the repository. They appear only as the element sequence `CreateUnstructuredMesh` produces.
