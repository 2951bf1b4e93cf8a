# uXBasic: a TLA+ development of its run time and its libraries

uXBasic compiles a BASIC dialect. Programs written in it may start tasks (`SPAWN`), wait for them
(`WAIT`, `JOIN`, `.RESULT`, `TASKGROUP`), cancel them and protect shared variables with `LOCK` and
`MUTEX`. On the native target these run on real threads, in a C++ runtime
(`src/native/uxb_runtime`), which also keeps the program's console output, texts, files,
collections, exceptions and callback slots. Around it stand some thirty C libraries
(`src/runtime_ext`) that a program calls through handles: bridges to QuickJS, Python, WebAssembly and
C, wrappers of GSL, SDL3, Raylib, DuckDB, ONNX and others, and libraries that compute by themselves.

This directory specifies the runtime and those libraries. The core is the lock table with its deadlock
detection and the thread pool on which tasks run, composed with it. The rest is one module per
component, composed for checking in two instances. TLC checks the specifications on small instances;
TLAPS proves the most important properties for any number of tasks, workers, locks, handles and
threads.

Paths below start at the repository's root, as in `src/native/...`.

## 1. The system

The native runtime and the compiler:

| component | state | operations | talks to |
|---|---|---|---|
| **Native lock table** `uxb_runtime_sync.cpp` | per lock: owner (a *task*, not a thread), statement depth, block depth; per task: number of owned locks, stack of open `LOCK` blocks; what each task waits for; MUTEX ids | `sync_enter`, `sync_leave`, `lock_mark`, `lock_release_to`, `mutex_new`, `sync_note_wait_task`, `sync_clear_wait`, `sync_release_all` | called by generated code and by the pool; calls the pool back around each sleep (`task_pool_block_begin/end`) |
| **Native task pool** `uxb_runtime_task_v2.cpp` | task records (state, cancel mark, error, "observed"), groups, the queue, workers (idle, blocked, extra), the stopping flag | `task_spawn`, `wait`, `join`, `result`, `cancel`, `status`, `error`, `group_*`, `cancel_point`, uncaught THROW, `worker_main`, `run_task`, `wait_finished`, `task_shutdown`, `program_end` | lock table; console (flush at the end of a task); generated code |
| **Console** `uxb_runtime_mir.cpp` | per thread and task: the unfinished line | `console_write`, `console_finish_current_task`, flushes at the ends | takes the lock CONSOLE in the lock table while a pool exists |
| **STRING store** `uxb_runtime_mir.cpp` | the register of owned texts | `str_store`, `str_release`, the epilogue of a routine | generated code |
| **File channels** `uxb_runtime_mir.cpp` | open channels; the line that `PRINT #` gathers, per thread | `open`, `close`, `file_print_*` | one mutex |
| **Collections** `uxb_runtime_mir.cpp` | LIST/DICT/SET by handle; arrays | `list_*`, `dict_*`, `set_*`, `REDIM` | one mutex |
| **Exceptions** `uxb_runtime_task_v2.cpp`, `mir_lower_stmt_core_split.fbs` | registers of the thread: flag, value, text | THROW, TRY, CATCH, FINALLY as generated | a waiter's thread runs other tasks on the same registers |
| **Slot table** `uxb_runtime_state.cpp`, `uxb_runtime_task.cpp`, `backends/` | 256 slots: type, name, callback, on/off; the last error | register, bind, on, off, trigger | callbacks of the program, outside the mutex |
| AST and MIR interpreters | task records, deferred tasks, a heap of arrays and objects, slots of EVENT blocks | evaluate the program | one thread |
| Preprocessor, parser, semantic passes; MIR lowering and generators | program text, syntax tree, MIR | pure translation | emit the calls of the runtime |
| Browser runtime, shell helpers, CLI, build pipeline | none that a step could break | drawing, process start, file copies | operating system, browser |

The libraries, each a C file with tables or heap objects behind handles:

| component | state | what is hard |
|---|---|---|
| **QuickJS**, **Python**, **WebAssembly** bridges | tables of slots with generations: runtimes, contexts, results; sessions and references; sessions of seven kinds of objects | old handles, a step that fails half way, calls from threads, a shutdown below a running call |
| **FFI**, **C interface** | tokens for pointers, cached modules; counted descriptors, argument lists, a queue of callback events | the one text buffer of a library, counts freed in any order, callbacks on foreign threads |
| **GSL** | a list of typed addresses | an address that malloc gives out again, between threads |
| **SDL3**, **Raylib** | the folded input; tables of sounds, pads, textures, fonts; caches | order of events, full tables, failed loads, a device closed under its handles |
| **DuckDB**, **ONNX**, **SQLite/PCRE2/JSON**, **Lua/Prolog** | counted connections, sessions and runs, statements, matches; Lua states, a child process and its pipe | any foreign call may fail; who frees what, and which thread loads the library |
| **Object registry** `uxclz` | types, methods, objects with counted references | destructors and methods that call back in, outside the mutex |
| **Graphs, matrices, tensors, buffers, fuzzy sets, collections (GLib), neural networks, data sets** | one data structure each | long sequences of legal calls, edges of the formulas |
| HTTP, archives, compression, cryptography, statistics and others | none, or one foreign object | not modelled, see section 6 |

**What is hard here.** Two mutexes, `S().mutex` of the lock table and `g_mutex` of the pool. They nest in
one place only: a `sync_enter` that is about to sleep calls `task_pool_block_begin` (and `_end`) with
`S().mutex` held, and nothing takes them in the other order. Everywhere else a fact read under one may be
old when it is used under the other. A waiting
thread runs *other tasks on its own stack* (`wait_finished`), so a thread is a chain of tasks of
which only the top one moves; locks therefore belong to tasks, and a waiter that holds a lock must
not help. Workers that all sleep are compensated with new threads, steered by three counters that
are changed in many places. The wait graph is checked for circles only when an edge is added,
although owners change afterwards. Shutdown collects tasks while tasks still spawn tasks. Every one
of these hazards is listed in `PROJECT.json` at its line with the properties that cover it.

**What makes it correct**, component by component:

- lock table: a lock is owned exactly while its owner is inside something that names it; a
  multi-lock enter takes all or nothing; no circle of waits goes undiagnosed; the diagnosis is right;
- pool: each task runs exactly once; a finished task never changes, holds nothing, and is not
  reported finished before; waits return only for finished tasks; no notification is lost; while
  work is queued some worker can take it; the program ends, after all of its tasks, with the right
  exit code;
- console: the text of a context is never lost, and lines of two contexts are never mixed;
- texts: bytes are freed once, by their own slot, and not while a slot still shows them;
- files: each open file is in one channel; a line of `PRINT #` goes whole to its own channel (it does
  not, see finding 5);
- exceptions: the flag a TRY sees is its own task's; so should the value be (finding 4);
- slots: a callback runs with the data it was bound with, whatever is bound meanwhile;
- bridges and wrappers: what a library gave out is owned exactly once, whichever call fails; a handle
  resolves from its making to its freeing and never again; no event, text or reference is lost or
  handed to somebody else;
- libraries that compute: what they answer after any sequence of calls is what the mathematics of
  their objects says;
- interpreters (not modelled): what they let a program see is something the native runtime could also
  produce.

## 2. The modules

| module | models | lines of code it stands for |
|---|---|---|
| `LockTable` | the lock table, with any program as its environment | `uxb_runtime_sync.cpp` 33-308 |
| `TaskPool` (EXTENDS `LockTable`) | the pool, calling the lock table's own actions | `uxb_runtime_task_v2.cpp` 84-676 |
| `MCLockTable`, `MCTaskPool` | TLC instances of the two | |
| `LockTableProofs` | theorems about `LockTable` | |
| `TaskPoolProofs` (EXTENDS both) | theorems about the composition, the worker threads and the end of the program | |
| `Console`, `NativeTexts`, `NativeFiles`, `Collections`, `Exceptions`, `SlotTable` | the rest of the native runtime | `uxb_runtime_mir.cpp`, `uxb_runtime_state.cpp`, `uxb_runtime_task.cpp`, the lowering of TRY |
| `Handles` | abstract: what a table of handles promises | |
| `UxJs`, `UxPython`, `UxWasm`, `UxFfi`, `UxCapi` | bridges | `uxjsrt.c`, `uxpython.c`, `uxwasmrt.c`, `uxffi.c`, `uxcapi.c` |
| `UxGsl`, `UxSdl3`, `UxRaylib`, `UxDuckdb`, `UxOnnx`, `UxLogic`, `UxCbase` | wrappers | `uxgsl.c`, `uxsdl3_adapter.c`, `uxraylib_adapter.c`, `uxdataframe_duckdb.c`, `uxonnx2.c`, `uxlogic.c`, and SQLite, PCRE2, JSON |
| `UxClz` | the object registry | `uxclz.cpp` |
| `UxGraph`, `UxMatrix`, `UxTensor`, `UxBuffers`, `UxFuzzy`, `UxCollections`, `UxNn`, `UxDataset` | libraries that compute | the files of these names |
| `Frameworks` | composes `UxDuckdb`, `UxOnnx`, `UxRaylib`, `UxLogic`, `UxCbase`: one program that uses them all | |
| `MCBridges` | composes `UxJs` ... `UxCapi` and `Frameworks` for TLC | |
| `MCNative` | composes `Console` ... `SlotTable` and the libraries for TLC | |
| `NativeProofs` | theorems about `Exceptions`, `NativeTexts`, `SlotTable`, `NativeFiles`, `Console` | |
| `CollectionProofs` (EXTENDS `NativeProofs` for its lemmas) | theorems about `Collections`, `UxBuffers`, `UxCollections` | |
| `BridgeProofs` | theorems about `UxFfi`, `UxWasm`, `UxPython`, `UxGsl`, `UxJs` | |
| `ReferenceProofs` | theorems about `UxClz`, `UxCapi` | |
| `WrapperProofs` | theorems about `UxSdl3`, `UxRaylib` | |
| `FrameworkProofs` (EXTENDS `WrapperProofs`) | theorems about `UxDuckdb`, `UxOnnx`, `UxLogic`, `UxCbase` and `Frameworks` | |

`PROJECT.json` maps each definition to its lines.

### LockTable

Every entry point runs inside one mutex and gives it up only while it sleeps on a lock's condition
variable. So each entry point is one action; `sync_enter` is one (`Enter`) up to the sleep, and one
(`Wake`) per awakening, each of which tries all locks again. An attempt is one of `SelfDeadlock`,
`Take` (all the locks), `Block` (what was taken is given back, and an edge in the wait graph, or the
process exits with `LOCK_DEADLOCK`). The loop that takes the locks in order of their ids is
inside one mutex section, so only its result is modelled, including *which* lock it stops at and
whether it meets a self-deadlock before that (`Tried`). `RollBack` is what happens to the locks it had
taken: a depth goes up and down again, and the lock is freed if both depths are zero *then*, with
`heldCount` following. That the table is afterwards as it was (`BlockKeepsTable`) is proved, from the
invariant that a lock is free exactly when both its depths are zero.

The wait graph has at most one edge per task, so the walk of `cycle_locked` follows one successor.
`Reaches` says "the target is in every set that contains the start and is closed under the
successor", a form that proofs can use; `WalkReaches` is the loop of the code, and the run checks
that both agree in every reachable state (`WalkIsReach`); for any finite number of tasks it is a
theorem. The 1,000,000 steps of the loop
(`uxb_runtime_sync.cpp` 92) are represented by as many steps as there are tasks.

`autos` and `done` are not state of the runtime: they record what the program has entered and not
left, and which tasks have ended. Generated code leaves statements in the reverse order of entry,
and `LOCK` blocks either one by one or through `lock_release_to` with a mark it took before.

### TaskPool

A section under `g_mutex` is one action; a call into the lock table is another one; all tasks
interleave between them. `at[k]` is the place of task `k` in the code and `wait[k]` the locals of
its `wait_finished`:

```
queued -> begin -> user -> publish -> over            run_task
user -> note -> check -> decide -> clear -> after -> user     wait_finished
                          |-> sleep -> awake -> check         taskFinished.wait
                          |-> help -> helping -> renote -> check    another task on the same stack
user -> snapshot -> note ... after -> reap -> over    task_shutdown (main program only)
```

- `Note`/`Renote`/`Clear` are `sync_note_wait_task`/`sync_clear_wait`; `Check` computes `mayHelp`
  from the lock table *before* `g_mutex` is taken; `FoundFinished`, `TakeToHelp`, `Sleep` are the
  three ways out of the section under it. `Return` is the end of `run_task`, which wakes all
  sleepers and goes back to the waiter that ran the task, or to the queue.
- Workers without a task are indistinguishable and are counted: `looping` (about to look at the
  queue), `idle` (asleep on `workAvailable`), `awake` (those of them that were notified and have not
  run yet), `exited`. `notify_one` raises `awake`; *any* worker may come first, the notified one may
  find nothing.
- `blocked`, `extra` and `MaybeAddWorker` are the compensation: an additional thread is started when
  work is queued, nobody is idle, and every worker sleeps on a lock or a task.
- `exit` is how the process ended: `clean` (0), `unread` (1), a failed JOIN, a null handle. After
  that, or after a diagnosis of the lock table (`fatal`), nothing happens any more (`Exited`), and
  TLC's deadlock check covers every other state.

The program is arbitrary: a task calls anything, in any order, with any handle, a bounded number of
times. `THROW` stands for an uncaught exception and for a C++ exception that `run_task` catches.

Left out, on purpose:

- spurious wakeups of `taskFinished` (the loop tests its condition again; a wakeup with nothing
  finished is already possible because one condition variable serves all tasks);
- `task_pool_block_end` and the retry of the lock that follows are one step (`LockWake`), and the
  `notify_all` that shutdown sends right after it unlocks is part of `Stop`;
- one `TASKGROUP` stands for all; `MUTEX` objects are created in `LockTable` only;
- argument blocks, results and the random generators; failing to start a worker thread; the
  thread-local exception registers, which are `Exceptions`;
- the text of diagnoses.

### The rest of the native runtime

- `Console`. Before the pool starts, text goes to the screen; then each context (main or task) has its
  line in a buffer of the *thread* it runs on, so a thread that helps has several. Actions: `PRINT`
  with and without its newline, helping and returning, the end of a task, commands that flush,
  shutdown and fatal exits. `ConsoleFaithful`: every text of a context appears once, in order, and no
  line holds text of two.
- `NativeTexts`. `txOwned` is `owned_texts`; a store is two steps (the copy, then the exchange) with
  the other threads in between. `TextsKept`: what a slot shows is the text last assigned to it.
- `NativeFiles`. The channel table, and the line of `PRINT #` between `FILE_PRINT_BEGIN` and
  `FILE_PRINT_END`, where a nested `PRINT #` may run. `FilesExact` about the table; `FileLinesWhole`
  is what the comments claim of lines.
- `Exceptions`. The registers of a thread and the frames on its stack: the body, the handler and the
  FINALLY of each TRY, and tasks run on top of a wait. `ExceptionFlagOwn` holds, `ExceptionValueOwn`
  does not.
- `SlotTable`. A trigger copies its record in the mutex and calls back after it; callbacks may use the
  table and trigger others. A registration that throws for lack of memory leaves its slot registered,
  and a refusal is told by the error code. `SlotTasksConsistent` relates what runs to what was bound.
- `Collections`. LIST, DICT and SET with the order of the keys, wrong kinds of handles, tagged values;
  `REDIM [PRESERVE]`. Checked against reference definitions (`CollectionsExact`).

### Bridges and wrappers

Each has the tables of the C file as functions from slots to records, one action per exported
function, and one action per *step* where a call may fail half way or lets another thread in (the code
releases a lock, calls Python, waits for a child). What is external (QuickJS, CPython, Wasmtime,
libffi, SDL, Raylib, DuckDB, ONNX Runtime, Lua) appears as the objects it has given out, which the
property compares with what the tables say.

- `UxJs`: creating and freeing runtimes, contexts and results, with the generation that makes old
  handles invalid. The tables are shared by all threads and have no lock, only a runtime has an owner
  thread; so a call is a sequence of steps (`Search`, `Look` at one slot after the other, the call of
  QuickJS, `Take`, `Fill`; `Release`, then `Drop` and `Bump` for each object that goes), and the calls of two
  threads interleave at each. It refines `Handles` (`JsImplementsHandles`): freeing takes along what was
  made from the freed, no freed handle ever resolves again, and a slot that is half taken or half given
  back is nobody's. *Until two calls have the same slot in hand* (`JsClash`): nothing in the code keeps
  them apart (`uxjsrt.c` 236, 519, 623), what their writes come to is a data race that C leaves undefined,
  and there the behaviours of the model end. A program on several threads has to keep the calls that
  make and free objects apart by itself. The generations wrap at 32767 in the code, after which an old handle would resolve
  again; `JsMaxGen` stays below that.
- `UxPython`: references are taken, stored under `g_lock`, and released, while Python code runs in
  between and another thread closes the session or shuts down. `PyRefsExact` counts the uses of an
  object by calls under way as pairs of a thread and a number, so that a cardinality says the sum.
- `UxWasm`: the seven objects of a session one by one, failures at each, the error codes of sessions
  (`own`) and of the module (`wmGlobal`), calls with 32-bit values and the host functions they call. A
  call on another thread than the owner's leaves its error with the owner's session, and a successful
  open does not clear the global error: the model does as the code does.
- `UxFfi`: tokens round robin with generations, the module cache, and the lock that calls hold which
  return text or which are made into one of the FreeBASIC libraries (`FfLocked`); all others run without
  it. Any call may write the one text buffer of its library. `FfTexts`: the text behind a token was not
  rewritten, before it was copied, by a call of another thread that returns text or is made into a
  FreeBASIC library. A call that runs without the lock may have rewritten it, and the model shows that it
  can; this is as much as the code promises. Assumed: the ready function of a module, which is called
  without the lock, writes no text, and functions named like destructors return no text.
  `UxFfi` refines `Handles` as well (`FfImplementsHandles`), which is proved and in no run.
- `UxCapi`: counted descriptors of structures, fields, arguments, return types; callback events.
- `UxGsl`: the list of handles changes under a lock, memory outside; addresses come back from malloc.
- `UxSdl3`: the event queue folded into polled state, in three instances of its own (input; sounds and
  pads; cursors and cached strings). `uxsdl3_quit_subsystem` is left out: SDL then destroys what belongs
  to the subsystem, while the tables of the adapter keep the slots, and the property says nothing of a
  program that calls it while it has such objects.
  `UxRaylib`: six tables whose objects die with their device. The property says nothing of a kind with
  handles left at the close of its device, so it does not cover what an unload of such a handle
  does to an object that has got its name since.
- `UxDuckdb`: contexts shared by frames, and matrices copied out of them; `UxOnnx`: the three steps of
  a run; `UxLogic`: loading Lua under its lock, Lua states, a Prolog child; `UxCbase`: SQLite, PCRE2
  and JSON.
- `UxClz`: types with bases and interfaces, multimethods, counted objects with generations, destructors
  outside the mutex. `ClzObjectsExact`.

### Libraries that compute

`UxGraph`, `UxMatrix`, `UxTensor`, `UxBuffers`, `UxFuzzy`, `UxCollections`, `UxNn` and `UxDataset` hold
their data as sequences and functions, one action per exported call; each has a property that compares
the answers with a definition that does not follow the code (paths against the search of distances,
Leibniz' sum against elimination, the difference of the error a step either way against back
propagation, a partition against the two halves of a split). Floating point is replaced by integers
or exact fractions, so rounding is not covered; what needs roots (QR, SVD, sigmoid) is left out. The dictionaries of `UxCollections` have values of two
kinds, texts and numbers (`UcNumbers`), because a default text replaces a known number
(`uxcollections_glib.c` 261) while the defaults of numbers leave every known value. A tensor slice adds start and
count in 64 bits (`uxtensor.c` 155); where the sum is beyond the greatest number C does not define
it, and `UxTensor` says nothing of such a call. Three
observations: `uxc_list_extend(a, a)` never ends, an empty field of a CSV line is skipped, so that
the later ones move to its place, and an activation layer passes no error to the layers before it.


## 3. The runs

| run | instance | distinct states | what it shows |
|---|---|---|---|
| `lock_table` | main and 2 tasks (symmetric), 1 compiler lock, 1 MUTEX, nesting at most 2 and 2 | 116,432 | the nine invariants of the lock table and `AllOrNothing` |
| `pool_join` | 3 tasks, 2 workers, spawn and join, 3 calls of main, 2 of a task, spawning during shutdown | 1,314,714 | `RunsOnce`, `NoLostWakeup`, `AllFinishedAtExit` |
| `pool_errors` | 2 tasks, 1 worker, every operation but locks, 4 calls of main, 1 of a task, both kinds of shutdown | 352,886 | `PoolTypeOK`, `ExitCodeExact`, `OutcomeStable`, `WaitReturnsFinished` |
| `pool_locks` | 3 tasks, 1 worker, 1 lock in both modes, spawn and join, 2 calls each | 629,822 | the worker counters, the compensation, locks against helping and ending, and that the pool implements `LockSpec` |
| `pool_live` | 3 tasks, 1 worker (and those that compensate), spawn, join, LOCK blocks, 3 calls of main, 1 of a task | 72,447 | `Terminates` under `FairSpec` |
| `bridges` | each bridge and wrapper alone: 1 or 2 threads, 1 to 3 slots of each kind | 492,186 | ownership of foreign objects through every failure, `JsImplementsHandles`, input of SDL, returned texts |
| `native_state` | each remaining part of the runtime and each computing library alone: 2 threads, 1 or 2 tasks, up to 4 cells, edges or items | 628,396 | lines, texts, channels, exceptions, slots, object registry; answers of collections and libraries |
| `pool_cycle`, `pool_unread`, `pool_hang`, `exc_value`, `file_print` | small | | the five findings of section 4 |

**Why these bounds are enough to be interesting.** Two lock ids and three owners are the least in
which a circle is closed through a third task, in which an enter blocks at its second lock, and in
which one sleeper takes a lock away from another; with two ids an enter that stops at the second has
the first to give back, new or re-entered. Nesting 2 covers re-entry, both modes of one lock
at once, and a mark above a non-empty stack. Three tasks and one worker are the least for "the worker
sleeps, a compensation worker sleeps, work is queued", and for a helper that helps inside a helped
task. In `pool_errors` a member of a group can fail while another one is waited for, and be
cancelled before, during and after its run. The passing runs take every action of both modules.
`LateSpawns` is FALSE where a property is about programs that do not spawn while the program
shuts down (the findings show why), and TRUE in `pool_join`.

Bounds of the core: `MaxTasks`, `MainOps`, `TaskOps`, `MaxMutexes` (guards), `MaxAutos`, `MaxExpl` (a
state constraint of `lock_table`).

**The two compositions.** The components of `MCBridges` share no state with each other, nor do those of
`MCNative`, so a product of them would only multiply states. A variable `focus` chooses, at the start,
the one that moves; the others stay in their initial state, where their properties hold too. A
component whose parts do not act on each other has a focus for each (`sdl input`, `sdl devices`,
`sdl caches`; `class types`, `class objects`; `list`, `queue`, `hashes`).

Their bounds are the constants marked "bound:" in the modules. Two threads are enough for every race
between a check and an act under different sections. A table of two slots fills up, has a first free
slot that is not the first, and gives a freed one out again, which a third generation
(`JsMaxGen`, `FfMaxGen`, ...) tells from the second. The QuickJS tables have two slots for runtimes and
contexts and one for results; only those of contexts are taken a second time, which tells whether an old
context or an old result is found in a new object. `FfLibraries` has a FreeBASIC library and one that is not. Three frames on two connections are the least in
which one is shared and the other not, and three descriptors the least in which one is a field of a
field. Four vertices hold two components, a triangle and a vertex beside it. Three layers are the
least in which a network uses both of its buffers, two outputs the least with a wrong order. `BfCalls`,
`RlCloses`, `DdQueries`, `DsChanges`, `NnTrainings` count calls that could go on for ever.

`CHECK_DEADLOCK FALSE` stands in the configurations where a behaviour ends because its bounds are used up
(`bridges`, `native_state`, `exc_value`, `file_print`): the program there may simply make no further
call. The runs of the core check deadlock.

**Fairness** (`FairSpec`): weak fairness of the worker threads, of each task, of the main program and
of its shutdown. This is what an operating system does that runs every runnable thread, and what
`std::condition_variable` promises for notified threads. A task itself ends because its calls are
bounded; the program may always end its body. Nothing is assumed about who wins a lock or a task,
and no strong fairness is used.

Each property of a passing run is violated by at least one named mutant of the code (the operators
marked "Mutant of ..." in the modules, listed in `PROJECT.json`), so none of them holds whatever the
code does.

## 4. Findings

1. **A false TASK_WAIT_CYCLE** (`pool_cycle`, `CycleIsReal`; `uxb_runtime_task_v2.cpp` 350). While a
   waiter runs a queued task on its stack, the wait graph shows an edge to *that* task. If that task
   joins the waiter's task, or one that joins it, the process exits with `TASK_WAIT_CYCLE` ("tasks
   wait for each other, A.JOIN <-> B.JOIN") although no two tasks join each other; with a free worker
   the same program ends normally. (The nested task could indeed not go on on this stack: what is
   wrong is to have taken it there.)
2. **Errors of tasks spawned during shutdown are not reported** (`pool_unread`, `UnreadReported`;
   line 602). `task_shutdown` waits for the tasks that exist when it starts and counts errors then; a
   task spawned later runs and may fail, and the exit code is 0.
3. **Compensation is off during shutdown** (`pool_hang`, `Terminates`; line 316). After `g_stopping`
   is set no compensation worker is started, but tasks still run. With one worker, a late task that
   joins a queued task inside `LOCK` sleeps for ever, and so does the exit, which joins its thread.

4. **FINALLY loses the value of the pending exception** (`exc_value`, `ExceptionValueOwn`;
   `src/src/semantic/mir_lower_stmt_core_split.fbs` 1811). The generated code keeps the *flag* of the
   exception over a FINALLY, not its value and text. A TRY inside it, or a task that the thread helps
   while it waits there, replaces them, and the outer CATCH receives the wrong value. The comment of
   the registers says that they belong to the running task.
5. **A nested `PRINT #` breaks the outer line** (`file_print`, `FileLinesWhole`;
   `uxb_runtime_mir.cpp` 745). Line and channel are one buffer per thread, cleared at the begin of a
   statement, and the items are evaluated after that. A routine called in an item, or a task helped in
   its wait, that has a `PRINT #` throws the first part away; the rest has no channel. The comment says
   that lines do not mix.

`ExitCodeExact` and `Terminates` hold for programs without spawns during shutdown.

## 5. What is proved

Those of the core hold for arbitrary `Keys`, `Locks`, `MaxTasks`, `NWorkers`, `Ops` and bounds of calls, from the
assumptions `KeysAssumption` and `LocksAssumption` (main is a key, "no owner" is not; lock ids are
numbers and finitely many; MUTEX ids lie above the compiler's), `TasksAssumption` and
`PoolAssumption` (tasks are 1..MaxTasks and main is 0; at least one worker). TLC evaluates them
in every run of their module.

`LockTableProofs`, for `LockSpec`:

| theorem | says |
|---|---|
| `LockTyping` | types, and `heldCount` is the number of owned locks |
| `LockSafety` | owned iff inside; depths exact; `release_locked` never meets a foreign lock |
| `NoSilentDeadlock` | as long as the process runs, there is no circle of waits |
| `LockAllOrNothing` | a sleeping enter keeps none of its locks until it takes all |
| `LockDiagnosis` | `TASK_WAIT_CYCLE` is a circle of joins, `LOCK_DEADLOCK` a circle that needs a lock |
| `HeldCountExact`, `DepthsCounted`, `NoForeignRelease` | the parts of `LockTyping` and `LockSafety`, each under the name of its property |
| `EntriesCounted` | `explicitEntries` is the number of open LOCK blocks of the whole program |
| `WalkDecidesReach` | for finitely many tasks, the bounded loop of `cycle_locked` decides reachability |

The argument: `TypeInv` and `TableInv` are inductive. `TypeInv` has, besides the types and `HeldExact`, that a
lock is free exactly when both of its depths are zero (`FreeDepths`): without it a roll-back could free
a lock that was owned before, or keep one. `TableInv` adds to ownership that the statements
and blocks of a task count exactly into the two depths of each lock, and that blocks of one task
never share a lock; without that, "depth zero" would not mean "outside". For deadlock, the invariant
is acyclicity itself: a new edge keeps it because the walk found nothing (`NewEdgeAcyclic`), and a
change of owner, which the code does not check, can only lead an edge to a task that waits for
nothing or remove it (`FewerEdgesAcyclic`, `OwnersChange`). Both use the closed-set form of
reachability, which needs no induction over paths.

`EntriesCounted` counts the open blocks as pairs of a task and a level; tasks may be infinitely many, the
pairs are finitely many because only one appears at a time. `WalkDecidesReach` is about the loop, so it
is an induction over numbers, done with the least number at which something fails (`LeastNumber`,
`CountUp`), since the library's induction theorems take an operator. A walk of as many steps as there
are tasks that has not ended has met one of them twice (`WalkRepeats`), so what it visited is closed
under the successor; that is what `Reaches` asks for. It assumes finitely many tasks, as the
1,000,000 steps of the code do.

`TaskPoolProofs`, for `Spec`:

| theorem | says |
|---|---|
| `PoolImplementsLocks` | `Spec => LockSpec`: the pool drives the lock table as it expects |
| `PoolNoSilentDeadlock`, `PoolLockSafety` | the lock theorems hold of the composed system |
| `TaskRunsOnce` | until it begins, a task is in the queue once or in the hands of one waiter |
| `OutcomesNeverChange` | a finished task's state, error and cancel mark stay |
| `HelpersHoldNoLock` | S-146: a helper owns no lock, although `mayHelp` may be old |
| `FinishedTasksHoldNothing` | who sees a task finished may rely on its locks being free |
| `WaitsReturnFinished` | WAIT, JOIN and TASKGROUP.JOIN return only for finished tasks |
| `WakeupsNotLost` | while a worker sleeps unnotified, each queued task has a notified one |

The inductive invariant `Inv` is `TypeInv` of the lock table, the types of the pool, and `Shape`:
where a waiter is tells what the wait graph shows for it, which of its targets have finished, and
that it holds nothing when it may help (`WaitOK`); where a task is tells whether its body has ended
and that it then holds nothing (`DoneOK`); queue, waiters' hands and states of tasks agree
(`QueueOK`); and `NoLostWakeup`, which is inductive once `awake` is known to lie in `0..idle`. `WaitOK`
is what makes `HelpersHoldNoLock` true in spite of the stale read: between `Check` and `TakeToHelp`
only the waiter itself could take a lock, and it is in `wait_finished`. It also makes the edges of
`Clear` and `Renote` the ones that `Join` and `Joined` of `LockSpec` allow, whence the refinement. The
proof has one lemma per action (`...Inv`), each with the conclusion `Good`: the step is a step of the
lock table or leaves it alone, the invariant holds again, outcomes are kept, waits return rightly.

`TaskPoolProofs` further has, of the numbers of `Spec`:

| theorem | says |
|---|---|
| `PoolTypesCorrect` | all types of the pool; no counter of workers goes below zero |
| `WorkersCounted` | each worker thread is idle, looking, gone or under a chain of tasks, and counted once; `blocked` is the number of those asleep |
| `CompensationSuffices` | there is never work in the queue while every worker sleeps |
| `ThreadsBoundedByTasks` | there are never more additional threads than tasks were spawned |
| `ExitAfterAllTasks` | when the process ends normally, every task ever spawned has finished |
| `ExitCodeTrue` | without spawns during shutdown, the exit code is 1 exactly if a failure was never looked at |

The counters are about threads, and the model has none: a thread is a chain of tasks, each of which runs
on the stack of the one that helps. `Counted` therefore says first that the chains are chains (`Chains`: a
helper runs one task, no two helpers the same one, the main thread has exactly one task on top), and
then that the threads are as many as their bottoms and as many as their tops (`ThreadsExact`). A step
that helps or returns moves a top and leaves the bottoms; one that takes from the queue or ends moves
both. Cardinalities are only ever changed by one element, so no sum over chains is needed. The
property about compensation is the invariant itself: it can only be broken where work is queued, a
worker falls asleep or an idle one is taken, and each of these places calls `MaybeAddWorker` or has
an idle worker. `ExitInv` then says that no worker leaves while work can still come: when the last one
is gone the queue is empty, and what is neither queued nor over would be on a stack without a bottom,
a circle of helpers, each of which waits for the next in the wait graph, which `NoUndetectedDeadlock`
excludes (`NobodyLeft`). `CodeInv` is about the shutdown: the tasks it waits for are all that there are,
which holds only without `LateSpawns`, and once it has counted the errors nothing but `Reap` happens.

`NativeProofs`:

| theorem | says |
|---|---|
| `ExceptionFlagsOwn` | the exception flag of a thread is that of the context it runs |
| `TextsAlwaysKept` | a STRING reads as what was last assigned to it; no bytes are lost or freed twice |
| `SlotTasksHeld` | a trigger runs what its slot held at one moment when it was on |
| `ChannelsAlwaysAccounted` | no FILE is lost, shared by two channels or closed behind a channel's back |
| `UnnestedLinesWhole` | where `PRINT #` statements do not nest (`NfNesting = 1`), every line goes whole to its own open channel |
| `ConsoleAlwaysFaithful` | every text that was printed appears once, in order, and no line mixes two contexts |

`ExInv` adds to the property that what a FINALLY has put aside is as consistent as the registers
(`SavedTries`) and that a context is on one stack, once (`ExPlaces`). `TxInv` says who owns each cell; the
one slot that shows bytes without owning them is a parameter that borrows its caller's text
(`Borrows`), and it may because the caller's call text is not stored to while it is passed
(`StoresApart`). `SlInv` needs that the history of a slot contains its record whenever it is on
(`TableOn`), for a copy is made in the mutex and used after it. Of the lines the theorem is about
unnested statements, as finding 5 requires; that of the channels has no hypothesis.

`CnInv`, for any threads, tasks and texts: a context that runs is in one place of one stack
(`CnStacksOK`), a thread keeps unfinished lines only of the contexts on its stack, with characters of
that context (`CnLinesOK`), and what is on the screen of a context, followed by the line that its
thread keeps, is what it has printed (`CnScreenOK`). The first two are what makes the third
inductive: a line is continued by the thread that began it, since the context can be nowhere else, and
a task that ends leaves none because its flush came before. Texts are flattened and filtered by
recursive definitions, so `WholeSplits`, `OfConcat` and `FlatAppend` say by counting up (`CountUp`) what one
more text adds; `TextWritten` is the step that all the ways to write have in common.

`CollectionProofs`, about what keeps values:

| theorem | says |
|---|---|
| `CollectionsAlwaysExact` | a LIST, DICT or SET is what was put into it; an element of an array outlives `REDIM PRESERVE` |
| `BuffersAlwaysShown` | a number buffer shows what the calls gave it; nothing that was cleared or cut off returns when it grows |
| `HashesAlwaysKept` | the table and the list of keys of an ordered hash agree, each key once, and are what was set and not removed |
| `QueuesAlwaysInOrder` | a queue is first in first out, a stack last in first out, also for a list that is pushed |

`CoInv` is a relation between what the code holds and what it should: the keys of a DICT or SET are the
domain of the reference, each once (`KeysOK`), a DICT has its values in the places of their keys, a LIST
is the reference (`CollectionOK`); and the block of an array has a place for each subscript, at its
distance from the lower bound (`ArrayOK`). `KeyAdded` and `KeyTaken` are about keys that come and go,
`KeyFound` about the search, which stops at the first. No length and no kind of value is assumed.

`BfInv` relates a buffer of `uxmathcore.c` to the contents that the calls gave it (`BufferOK`): its count is
their length, its memory is at least that long, the first elements of the memory are the contents, and
all of the memory, also what lies behind the count, holds values of the element type (`ShowsIn`), for a
buffer that grows shows it again. The capacity is found by doubling, which `DoubledEnough` shows by counting up
to end large enough. `ResizedOK`, `StoredOK`, `AppendedOK`, `PlacedOK` and `PartIs` say what the helpers of the
model do to a buffer and its contents, so that an exported call is one or two of them.

`UcHashInv` says of each ordered hash that its table is what was set and that its list has the keys of the table, each
once (`HashShows`); `KeyAdded` and `KeyTaken` serve here, too, once `PlaceFound` has shown that the search ends
at the only place of the key. `UcQueueInv` numbers the items of a queue or stack below the next ticket
(`AllBelow`); without that a new item could be out of order. Pushing a list is a fold, of which `PushedTwo` gives
the value by naming the function that the fold computes on the sets of its places. Of a deque nothing is
claimed: its rotation is a fold of any length.

`BridgeProofs`, about what the bridges own:

| theorem | says |
|---|---|
| `ForeignTextsOwned` | no call that holds the string lock rewrites another call's text before it is copied; a copy is freed once |
| `WasmObjectsAccounted` | each Wasmtime object belongs to one session or to the call at work, and the library outlives it |
| `PythonRefsExact` | the references taken of an object are its entries and its uses by calls under way |
| `FfTokensImplementHandles` | the tokens of foreign texts implement `Handles`: none that was released or cleared resolves again |

Each of the first three properties is an equation between a number and the cardinality of a set. `FfInv` adds that a call
that is to hold the lock has it from its foreign call to its return (`FfSerialized`), so that what is written
over a text meanwhile comes from calls that run without it, and that a free slot owns no copy;
`WmInv`, that a session has all seven objects or none, and what the call at work has built so far is an
initial part of the order (`WmObjs`), so that the next object made or taken down is the one the code
names; `PyInv`, that a call holds references only where it uses an object or has cleared entries. A
step that moves a reference from the table to a call leaves their sum (`PyStep`, `DeactivateInv`). They
assume finitely many slots, and for Python finitely many threads (`PyAssumption`).

`FfTokensImplementHandles` is the refinement `FfSpec => FfImplementsHandles`. A slot that is used was given out,
and no generation has come round (`FfTokensInv`); storing a text is one `Issue`, a release, a text that
is taken out and a clear are a `Retire`, and all else stutters. Its hypothesis is `FfMaxGen < 16384`: a
generation has 14 bits in a token, so a slot that is given out more often than that gives out an old
token again.

`WrapperProofs`, the media adapters. For `SdlSpec` and any keys, slots and length of the queue: `SdlFaithfulAlways`,
`SdlSpec => []SdlFaithful`. Two invariants, for no step relates the two halves of the property.
`SdlObjectInv` is the counting half with types: the objects of each kind are as many as the table of the
kind holds, and a table only holds what it is for (without `sdlCaches \subseteq SdlCacheIds` a quit
could free a thing twice). `SdlInputInv` is the half of the input with the form of the events that wait:
exactly those of keys and buttons carry a code (`SdlEventOK`). The fold over the queue is a function
defined by recursion; `FoldExists` shows by counting up to the length of the queue (`SdlCountUp`) that
it exists, and `FoldedAppend` and `FoldedHeld` say what one more event does to it and that what it
holds depends on the held codes alone. `SdlAssumption` keeps the names of the kinds of events apart
and gives gains natural numbers (the code has floats, of which only the products are compared).
For `RlSpec` and tables of any size: `RaylibAlwaysOwned`, `RlSpec => []RaylibObjectsOwned`. `RlInv` says
of each kind that was not left behind at a close that its objects are the names its table holds and
no name is in two places (`RlTableOK`); a new object has a name that none has (`RlNewName`), so that a
table that is full loses no object and takes none over.

`FrameworkProofs`:

| theorem | says |
|---|---|
| `DuckAlwaysExact` | a connection is open as long as a frame or the call that made it has it; no two frames are one table |
| `OnnxAlwaysExact` | a refused session leaves nothing open; the values are those of the execution; a tensor has one owner |
| `LogicAlwaysExact` | a Lua seen as loaded is whole; stacks hold the results of good chunks; a query over has read everything |
| `BaseAlwaysExact` | connections, patterns and documents live as long as their handles need; numbers in range are kept |
| `ForeignObjectsAlwaysOwned` | `FrameworksSpec => []ForeignObjectsOwned`: all of this, and Raylib's, in one program |

`DdInv` counts for each context the calls that are making a frame and the frames that have it
(`DdExact`); a step moves one of them from one set to the other. For that it needs to know that the
frames a call works on are live (`DdCallOK`), that the frame a call is about to free is used by no other
call (`DdApart`), and that a table name that is handed out and not yet a frame's is nobody else's
(`DdTablesOK`). In `OxInv` the values of an execution are numbered as they are made, the inputs first
(`OxRunning`), which is what makes their set as large as the two lists are long; `OxOwnedOK` gives a
tensor one owner, a result or the call that is making one. `LgLoadInv` says what the one load that can
be under way has reached by its place: which library is mapped and how many entry points are its own;
`LgPipeOK` does the same for the pipe of a query, and that a child that runs can still write to its own
pipe, so that the end of the text is the end of the child. `CsInv` adds to the property that an open
statement whose database is closed was closed over (`CsOwnersOK`), which is why its connection is still
there. `CsAssumption` states that `2^CsWidth` is a natural number, for the provers know nothing of powers.
The composition needs no invariant of its own: each step of `FrameworksSpec` is a step of one
wrapper and a stutter of the others (`FrameworksImplement`). The behaviours that `bridges` explores are
among those of `FrameworksSpec`, with one wrapper in motion at a time.

For `GslSpec` and any threads and addresses `BridgeProofs` has `GslObjectsOwned`, `GslSpec => []GslOwnership`. The
invariant is the property with types (`GslInv == GslTypes /\ Owned`): an allocated address is in the
list once or in the hands of exactly one thread, and a thread's handle is not in the list. It is
inductive because a thread takes a handle out of the list in the same section that finds it, and
memory is given out only where it is free.

For `JsSpec` and any threads, table sizes and generations (`JsAssumption`) `BridgeProofs` has
`JsTablesImplementHandles`, the refinement `JsSpec => JsImplementsHandles`. The invariant `JsInv` holds
until two calls have one slot in hand (`jsClashed`). It says that a used slot has an odd generation, and
one that is not used has an odd generation only while a call is about to advance it (`JsCounted`: taking
and freeing both advance it, so the odd ones that were reached are what was handed out); that what an
object was made from is there as long as the object (`JsLinks`); and what each call under way has in
hand (`JsCallOK`): that the object it works for belongs to its own thread, hence cannot be freed by
another one, and that a slot it is about to take is still unused. `Fill` is then one `Issue` (the handle is
returned); every other step takes away at most one object, from which no other was made (`JsTakesAway`),
which is one `Retire` or a stutter. Without the threads' ownership the
runtime in which a context is being made could be freed in between.

`ReferenceProofs`, the objects that count their references:

| theorem | says |
|---|---|
| `ClzAlwaysExact` | an object lives as long as somebody holds it, is destroyed once, and old handles find nothing; a method is the one that the bases, the interfaces and their ranks give |
| `CapiAlwaysOwned` | the count of a descriptor is what refers to it, in whatever order things are freed; an event of a callback is in one place |

`ClzInv`: the holds that the program has on an object and the operands of calls under way that are it
(`CallsIn`, places on the stacks of the threads) are together its count (`Counted`); a method works on
objects that were given out (`StackOK`); a slot is in use, with the payload its handle was made for, or
empty, and a handle of an earlier generation finds nothing (`TableOK`). Of the types it says that a base
was made before what inherits from it (`ClzTypesOK`). So the chain of a type falls to its root, and the
chain of a base is an end of it (`ChainOK`), from which `DispatchIsInherited` derives `DispatchInherited`:
what a search finds, not the order of calls, decides. The theorem has
two hypotheses, both of which hold of `Native.cfg`. `ClzTypesFit`: no more types than the searches go deep
(`MaxInheritanceDepth`, 256, `uxclz.cpp` 18); a longer chain is cut off by the code and a base beyond
it is not found. `ClzRefsFit`: the holds and operands there can be do not exceed `ClzMaxRefs`, the
`UINT32_MAX` of the code; `invoke_multi` of an object with itself checks both operands before it
counts either (347-352), so that just below the limit its count would wrap.

`CapiInv`, without a hypothesis: the count of a descriptor is one if the program holds it, and the number of
fields, arguments and return types that name it (`CapiExact`). Freeing one takes its fields along,
and theirs in turn. The code does so by recursion, the model by one `ReleaseFirst` for each reference
on a list of those that are still to be given up, and what is true in between is that a count is the
references that are left plus the occurrences in that list (`ReleaseExact`); the number of fields and
references falls with every step, so that `TypeRelease` reaches the empty list. Events are in one of the
places an event can be in (`EventsOnce`).

**Only model-checked.** `Terminates`: liveness under fairness is beyond the provers. `ComputationsExact`, the
answers of the computing libraries and of the lists and of operations on two hashes of the library: they are
compared with recursive definitions and folds over data, of which the value for every input needs an
induction that takes an operator. Of the number buffers, hashes and queues the contents are proved
(`BuffersAlwaysShown`, `HashesAlwaysKept`, `QueuesAlwaysInOrder`); products and extrema, what is made of two hashes, and
the rotation of a deque are not. The comparison of Leibniz' sum with elimination or of a network with its
differences is mathematics, not a step of the code. `FilesExact` where `PRINT #` statements nest and
`ExitCodeExact` with spawns during shutdown are not true (findings 5 and 2).

## 6. Plan and what is not modelled

Done: `LockTable`, `TaskPool`, `Spec => LockSpec`; the other state of the native runtime; the bridges,
wrappers and computing libraries of the tables above; the refinement of `Handles`.

Next, in this order:

1. `SyncInterp`: the deferred task model of the interpreters, an instance for the AST interpreter and one
   for the MIR interpreter with their differences (when deferred tasks are run, null handles in
   groups), and an abstract specification of what a program may observe, which the native pool
   implements too.
2. Proofs: `Handles` for the table of `UxClz`; unions, differences and clones of hashes, and the rotation of a
   deque, by the induction over the places of a fold of which `PushedTwo` is an instance.
3. `Console` composed with `TaskPool`, with CONSOLE as a lock of the lock table.
4. `InterpHeap`; the libuv and TBB back ends of the slot table.

**Not modelled, and why.**

- The translators (preprocessor, parser, semantic passes, MIR lowering, generators) transform text and
  keep no state that a step could break. Of the lowering, the code for TRY and for `PRINT #` is in
  `Exceptions` and `NativeFiles`.
- The interpreters beyond their tasks: sequential evaluators of a whole language, better covered by the
  repository's comparison tests.
- Calls that pass on to a foreign library and keep nothing: drawing and input of SDL and Raylib, numeric
  routines of GSL, igraph, GLib's maps and nodes, HTTP, archives, compression, cryptography.
- Floating point: statistics, eigenvalues, singular values, QR, curved activations, scalers, norms.
- The 32 temporary texts of a thread: a text that is still used after 32 more is overwritten, and no
  module says when; the texts of `NativeTexts` are values instead.
- The browser runtime, the shell, the command line and the build pipeline: one thread, input and output
  only.

## 7. Checking

```
tlc -workers 2 -config LockTable.cfg MCLockTable      # each run: the cfg and the module of PROJECT.json
tlapm LockTableProofs.tla
tlapm TaskPoolProofs.tla
tlapm NativeProofs.tla
tlapm CollectionProofs.tla
tlapm BridgeProofs.tla
tlapm WrapperProofs.tla
tlapm FrameworkProofs.tla
tlapm ReferenceProofs.tla
```

No run takes more than about three minutes, and the proofs together, from nothing, about three quarters of an hour.
