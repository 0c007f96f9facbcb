# Lilith: a TLA+ model of TempleOS tasks on POSIX threads

Lilith (`src/lilith`) runs the TempleOS kernel, unmodified and in ring 3, as a
Linux process: the loader patches kernel functions with system calls of its own,
every TempleOS task (`CTask`) becomes a POSIX thread, and `UserSpaceTemple/Lilith2.HC`
replaces the kernel functions that relied on running alone (CLI/STI, cooperative
scheduling) with versions built on `LBts` spin bits and on a mutex and two condition
variables per task. What could not happen in TempleOS - two tasks inside the same
function at the same time - is what these modules are about.

## Inventory

| component | code | state | operations | who it talks to |
|---|---|---|---|---|
| job control | `UserSpaceTemple/Lilith2.HC` | per task: `srv_ctrl` (next_waiting, next_done, JOBCf_LOCKED), task flags, input filter ring; `sys_focus_task` | TaskExe, TaskText, TaskMsg, JobRunOne, JobsHndlr, JobResScan, TaskWait, Suspend, ScanMsg, GetKey, InputFilterTask | every task; the task's mutex and conditions |
| task and thread runtime | `lilith/syscalls.c` (Spawn, LockTask...), `lilith/task.c`, `lilith/utils.c` | per task: pthread, mutex, two conditions; `thread_create_destruct_mutex`; FS/GS mode; memory map | Spawn, templeos_task_start, lock/unlock/wait/signal, enter/exit_templeos, call_templeosN, signal_handler | kernel TaskInit/TaskEnd, allocator |
| allocator | `lilith/alloc.c`, `stb_malloc.h` as alloc.c configures it, `task.c` 330-386 | two heaps (code < 2 GiB, data), each with a spin lock, free lists, boundary tags, chunks of small blocks; the table of the code heap's memory | spin_lock, spin_unlock, the MAlloc/Free hooks, stbm_heap_alloc/free, register/get_templeos_memory | everybody; mmap; signal_handler reads the table |
| interned paths, hash | `lilith/hash.c`, `utils.c` | string-keyed tables | hash_init/get/put, intern_path | file calls, loader |
| kernel hash table | `lilith/templeos_hash_table.c` | (TempleOS's own table) | iteration, symbolication, stack trace | signal handler, find_entry_point |
| loader | `lilith/load.c` | symbols table, pending imports | load_pass1, load_one_import, load_kernel, kernel_patch, trampolines | kernel image |
| file calls | `lilith/syscalls.c` 88-614 | the host's files, open descriptors | fileread, filefind, filesfind, RedSea* replacements | builtin files, templeos root, host |
| X11 front end | `lilith/x11.c` | window, key state | create_window, keyevent_convert, x11_start | TaskMsg to the focus task |
| start-up, trampolines | `lilith/lilith.c`, `scripts/*.go` | arguments | main, syscall table | all |
| RedSea FUSE | `redseafs/redseafs.go` | directory cache, file image, lock | Lookup, ReadDir, ReadAll | FUSE, LZW |
| LZW | `tosz/tosz.go` | dictionary, bit position | ArcExpandBuf, ExpandFile | redseafs |
| ISO, deflate viewers | `iso`, `tosdeflate` tools | none | pure I/O | - |

Left aside: `static.c` (the kernel image and its like as generated arrays), what `alloc.c` does not
use of `stb_malloc.h` (a vendored header; the part compiled into lilith is the allocator), the TempleOS sources under
`UserSpaceTemple` other than Lilith2.HC (most of them compressed; where Lilith2.HC
calls them they are modelled from that use and marked external), images and demos.

### What is hard, and what makes each component correct

* **Job control.** Lists are protected by a spin bit that some functions take and some
  do not; a lock that is released in the middle of JobRunOne; a result list of another
  task; a DONE flag read without the lock; a condition variable with no predicate; tasks
  that end or fault in the middle. Correct when: the lists are only touched with the bit
  set; a job is in one place until it is freed, once; a finished request can be collected;
  a server that is asked runs what it is asked; waiting ends, and what it waited for holds.
* **Runtime.** Start handshake of a thread, a wait with no predicate; a mutex held while another
  task is spawned; default (non recursive) mutexes; FS and GS, which mean glibc's thread to C code and
  the CTask to TempleOS and are swapped by the calls between them, but for those of the heap (`MAlloc`, `Free`,
  `MHeapCtrl`, `MSize`, `TaskStkNew`: syscalls.c:34, 51, 655, 680, 840), which call no glibc that needs it.
  Correct when: a Spawn that has been told returns a task that is ready, the list of threads is
  whole, every thread runs with registers of its own.
* **Allocator.** A lock that is given up in the middle of an allocation to get memory; coalescing
  with both neighbours by tags in their headers; mmap that fails; a table that grows without any
  lock and is read by the signal handler. Correct when: no memory is in two blocks and none is
  lost, the handler knows code of the heap from C code, every call ends.
* **Message loop, input filters.** A mutex per task next to the spin bit per job list, which
  do not exclude each other; waits without a predicate; a ring of tasks that is changed under
  a different mutex at each end. Correct when, as long as no removal meets an insertion: a key
  arrives once and in order; a task that waits gets what is signalled; a filter runs its texts in order;
  and always: `TASKf_IDLE` never shows a task at work.
* **X11 front end.** A global device context that is swapped while TempleOS runs; a loop that
  blocks for an event it must have caused itself, and posts keys with functions that may spin or
  block. Correct when: every window takes the context of its own task; every window that works is
  drawn for ever.
* **File calls.** Precedence of builtin files, the TempleOS root and the host, decided by the
  directory in one call and by the file in another; calls of several tasks interleaved.
  Correct when: what was written is what is read; a path has one cluster.
* **LZW.** The table of strings is in no file: it is rebuilt from the codes, one entry behind the
  compressor, and entries are redefined once the table is full. Correct when: what comes out is
  what was compressed, nothing is read after the end, the table stays a tree.
* **Loader.** Two loaders walk one table, each by index arithmetic, and code is written over between
  the walks; functions are replaced when callers are bound to them. Correct when: no record is
  missed, nothing is relocated twice, a function that was replaced is never reached.
* **RedSea.** A cache under a mutex, and sizes that are read at two times.

## Modules

| module | what it models | code |
|---|---|---|
| `JobService` | abstract: a job is submitted, started, finished or discarded, collected; a task is retired | what job control promises |
| `JobCtl` | job control, one action per step of a thread | Lilith2.HC 18-46, 143-318; syscalls.c 855-916; utils.c 45-106 |
| `JobQueue` | the waiting list in memory: `QueIns` and `QueRem` store by store | Lilith2.HC 124-141, 280-301, 335-376 (from the use of `QueIns`/`QueRem`) |
| `MsgLoop` | a task that reads keys and its senders | Lilith2.HC 94-141, 280-301, 320-405; syscalls.c 855-916 |
| `InputFilter` | `TaskText`, the ring of input filters, `TaskMsg` along it, `InputFilterTask` | Lilith2.HC 48-141, 172-200, 406-447; syscalls.c 757-836 |
| `Threads` | `Spawn`, `templeos_task_start`, the list of threads, `signal_handler`, FS and GS in `enter_templeos` and `exit_templeos` | syscalls.c 757-836; task.c 271-320, 578-613; utils.c 45-106 |
| `Display` | EXTENDS `Threads` by `x11_start`: the redraw, the windows and the events | x11.c 244-439 |
| `FileCalls` | the RedSea replacements, `fileread`, `filefind`, `filesfind`, `intern_path`, `hash_get`, `hash_put` | syscalls.c 93-322, 421-614; utils.c 108-141; hash.c 6-40 |
| `ArcFile` | `ExpandFile`, `ArcCtrlNew`, `ArcEntryGet`, `ArcExpandBuf`, and the compressor of TempleOS they must agree with (external: `src/Compress.HC.Z`) | tosz.go 20-239 |
| `Loader` | the two walks over the kernel's patch table, the patches of its code, functions replaced while callers are bound to them; the compiler and `LoadKernel` of TempleOS are external | load.c 1-243, 292-431; hash.c 6-37; templeos_hash_table.c 1-41; task.c 363-386; syscalls.c 875-880 |
| `MemMap` | the table of the code heap's memory: registration, which may move it, and the handler's look-up, load by load | task.c 330-386; utils.c 45-106 |
| `Heap` | EXTENDS `MemMap` by `MAlloc` and `Free`: small, medium and large blocks, chunks, coalescing, the spin lock and where it is given up, mmap | alloc.c; the parts of stb_malloc.h it uses |
| `Picking` | the jobs of some kind in a list of jobs, for the properties of `MsgLoop` and `InputFilter` | |
| `JobCtlProofs` | theorems about `JobCtl`: types, the lock, orphan locks, dead tasks; where a job is; how it is answered and waited for; that `JobCtl` implements `JobService`; when a handle is good | |
| `JobQueueProofs` | theorems about `JobQueue`: the ring, its stores, that it implements a list | |
| `MsgLoopProofs`, `InputFilterProofs` | theorems about `MsgLoop` and `InputFilter`; each begins with the lemmas about `Picked` | |
| `DisplayProofs`, `FileCallsProofs` | theorems about `Display` with `Threads`, and `FileCalls` | |
| `HeapProofs` | theorems about `Heap` with `MemMap` | |
| `LoaderProofs` | theorems about `Loader`: the walk, the relocation, where calls end | |
| `MC...` | the model values and symmetries of TLC's instances | |

`JobCtl` and `JobQueue` both implement `JobService` (the refinement mappings are at the end of
each). `JobQueue` is what allows `JobCtl`, where every QueIns and QueRem runs under JOBCf_LOCKED, to take
one as one step. In `MsgLoop` and `InputFilter` it allows nothing of the kind: the QueRem of ScanMsg
(Lilith2.HC:346) runs under the task's mutex and that of a filter (:427) under nothing, while posters link
under the bit. There QueIns is two steps, between which a QueRem may fall, and `torn` says that the
stores of the two have met: a QueRem next to the place of an insertion, no other job between them. Then
what is in the list depends on which store came last (the run `scan` has the stores); MsgLoop ends there,
and in InputFilter that filter reads its list no more. Before that they write different pointers.
`Display` composes the threads with the loop of the main thread, `Heap` the allocator with the
table its memory is registered in and the handler that reads it. `JobCtl`, `MsgLoop` and
`InputFilter` are three views of one CTask structure: each models in full the functions its
subject needs and names in its header comment what it leaves to the others.

### How to read an action

A thread has a program counter `pc[t]`. "ready", "user" or "idle" means that it runs code
outside the module and may call any operation the constants allow; every other value is a
place in a function between two points at which another thread can notice or disturb it. An
action carries the name of the function it belongs to (`TaskExeLock`, `JobRunOne`,
`ScanMsgTake`) and does everything the code does up to the next such point. `LBts` in a loop
is an action that is enabled while the bit is clear; a `pthread_cond_wait` is a set of blocked
threads that a signal empties (`idleWait`, `enqWait`). POSIX lets a wait end without a signal. Where
the code does not test again what it waited for - Spawn (syscalls.c:830), GetKey (Lilith2.HC:396),
InputFilterTask (:418) - that is an action (`SpawnSpurious`, `SpuriousWake`, `FilterSpurious`, `GetKeyWake`),
and Spawn then returns a task that may not be ready. TaskWait (:186) goes round its loop and tests again;
that its wait may end without a signal is left out. Variables in the code keep their names (`tmpc`;
`next_waiting` is `waiting`, `next_done` is `done`).

History variables, which no guard reads: `owner` in a job (JobCtl), `sent` and `got`
(MsgLoop), `posted` and `ran` (InputFilter), `told` (Threads), `missed` (Display), `last`,
`writers`, `mixed`, `expect` and `starved` (FileCalls), `walked` and `meant` (Loader), `misread`
(MemMap).  Some others record what the code does not know and the model must: `raced` of
MemMap, that two threads have registered memory at the same time, and from there on every outcome is
possible; `torn` of MsgLoop and InputFilter (above); `held` of JobQueue, that ScanMsg goes round with the
mutex locked (it ends in "stuck", for JobsHndlr locks it again); `valid` of InputFilter, which tasks
TaskValidate accepts; `nomap` of Display, the windows without shared memory; `exited` of Threads and
FileCalls, that the process has ended.

Operations whose names start with `Mutant:` in their comment are not part of a specification.
They are defects put in the place of an operation to see that a property notices.

## Runs

Twelve runs; each takes between a few seconds and a little over three minutes with two workers.

| run | instance | question |
|---|---|---|
| `core` | JobCtl: a server, one caller of TaskExe, one poster through the kernel's functions that also calls TaskWait; two jobs; every flag a caller uses; jobs may fault, the server may end | Are the lists only touched by one thread, is a job in one place until it is freed, is a finished request collectable, is nothing left on a task that has ended, does TaskWait never miss a job of its caller that has still to be started, is `JobService` implemented? |
| `live` | JobCtl without TaskExe and faults, with JobQue and fairness | Does the lock come free, does JobsHndlr return, is every job answered, does TaskWait get on? Deadlock is checked. |
| `leak` | the smallest instance with one TaskExe | Finding: JOBCf_LOCKED stays set. |
| `ring` | JobQueue: two posters, three jobs, ScanMsg too, but no messages | Where only the bit is used, are the stores of QueIns and QueRem one step, and is what is posted taken, unless ScanMsg meets it at the head and locks itself out? |
| `scan` | the same with messages | Finding: ScanMsg unlinks without the bit. |
| `keys` | MsgLoop: two senders of keys, text and jobs to a task that scans and waits for keys, and may end, with fairness | Until a QueRem meets a QueIns: does every key arrive once and in order, does a scan end and a waiting task return its key unless ScanMsg locks itself out? Is TASKf_IDLE only set while the task waits? |
| `filters` | InputFilter: one caller, one sender, two filters, two texts and a message; a text of the highest priority that reads a key, one that may call Exit; waits of the caller and of a filter that may end without a signal | Does every filter whose list is not torn run the texts posted to it in their order and once, and is a text to a waiting filter executed? |
| `frames` | Display: Adam and three tasks; Adam and one task may fault, one may fail to start, one hides itself, one calls the heap; waits for a start that end without the broadcast; two windows may fail | Is the list of threads never damaged, does a Spawn that is told return a task that is ready, has every thread its own FS, does every window take its own context, is every window drawn for ever as long as posts come back? |
| `files` | FileCalls: two tasks, a directory, a file and a built-in file, a TempleOS root; three calls, two descriptors | Is what was written what is read, has a path one cluster, does every call return unless the process ends? |
| `lzw` | ArcFile: every file of up to 16 bytes over two values, codes of two and three bits | Does what was compressed come out, is nothing read after the body, does the table stay a tree while its entries are redefined? |
| `load` | Loader: every table of two absolute addresses, a heap variable, two exports and two imports | Is no record missed or walked twice, is no address relocated twice or inside of a jump, does no call reach a function that was replaced? |
| `heap` | Heap: a thread with small requests and one with medium and large ones in the code heap, one region of three units, one thread that may fault | Is no memory handed out twice or lost, does the handler mistake an address only if the table moves under the read that decides, does every call end? |

### Why the bounds are enough

* **Jobs and tasks (JobCtl).** Every race is between a server and one other thread about one
  list; a second client makes two requests overlap in JobRunOne's window (249-257), and a
  second job lets one be in the list while the other runs or is collected. Jobs are reused
  after they are freed, so behaviours are not limited by the pool.
* **JobQueue** needs three jobs: one that is removed, its neighbour and one being inserted.
* **MsgLoop**: each job is sent once. Two keys in order and a third message to be
  thrown out between them is the longest chain ScanMsg's mask distinguishes.
* **Heap**: in a region of three units a block that is freed has a free neighbour on either side.
  Two slots per chunk let a chunk be full, half full and empty, and the cache hold one while
  another empties. Three live allocations fill the region, one region more is exhaustion. The table
  holds one entry at first, so that the first registration moves it, and a request that exhausts memory,
  whose MAP_FAILED is registered as well, moves it again while an address of the region is looked up:
  TLC finds look-ups that go wrong both ways, and ones that read a freed table and are right. Requests are split
  by thread, small on one side, medium and large on the other: small blocks reach the medium lists
  through their chunks, so both threads work on all lists. Two threads that ask for the same kind
  differ in nothing but names.
* **InputFilter**: two filters, so that one ends while the next is linked, which
  is all that the ring's two mutexes let overlap. A second caller is left out of the run (`TextsInOrder`
  holds with any number). `Msgs`, `Exits` and `Early` name the job that is a message, the text that may call
  Exit and the threads whose waits may end without a signal: one of each kind, of the caller and of the filter.
* **Display**: `MaxWork` = 3 bounds spawned tasks, inputs and shows and hides together: three
  spawns give concurrent insertions at the head of the list, one spawn leaves two moves to hide
  and show a window between its put and its completion. `MaxEvents` = 1 lets a redraw start
  only when no event is under way. The queue still fills within a redraw. `Early` is one task,
  which spawns others; `Callers` another, which calls the heap; `MayFailWin` is Adam's window and one more.
* **FileCalls**: two calls at once and one after them. Two writes use up the descriptors, so the
  third call sees the failure of `open`, or of `opendir`, which ends the process; a write of one block over a file of two shows whether
  it is truncated.
* **ArcFile**: `MinBits` 1 and `MaxBits` 3 leave six entries. Within 16 bytes codes grow, the table
  fills, its entries are redefined in order, and the search for a leaf wraps round and skips an
  entry that has become a parent. `ByteBits` 2 leaves the slack that 7-bit text has in a byte.
* **Symmetry** is used for jobs (and senders) in runs without liveness only.
* **Loader**: two functions are enough for one to be patched and the other replaced before TempleOS
  runs, and both after; two imports, for one to end the other's record. Three moves after LoadKernel
  replace a function, replace its replacement, and have a caller bound in between. A cell of the
  table stands for the bytes of one field.
* `CHECK_DEADLOCK FALSE` is set where the system may stop: a thread that has ended or faulted, a
  bit left set (`core`, `leak`), messages used up (`keys`, `scan`), filters
  and calls used up (`filters`, `files`), ScanMsg that locks itself out (`ring`), Adam's exit (`frames`), a
  fault of the process or a lock whose owner has faulted (`heap`), a file or a load that is done (`lzw`,
  `load`). `live` checks deadlock.

### Fairness

Every task is a POSIX thread that the host's scheduler runs again and again, so a thread inside
one of the functions goes on when it can: weak fairness per thread and group of actions. Nothing
is assumed of the code around them: no call is ever due, no job ever faults by necessity. LBts
is not fair, and the code has no queue of waiters, so liveness in JobCtl and JobQueue is stated
for posters that stop some day (`Quiet`). In InputFilter a sender that goes round the ring for
ever takes the filter's mutex again and again; the property excludes that by a premise. In
Display the loop, the X server and threads that start or die go on; the user and the tasks do
not have to. Nor does lilith_TaskMsg have to return to the loop, which calls it for a key (x11.c:424): it
may spin on a bit left set, block on a mutex, or go round the ring; `FramesGoOn` has it as a premise that it
returns. No wait has to end without its signal. In FileCalls a thread in a call goes on, as long as the
process does (`GoesOn`); the mutex of `paths_table` is taken for
a few steps only, and no task takes it for ever, for calls are bounded. In Heap the compare-and-swap
is not fair either: `CallsEnd` is about a thread that is not overtaken for ever (its premise), and
gives up the calls behind a lock whose owner has faulted, which nothing ever releases.

## Findings

* `leak` (Lilith2.HC:37). The branch of TaskExe that posts the job leaves JOBCf_LOCKED set.
* `scan` (Lilith2.HC:346). ScanMsg unlinks the head of the list under the mutex of the task,
  TaskMsg links under JOBCf_LOCKED: a message is lost, or a NULL pointer is followed.

Met while modelling, and reachable in the models, but stated by no property of a run:

* ScanMsg with a job that is not a message at the head of the list, which JobsHndlr cannot take
  while its caller holds the mutex, goes round with the mutex locked; the signal of JobsHndlr
  needs that same mutex. `ScanReturns` therefore has the premise `OnlyMessages`.
* A key sent between GetKey's last look and its wait wakes nobody (Lilith2.HC:396). (MsgLoop: add
  `KeyDelivered` to a run of one sender and one key, with FairSpec.)
* A filter that ends while TaskText links the next one clears the link of srv but not its flag:
  TaskMsg goes round srv for ever. (InputFilter: add `MsgLeavesRing` to the `filters` run.)
* A text posted to a filter that is about to wait, or has left its loop, is not executed.
* Texts posted to different filters run in any order. TaskWait waits for the oldest filter only, so a
  second text of the highest priority starts a third filter while the second has its own still to
  run; and a filter that ends while TaskText links the next one leaves itself as the last of srv, so
  that the next text starts another filter although the linked one has work. No doc promises an
  order there: `RunsInOrder` is about one filter.
* TaskWait may return while a job of another task is in hand (`WaitSeesStarted` is what remains:
  none of its caller's is still to be started), and may sleep on although the task is idle.
* Spawn may miss the broadcast of a thread that starts quickly: the caller then waits for ever, or, as
  POSIX lets its wait end without one, returns a task that is not initialised and on no list
  (`ToldIsReady` promises nothing of it). When the start fails templeos_task_start gives memory of
  stb_malloc to glibc's `free` (task.c:583), which ends the process (`StartFails`).
* lilith_TaskMsg is called by the loop of the main thread: what makes it spin or block stops the display
  of every task (`KeyPosted` need not happen).
* `TaskMsg` and `TaskText` return with JOBCf_LOCKED set if the task is not valid any more once they have
  the lock (Lilith2.HC:80, 127: `PostInvalid` of InputFilter, the branch of `TaskMsgLock` in MsgLoop).
* DCNew runs with `thread_create_destruct_mutex` held; if it faults, signal_handler asks for the
  same mutex (`CreateFault`), and no thread can start any more.
* A window that is hidden when its completion arrives is not drawn again when it is shown
  (`missed`); one whose image could not be made faults on its first Expose (`ExposedFailed`).
* FileWrite leaves its descriptor open, and FileRead does so for a directory; when there are no
  more, files can be neither read nor written (`starved`), and a look-up passes opendir's NULL to
  readdir (syscalls.c:119), which ends the process (`FindFaults`).
* stbm__alloc_normal stores the header of the block it takes after the lock was released
  (stb_malloc.h:2363), and a free or an allocation next to it that changes STBM__PREVIOUS in between
  is lost, although stb_malloc.h:341 says "This mutex is used to prevent multiple threads from
  manipulating the heap data structure at the same time". (Heap: give `Requests` the value
  `MediumOnly` and add `TagsRight`.) A later merge then ends in an assertion (`Broken`).
* mmap's MAP_FAILED is not NULL: alloc.c hands it on and the first store to it faults, in
  stbm__large_alloc with the lock of the heap held. A fault in C code ends the process, for
  signal_handler begins with exit_templeos.
* A table of the code heap's memory that moves between the load of `v` and the read of the entry that
  decides makes signal_handler take code of the heap for C code, or the other way round (`misread`).
* Two threads that register memory at the same time may lose an entry or write behind the table
  (`raced`): the code heap's memory is obtained with the lock of the heap given up.
* A file written under a built-in name in "/" is never read: the built-in one comes first.
* One file below the root has two path strings, with one slash and with two, and so two clusters
  (`Path`): OneCluster is about strings. The cluster of a directory names one layer; FileFind by
  such a cluster does not see the other.
* A symbol that the kernel does not export ends the program in trampoline_kernel_patch, and is a
  NULL pointer that is followed in kernel_patch_instruction (`pc` = "segv"). A heap variable gets
  memory from load_pass1 and from TempleOS's LoadKernel; only the second is used by the kernel.
* load_one_import returns one byte before the end of the table, on the 0 of the last import's name,
  which load_pass1 takes for the end: it works because every name ends in 0.
* `ExpandFile` counts the header in `src_size` although the body starts after it, and the compressor
  writes its last code in as many bits as the one before, for which its buffer has the room;
  `RoundTrip` and `InBounds` show that the size of the output ends the loop in time.

## What is proved

All theorems hold for any constants that satisfy the ASSUME of their module: the sets of
tasks, jobs, messages, windows, files may be of any size, and the workload any.

**Job control** (`JobCtlProofs`).

* `TypeCorrect`. `TypeOK` needs `HasJob`: in the steps where the code dereferences
  its local `tmpc`, there is a job. Their conjunction `Typed` is inductive (`TypedStep`, one step
  per action).
* `LocksExclude`, the mutual exclusion of `LockExclusive`, inductive together with
  `Typed`: the interesting actions are JobRunOne, which gives the lock up with a job in hand, and
  JobReplyLock, which takes that of another task.
* `NoOrphanLocks`, if nobody calls TaskExe (`Exers = {}`): a bit that is set has a
  thread inside. The assumption is what `leak` shows to be needed. The strengthening `OrphanInv`
  adds that no thread is in the steps of TaskExe, which is where the thread would leave the bit.
* `NoJobsOnDead`, if nobody uses JobQue (`QueCodes = {}`): JobQue, unlike the
  functions of Lilith2.HC, does not validate the task again once it has the lock. `DeadInv` adds
  that no thread is in the steps of JobQue.
* `JobsInOnePlace`. `JobInOnePlace` speaks of indices; the proof first turns the
  lists into the sets of their elements (`WaitSets`, `DoneSets`, `InHands`), which is right
  because no list has an element twice, and that is part of the invariant. `PlaceInv` then says of
  every job on the heap that exactly one of the three holds it, and that none of them holds
  another. Every action is one of a few kinds of move (a new job into a hand, from a hand to a list,
  from a list to a hand, out of a hand to the heap's free memory, a list thrown away), with a lemma
  for each.
* `RepliesStayOwned` and `DoneJobsAreCollectable` need to know whose list the job
  in hand belongs to: `Own(t)` ties `tmpc`, `ctrl` and the job's `master`, `ctrl` and `owner` in each
  step of a thread, and `ReplyInv` adds that the jobs on a list name its task and that DONE is set
  only on the list of `ReplyTo`. Mutual exclusion is used for the step between insertion and flag:
  the flag is set with the lock held, so nobody has collected the job. `WaitersSeeStarted` adds
  `NoneOfMine`: after TaskWait's first test the list may fill again, but only with jobs of others,
  since its caller is waiting.
* `ServiceImplemented`: `Spec => ImplementsService`, step by step. The insertions are
  Submit, taking a job off is Start, insertion in a done list is Finish or, for a job that is thrown
  away, Discard; the rest leave the three mapped variables alone. `JobsInOnePlace` is what gives the
  guard of Submit (the job is not known yet).
* `HandlesStayLive`, under `Undisturbed`: no task scans for just any result and no
  server ends. Either would free another task's job; the run `live` has the same premise in its
  constants. `HandleInv` says that the job of a request is the caller's own and is to be kept until
  it is collected by address.

**The waiting list in memory** (`JobQueueProofs`), for any posters and jobs, under `Locking`: ScanMsg is
not used, or meets no message. That is the boundary the run `scan` shows: a message is removed under
another lock. `RingIsWhole` (`RingWhole`), `StoresAreFresh` (`NoStaleStore`) and
`ListImplemented` (`ImplementsList`) rest on one invariant: JOBCf_LOCKED excludes (`Exclusive`), and there
is a sequence `R` of nodes, the CJobCtrl first and none twice, that is the ring (`Ring`): following `next`
goes up `R` and following `last` goes down, but for the places between two stores of QueIns or QueRem,
which `Fwd` and `Back` list; `Regs` says what the registers of the thread inside point to, `Held`
that every job is on `R` or in one thread's hands. Each action gives the next `R`: the same, one longer at the
end, or one shorter behind the CJobCtrl. That the walk of the properties, a recursive function,
visits `R` is shown by the least place where they would differ (`StepsAre`). For the refinement
`R` without the CJobCtrl is the list.

**Message loop** (`MsgLoopProofs`): `TypeCorrect`, with `Roles` (the server is only ever in the steps
that read, the others never are), and `IdleIsWaiting` from the same invariant: the flag set by GetKey
is cleared on every way out of the wait. `TypeOK` of MsgLoop is proved and in no run. `NoKeyLost` (`KeysOnce`),
of a list that is not torn and a task that lives, adds that every job that was posted has a code
(`KeysInv`); both steps of QueIns are in it, and a QueRem between them. Which keys a sequence has is
`Picked`, a recursive function on
sequences. The module's first lemmas show that it is well defined (`PickedExists`, `PickedIs`, by the least place
where two functions would differ) and what appending a job (`PickedAppend`), taking the head
(`PickedTail`) and changing the code of a job that is not in the sequence (`PickedSame`) do to it.

**Input filters** (`InputFilterProofs`): `FilterTypes`, and `TextsInOrder` (`RunsInOrder`) for any callers,
filters and texts, whichever waits end without a signal and whichever texts call Exit, of every filter whose
list is not torn. `CodeInv` adds to the types that a job that is in a list or being sent keeps its
code, and that a filter that executes has a text in hand. `Moves` are the actions that move a
job; everything else leaves lists, codes and the two histories alone (`Quiet`).

**Threads and display** (`DisplayProofs`): `TypeCorrect`, `RegistersAreOwn` (`OwnFs`) and
`ContextsAreOwn` (`OwnContext`), for any tasks that start, fault, fail, hide and any bounds. The
invariant joins the types, the places a thread can be in (`Places`), the CCPU it keeps glibc's
registers in (`Cpus`), the fields of the loop (`Loop`) and the two properties. What carries it is that
a CCPU is used by one thread, from its creation, and that only Adam's thread swaps `gr->dc2`.
`ListIsKept` (`ListKept`) and `ToldAreReady` (`ToldIsReady`) are about the list of threads, which starts at
first_templeos_task and ends in NULL; threads are linked at its head and none is ever taken off. The
invariant names a sequence, the chain of links from the first thread (`Chain`), that no thread is on
before it links itself, and thread_create_destruct_mutex keeps those that link and the redraw apart
(`OwnTcd`), so that an insertion puts one more in front of a whole chain. The walk of the
code is a recursive function; that it visits the chain (`WalkIs`) is shown by the least place where
the two would differ.

**File calls** (`FileCallsProofs`): `PathsHaveOneCluster` (`OneCluster`). Between hash_get and hash_put
the string is in no entry (`Missing`), which holds because the steps of the others are outside of
the mutex (`OutsideStep`: every action but the four of intern_path); an entry's cluster is at most
the number of entries (`Counted`), so the next one is new; `Found` is what the caller is told. Nothing
is assumed about what a path is.

`WritesAreReadBack` (`ReadBack`), for any tasks, names, directories and trees, with and without
templeos_root, and any number of calls and descriptors. `DInv`, which TLC has checked on instances with and without
templeos_root, has three parts. A name has one writer unless it is in `mixed`, and then it is not
clear what a read must return (`Alone`, `MixedUnclear`). `WriterOk`: a writer that is alone holds
the first blocks of its text in its file, and is in the layer a read looks in: RedSeaFileWrite chooses
the host's tree only if templeos_root has no such directory, hence no such file, and only a write could
make one, which would be a second writer. `Kept` and `ReaderOk`: the file that a read
sees has what the name was last given, and a read that must return something has not passed it
(`ReaderFinds`), has its size from stat and a beginning of it in its buffer.

**Allocator** (`HeapProofs`), for any threads, heaps, regions, sizes and requests, and whether or not
mmap fails.
* `HeapInvariant`. The two properties below are not inductive: between two steps of a call memory is
  in nobody's list. `HeapInv` gives every piece one owner. `Apart`: no two of the free blocks,
  the allocated ones and those in the hands of a thread (`HandPCs`) have a unit in common; `Covered`: there is one
  for each unit of a region; `MediumOwned` and `SmallOwned`: an allocated block or slot belongs to the caller,
  the list of chunks, the cache or the one thread that allocates or frees it; `RegionsApart` and `LargeApart`:
  the same of a region that mmap has returned or that is freed; `Working`: who holds a block has the lock
  of its heap where the code needs it. A failed assertion (`Break`) ends all threads at once, so that `AllBroken`
  is the other half of the invariant `IInv`: which headers are right (`TagsRight` does not
  hold) is not assumed. `Moves` is the point where that is settled: a step that ends in no
  assertion merges blocks that lie side by side and are free (`JoinedIs`).
* `MemoryApart` (`BlocksApart`). In a region no unit is in two blocks and none is in none.
* `OnlyMovesMislead` (`WrongOnlyIfMoved`). `TableInv`: entries up to `len` stay (`Longer`), one thread
  registers at a time, memory that is in use or used before is in the table (`AllListed`), and an entry
  that a look-up has passed over does not hold the address, or was read in freed memory (`LookupAt`). It needs
  `HeapInv`: that a thread registers the region it has got, and that the region of a live block was
  linked, hence registered. Two threads that register at once (`raced`) are set aside.

**Loader** (`LoaderProofs`), for any number of functions of any length, any table that the compiler may
write, and any number of declarations, calls and replacements, under `LoaderAssumption`: what the kernel
holds of addresses is inside of it, no address is both absolute and imported, no CLI that is patched lies
in an address or in the first bytes of its function, and nothing imported is bound in the first bytes of a
function, where a jump is written if it is replaced (`ImportSites \cap Heads = {}`). TLC has checked every part of the
invariants below on the instance of the run `load`.
* `WalkedOnceHolds` (`WalkedOnce`). `TableInv` says what is in the table: one record of absolute
  addresses at most, in front (`Whole`, `Ordered`), and imports, the first of them with a name, at the
  end; `InitTable` shows it of everything that `Init` allows. `Encoded`, a recursive
  function, is well defined and each record's cells lie where `FieldsAt` says (`Recursion`, `EncodedIs`,
  `EncodedPrefix`); `strlen` stops at the 0 of the name (`StrLenIs`), so `PastName` and what is added to it
  lead to the next record (`ReadRecord`); five bytes before a name its record begins (`StepsBack`). `WalkInv` is the property with the reader's place: it is at the
  start of the next record, but for one state: load_one_import has met the end and gone back one cell,
  and load_pass1 takes the 0 of the last name, which is there, for the end.
* `RelocatedOnceHolds` (`RelocatedOnce`): load_pass1 relocates what the table lists, whatever it lists;
  LoadKernel, which is external, passes over absolute addresses by its definition. `MemInv`: until the walk is over memory is what it was
  (`Fresh`), with the relocation of all absolute addresses made or not, as the first record has been read or
  not; after it, everything that is still code has been relocated if it is absolute and only then.
* `CallsReachHolds` (`CallsReach`). The functions of the kernel and of Lilith2.HC are slots, one behind the
  other (`Home`); the code that a jump takes up at the start of one is apart from that of the others, from what
  kernel_patch_instruction patches and from what LoadKernel binds (`HomeApart`, `HomeCli`, `HomeImport`).
  `ChainInv` names the functions that have been bound to each name (`Of`) and the last of them: all others begin
  with a whole jump to a later one, and the last is what is meant or has a jump to it, out of these functions
  (`Jumps`); every call and entry of the name has one of them, and what TempleOS finds first has the last
  (`Bound`). A replacement writes where the last is: there the next one is linked to the chain, or its way
  out changed (`ChainReplace`). No jump leads back, so that `MaxLate` + 1 jumps reach its end
  (`JumpsReach`). `SymInv`: what Lilith finds of the kernel is where the kernel has it.

Checked by TLC and not proved:
* Liveness and fairness (`JobsFinish`, `HandlerReturns`, `TaskWaitReturns`, `PostedIsTaken`, `ScanReturns`,
  `WakeDelivers`, `WaitingFilterRuns`, `FramesGoOn`, `CallsReturn`, `CallsEnd`): out of the prover's reach.
* `RoundTrip`, `InBounds` and `TreeKept` of ArcFile. What ArcExpandBuf computes for every input is an
  induction over data, which the prover does not do; that no read is behind the body rests on the same.
  So does the tree of the expander: a code that was not written could name the entry that
  is about to be defined, and make it its own parent.

`TypeOK` of InputFilter is proved and in no run; `TypeOK` of FileCalls and ArcFile documents the state and is in no run.

## What is not modelled

* Pop-up tasks in `TaskExe`, `TaskMsg` and `ScanMsg` (`popup_task` is NULL in every instance), the
  macro recorder, JOBf_HIGHEST_PRIORITY outside of TaskText.
* The contents of freed memory: ScanMsg reads `tmpc->aux2` after `JobDel`, JobRunOne answers on the list of
  a master that may have ended.
* What other threads draw while `gr->dc2` is swapped; the lock under `DEBUG_TASKS` is (`EndLock`).
* Registers other than FS and GS; `call_templeosN` beyond the swap of these.
* In Heap size classes, alignment, the bitmaps that find a list, debug and aligned blocks, thread
  caches and realloc, which lilith does not use. The kernel's hash table is TempleOS's own.
* In FileCalls masks (`wildmatch`), flags, dates, attributes, and deletion, which Lilith does not
  have. A directory is read in one step, by the first call of intern_path or by the answer; its
  descriptor stays open until the names are interned.
* Text in x11.c; window closing, which the code does not handle.
* In ArcFile `entry_used` and whatever serves to go on with a second buffer: `ExpandFile` has one.
* In Loader the header of the image and its alignment, `kernel_patch_var64`, data, and jumps shorter
  than a function: in the kernel image of the repository every function that is replaced is longer than
  a jump, every patched byte is what the patch expects, and no name is exported twice, which the
  model takes over.
* RedSea FUSE: every request runs from end to end under one mutex, so that nothing in it interleaves;
  what remains, the size shown by Attr (read from a file's header when its directory is listed)
  against the bytes that ReadAll returns, is on the list of hazards without a property. The command
  line viewers: pure I/O.
* Keyboard tables (`keyevent_convert`) and masks (`wildmatch`) are functions of their arguments
  without state.

## Plan

What is left, most useful first:

1. A theorem: `TreeKept` of ArcFile while a file is compressed, whose invariant would name the depth of every
   entry; for the expander, that the codes it reads are those that were written comes first.
2. `RedSeaFS`: the directory cache, errors of reading, Attr against ReadAll over `ArcFile`'s ExpandFile.
3. Pop-up tasks in MsgLoop and InputFilter: the delivery from a parent to its pop-up (Lilith2.HC 366-370).
4. `wildmatch` and `filesfindmatch` against a reference matcher over short strings, to be used by
   FileCalls' `FilesFind`; `keyevent_convert`, as part of Display.
